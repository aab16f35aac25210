------------------------ MODULE RaidLockdown_proofs ------------------------
(***************************************************************************)
(* What holds of RaidLockdown for every number of handlers, every gap and   *)
(* duration, in every interleaving.                                         *)
(***************************************************************************)
EXTENDS RaidLockdown, SequenceTheorems, TLAPS

(* The steps an actor may stand at. *)
Places == {"idle", "readRaid", "claim", "engage", "raise", "timer", "inspect", "restore", "clear"}

(* What the assumption says of the constants, in the form the steps use. *)
LEMMA LevelFacts ==
  /\ High \in Level /\ Level \subseteq Int
  /\ Gap \in Nat /\ Duration \in Nat /\ Start \in Nat /\ Never \in Nat
  /\ \A s \in Scopes : s.levels \subseteq Level
  BY RaidAssumption DEF Start, Never, High

(* A call that uses up a bound, an event the server sends. *)
LEMMA UseTyped == ASSUME TypeOK, NEW w \in Bounded, Use(w) PROVE used' \in [Bounded -> Nat]
  BY DEF TypeOK, Use

(* An actor moves to another of its steps. *)
LEMMA GotoTyped ==
  ASSUME TypeOK, NEW a, NEW label \in Places, Goto(a, label) PROVE pc' \in [Actor -> Places]
  BY DEF TypeOK, Goto, Places

(* A change of the level and the event that tells of it. *)
LEMMA LevelTyped ==
  ASSUME TypeOK, NEW l \in Level, SetLevel(l) PROVE level' \in Level /\ updates' \in Seq(Level)
  BY DEF TypeOK, SetLevel

(* A failing GuildEdit changes nothing but the count of failures. *)
LEMMA EditFailsTyped ==
  ASSUME TypeOK, EditFails
  PROVE level' \in Level /\ updates' \in Seq(Level) /\ used' \in [Bounded -> Nat]
  BY UseTyped DEF TypeOK, EditFails, Bounded

(* Every step of the module and of its surroundings keeps the types. *)
LEMMA Typed == ASSUME TypeOK, [Next]_vars PROVE TypeOK'
<1> USE LevelFacts
<1> USE DEF TypeOK, Bounded, server, module, locals, history
<1>1. ASSUME NEW h \in Handler, Join(h) PROVE TypeOK'
  BY <1>1 DEF Join, Goto, Actor
<1>2. ASSUME NEW h \in Handler, ReadRaid(h) PROVE TypeOK'
  BY <1>2 DEF ReadRaid, Goto, Actor
<1>3. ASSUME NEW h \in Handler, Claim(h) PROVE TypeOK'
  BY <1>3 DEF Claim, Swap, Goto, Actor
<1>4. ASSUME NEW h \in Handler, ClaimFails(h) PROVE TypeOK'
  BY <1>4 DEF ClaimFails, Goto
<1>5. ASSUME NEW h \in Handler, Engage(h) PROVE TypeOK'
  BY <1>5 DEF Engage, Goto
<1>6. ASSUME NEW h \in Handler, Raise(h) PROVE TypeOK'
  <2>1. pc' \in [Actor -> Places]
    BY <1>6, GotoTyped DEF Raise, Places
  <2>2. level' \in Level /\ updates' \in Seq(Level) /\ used' \in [Bounded -> Nat]
    <3>1. CASE SetLevel(High) /\ UNCHANGED used
      BY <3>1, LevelTyped
    <3>2. CASE EditFails
      BY <3>2, EditFailsTyped
    <3> QED
      BY <1>6, <3>1, <3>2 DEF Raise
  <2> QED
    BY <1>6, <2>1, <2>2 DEF Raise, Places
<1>7. ASSUME NEW h \in Handler, ResetTimer(h) PROVE TypeOK'
  BY <1>7 DEF ResetTimer, Goto, Actor
<1>8. ASSUME Tick PROVE TypeOK'
  BY <1>8 DEF Tick, Goto
<1>9. ASSUME NEW h \in Handler, RaidSilenceOff(h) PROVE TypeOK'
  <2>1. pc' \in [Actor -> Places] /\ used' \in [Bounded -> Nat]
    BY <1>9, GotoTyped, UseTyped DEF RaidSilenceOff, Places
  <2> QED
    BY <1>9, <2>1 DEF RaidSilenceOff, Places
<1>10. ASSUME NEW h \in Handler, RaidSilenceOn(h) PROVE TypeOK'
  BY <1>10, UseTyped DEF RaidSilenceOn
<1>11. ASSUME NEW a \in Actor, Inspect(a) PROVE TypeOK'
  BY <1>11 DEF Inspect, Goto
<1>12. ASSUME NEW a \in Actor, Restore(a) PROVE TypeOK'
  <2>1. pc' \in [Actor -> Places]
    BY <1>12, GotoTyped DEF Restore, Places
  <2>2. level' \in Level /\ updates' \in Seq(Level) /\ used' \in [Bounded -> Nat]
    <3>1. CASE lockdown # NoLockdown /\ SetLevel(lockdown) /\ UNCHANGED used
      BY <3>1, LevelTyped
    <3>2. CASE UNCHANGED <<level, updates>> /\ (UNCHANGED used \/ Use("failures"))
      BY <3>2, UseTyped
    <3> QED
      BY <1>12, <3>1, <3>2 DEF Restore
  <2> QED
    BY <1>12, <2>1, <2>2 DEF Restore, Places
<1>13. ASSUME NEW a \in Actor, Clear(a) PROVE TypeOK'
  BY <1>13 DEF Clear, Goto
<1>14. ASSUME NEW l \in Level, Manual(l) PROVE TypeOK'
  <2>1. level' \in Level /\ updates' \in Seq(Level) /\ used' \in [Bounded -> Nat]
    BY <1>14, LevelTyped, UseTyped DEF Manual
  <2> QED
    BY <1>14, <2>1 DEF Manual
<1>15. ASSUME Deliver PROVE TypeOK'
  BY <1>15 DEF Deliver
<1>16. ASSUME Outage PROVE TypeOK'
  BY <1>16 DEF Outage, Use
<1>17. ASSUME Return PROVE TypeOK'
  BY <1>17 DEF Return
<1>18. ASSUME Restart PROVE TypeOK'
  BY <1>18 DEF Restart, Use
<1>19. ASSUME TimePasses PROVE TypeOK'
  BY <1>19 DEF TimePasses
<1>20. CASE UNCHANGED vars
  BY <1>20 DEF vars
<1> QED
  BY <1>1, <1>2, <1>3, <1>4, <1>5, <1>6, <1>7, <1>8, <1>9, <1>10, <1>11, <1>12, <1>13,
     <1>14, <1>15, <1>16, <1>17, <1>18, <1>19, <1>20
     DEF Next, Proceed, Disable

(* A behaviour starts with a level of its instance, and nothing under way. *)
LEMMA InitTyped == Init => TypeOK
<1> SUFFICES ASSUME Init PROVE TypeOK
  OBVIOUS
<1>1. level \in Level /\ scope \in Scopes
  BY LevelFacts DEF Init
<1>2. used \in [Bounded -> Nat]
  BY DEF Init
<1> QED
  BY <1>1, <1>2, LevelFacts DEF Init, TypeOK, Actor

(* The module's fields are well typed in every reachable state. *)
THEOREM RaidTypeCorrect == Spec => []TypeOK
<1>1. Init => TypeOK
  BY InitTyped
<1> QED
  BY <1>1, Typed, PTL DEF Spec

-----------------------------------------------------------------------------
(***************************************************************************)
(* RateLimit's compare-and-swap.  AlarmsApart is not inductive: one has to  *)
(* know that LastRaid is the latest alarm, and that a handler about to      *)
(* swap has compared its time with the LastRaid it has read.                *)
(***************************************************************************)
LastRaidIsLatest == alarms # << >> => lastRaid = alarms[Len(alarms)]
ClaimsCompared == \A h \in Handler : pc[h] = "claim" => now[h] - seen[h] > Gap
RaidInv == AlarmsApart /\ LastRaidIsLatest /\ ClaimsCompared

(* A step that raises no alarm and moves nobody to the swap keeps it all. *)
LEMMA NoAlarm ==
  ASSUME TypeOK, RaidInv, UNCHANGED <<alarms, lastRaid, now, seen>>,
         \A h \in Handler : pc'[h] = "claim" => pc[h] = "claim"
  PROVE  RaidInv'
BY DEF RaidInv, AlarmsApart, LastRaidIsLatest, ClaimsCompared

(* Who moves to a step other than the swap is not about to swap. *)
LEMMA MovesOn ==
  ASSUME TypeOK, NEW a \in Actor, NEW label \in Places \ {"claim"}, Goto(a, label)
  PROVE  \A h \in Handler : pc'[h] = "claim" => pc[h] = "claim"
BY DEF TypeOK, Goto, Actor, Places

(* The swap: the new alarm is more than Gap after the last one. *)
LEMMA AlarmStep ==
  ASSUME TypeOK, RaidInv, NEW h \in Handler, Claim(h) PROVE RaidInv'
<1>1. now[h] \in Nat /\ seen[h] \in Nat /\ lastRaid \in Nat /\ alarms \in Seq(Nat)
  BY DEF TypeOK, Actor
<1>2. now[h] - lastRaid > Gap
  BY DEF Claim, Swap, RaidInv, ClaimsCompared
<1>3. alarms' = Append(alarms, now[h]) /\ lastRaid' = now[h]
  BY DEF Claim, Swap
<1>4. Len(alarms') = Len(alarms) + 1 /\ alarms'[Len(alarms) + 1] = now[h]
      /\ \A i \in 1..Len(alarms) : alarms'[i] = alarms[i]
  BY <1>1, <1>3, AppendProperties
<1>5. LastRaidIsLatest'
  BY <1>3, <1>4 DEF LastRaidIsLatest
<1>6. AlarmsApart'
  <2> SUFFICES ASSUME NEW i \in 1..Len(alarms') - 1 PROVE alarms'[i + 1] - alarms'[i] > Gap
    BY DEF AlarmsApart
  <2>1. Len(alarms) \in Nat
    BY <1>1
  <2>2. i \in 1..Len(alarms)
    BY <1>4, <2>1
  <2>3. CASE i = Len(alarms)
    <3>1. alarms[i] = lastRaid
      BY <2>2, <2>3 DEF RaidInv, LastRaidIsLatest
    <3> QED
      BY <1>2, <1>4, <2>2, <2>3, <3>1
  <2>4. CASE i \in 1..Len(alarms) - 1
    <3>1. i + 1 \in 1..Len(alarms)
      BY <2>1, <2>4
    <3>2. alarms[i + 1] - alarms[i] > Gap
      BY <2>4 DEF RaidInv, AlarmsApart
    <3> QED
      BY <1>4, <2>2, <3>1, <3>2
  <2> QED
    BY <2>1, <2>2, <2>3, <2>4
<1>7. ClaimsCompared'
  <2>1. \A g \in Handler : pc'[g] = "claim" => pc[g] = "claim"
    BY MovesOn DEF Claim, Actor, Places
  <2>2. UNCHANGED <<now, seen>>
    BY DEF Claim, locals
  <2> QED
    BY <2>1, <2>2 DEF RaidInv, ClaimsCompared
<1> QED
  BY <1>5, <1>6, <1>7 DEF RaidInv

(* Reading LastRaid moves on to the swap only after the comparison. *)
LEMMA CompareStep ==
  ASSUME TypeOK, RaidInv, NEW h \in Handler, ReadRaid(h) PROVE RaidInv'
<1>1. UNCHANGED <<alarms, lastRaid, now>>
  BY DEF ReadRaid, history, module
<1>2. ClaimsCompared'
  <2> SUFFICES ASSUME NEW g \in Handler, pc'[g] = "claim" PROVE now'[g] - seen'[g] > Gap
    BY DEF ClaimsCompared
  <2>1. CASE g = h
    <3>1. pc'[h] = "claim" /\ pc' = [pc EXCEPT ![h] = IF now[h] - lastRaid > Gap THEN "claim" ELSE "idle"]
      BY <2>1 DEF ReadRaid, Goto
    <3>2. now[h] - lastRaid > Gap
      BY <3>1 DEF TypeOK, Actor
    <3>3. seen'[h] = lastRaid
      BY DEF ReadRaid, TypeOK, Actor
    <3> QED
      BY <1>1, <2>1, <3>2, <3>3
  <2>2. CASE g # h
    <3>1. pc[g] = "claim" /\ seen'[g] = seen[g]
      BY <2>2 DEF ReadRaid, Goto, TypeOK, Actor
    <3> QED
      BY <1>1, <3>1 DEF RaidInv, ClaimsCompared
  <2> QED
    BY <2>1, <2>2
<1> QED
  BY <1>1, <1>2 DEF RaidInv, AlarmsApart, LastRaidIsLatest

(* A handler that starts is not about to swap. *)
LEMMA JoinStep ==
  ASSUME TypeOK, RaidInv, NEW h \in Handler, Join(h) PROVE RaidInv'
<1>1. UNCHANGED <<alarms, lastRaid, seen>>
  BY DEF Join, history, module
<1>2. ClaimsCompared'
  <2> SUFFICES ASSUME NEW g \in Handler, pc'[g] = "claim" PROVE now'[g] - seen'[g] > Gap
    BY DEF ClaimsCompared
  <2>1. g # h /\ pc[g] = "claim"
    BY DEF Join, Goto, TypeOK, Actor
  <2>2. now'[g] = now[g]
    BY <2>1 DEF Join, TypeOK, Actor
  <2> QED
    BY <1>1, <2>1, <2>2 DEF RaidInv, ClaimsCompared
<1> QED
  BY <1>1, <1>2 DEF RaidInv, AlarmsApart, LastRaidIsLatest

(* A new process has raised no alarm, and nobody is about to swap. *)
LEMMA RestartStep == ASSUME TypeOK, Restart PROVE RaidInv'
<1>1. alarms' = << >> /\ pc' = [a \in Actor |-> "idle"]
  BY DEF Restart
<1>2. Len(alarms') = 0
  BY <1>1
<1> QED
  BY <1>1, <1>2 DEF RaidInv, AlarmsApart, LastRaidIsLatest, ClaimsCompared, Actor

(* No step breaks the invariant. *)
LEMMA RaidStep ==
  ASSUME TypeOK, RaidInv, [Next]_vars PROVE RaidInv'
<1> USE DEF server, module, locals, history
<1>1. ASSUME NEW h \in Handler, Join(h) \/ ReadRaid(h) \/ Claim(h) PROVE RaidInv'
  BY <1>1, JoinStep, CompareStep, AlarmStep
<1>2. ASSUME NEW h \in Handler,
             ClaimFails(h) \/ Engage(h) \/ Raise(h) \/ ResetTimer(h) \/ RaidSilenceOff(h)
      PROVE  RaidInv'
  <2>1. \E label \in Places \ {"claim"} : Goto(h, label)
    BY <1>2 DEF ClaimFails, Engage, Raise, ResetTimer, RaidSilenceOff, Places
  <2>2. UNCHANGED <<alarms, lastRaid, now, seen>>
    BY <1>2 DEF ClaimFails, Engage, Raise, ResetTimer, RaidSilenceOff
  <2> QED
    BY <2>1, <2>2, MovesOn, NoAlarm DEF Actor
<1>3. ASSUME NEW a \in Actor, Disable(a) PROVE RaidInv'
  <2>1. \E label \in Places \ {"claim"} : Goto(a, label)
    BY <1>3 DEF Disable, Inspect, Restore, Clear, Places
  <2>2. UNCHANGED <<alarms, lastRaid, now, seen>>
    BY <1>3 DEF Disable, Inspect, Restore, Clear
  <2> QED
    BY <2>1, <2>2, MovesOn, NoAlarm
<1>4. CASE Tick
  <2>1. Goto(Ticker, "inspect") /\ UNCHANGED <<alarms, lastRaid, now, seen>>
    BY <1>4 DEF Tick
  <2> QED
    BY <2>1, MovesOn, NoAlarm DEF Actor, Places
<1>5. ASSUME \/ \E h \in Handler : RaidSilenceOn(h)
             \/ \E l \in Level : Manual(l)
             \/ Deliver \/ Outage \/ Return \/ TimePasses \/ UNCHANGED vars
      PROVE  RaidInv'
  <2>1. UNCHANGED <<alarms, lastRaid, now, seen, pc>>
    BY <1>5 DEF RaidSilenceOn, Manual, Deliver, Outage, Return, TimePasses, vars
  <2> QED
    BY <2>1, NoAlarm
<1>6. Restart => RaidInv'
  BY RestartStep
<1> QED
  BY <1>1, <1>2, <1>3, <1>4, <1>5, <1>6 DEF Next, Proceed

(* Two alarms are more than Gap seconds apart, however many members join at
   once and however their handlers interleave, until the bot restarts. *)
THEOREM AlarmsNeverClose == Spec => []AlarmsApart
<1>1. Init => TypeOK /\ RaidInv
  <2>1. Init => RaidInv
    BY LevelFacts DEF Init, Actor, RaidInv, AlarmsApart, LastRaidIsLatest, ClaimsCompared
  <2> QED
    BY <2>1, InitTyped
<1>2. TypeOK /\ RaidInv /\ [Next]_vars => TypeOK' /\ RaidInv'
  BY Typed, RaidStep
<1>3. TypeOK /\ RaidInv => AlarmsApart
  BY DEF RaidInv
<1> QED
  BY <1>1, <1>2, <1>3, PTL DEF Spec

-----------------------------------------------------------------------------
(***************************************************************************)
(* What holds while handlers take turns.  One actor is at work; the bot's   *)
(* view of the level lags by the events under way; a level that was         *)
(* replaced is remembered at every step in between.                         *)
(***************************************************************************)
OneAtWork == \A x, y \in Actor : pc[x] # "idle" /\ pc[y] # "idle" => x = y

ViewFollows ==
  cache # Missing =>
    IF updates = << >> THEN cache = level ELSE updates[Len(updates)] = level

Fresh == \A x \in Actor : pc[x] \in {"readRaid", "claim", "engage", "inspect"} => updates = << >>
Seen == \A x \in Actor : pc[x] \in {"readRaid", "claim", "engage"} => cache # Missing

Kept == /\ prior # None => level = High /\ lockdown = prior
        /\ \A x \in Actor : pc[x] = "raise" => prior = None /\ lockdown = level
        /\ \A x \in Actor : pc[x] = "clear" => err[x] \/ prior = None

TurnInv == Calm => OneAtWork /\ ViewFollows /\ Fresh /\ Seen /\ Kept

(***************************************************************************)
(* What the idle loop has to know of alarms: the timer is not behind any of *)
(* them, but for the handler on its way to set it.                          *)
(***************************************************************************)
AllBefore(t) == \A i \in 1..Len(alarms) : alarms[i] <= t
Alarmed == {"readRaid", "claim", "engage", "raise", "timer"}

TimerInv ==
  Calm =>
    /\ OneAtWork
    /\ AllBefore(clock)
    /\ \A x \in Actor : pc[x] \in Alarmed => AllBefore(now[x]) /\ now[x] <= clock
    /\ AllBefore(lastlockdown) \/ \E x \in Actor : pc[x] \in {"engage", "raise", "timer"}
    /\ pc[Ticker] \in {"inspect", "restore"} => \A i \in 1..Len(alarms) : clock - alarms[i] > Duration

(* Who moves is the one at work, or starts while nobody is: all others are idle. *)
LEMMA Alone ==
  ASSUME TypeOK, OneAtWork, NEW a \in Actor, NEW label \in Places, Goto(a, label),
         pc[a] # "idle" \/ \A x \in Actor : pc[x] = "idle"
  PROVE  /\ pc'[a] = label
         /\ \A x \in Actor : x # a => pc[x] = "idle" /\ pc'[x] = "idle"
         /\ OneAtWork'
  <1>1. pc'[a] = label /\ \A x \in Actor : x # a => pc[x] = "idle" /\ pc'[x] = "idle"
    BY DEF TypeOK, OneAtWork, Goto
  <1> QED
    BY <1>1 DEF OneAtWork

(* Every step is one actor's, which then is alone, or moves no actor. *)
LEMMA OneStep ==
  ASSUME TypeOK, Calm, OneAtWork, [Next]_vars PROVE OneAtWork'
  <1>1. ASSUME NEW h \in Handler, Join(h) \/ RaidSilenceOff(h) PROVE OneAtWork'
    <2>1. \A x \in Actor : pc[x] = "idle"
      BY <1>1 DEF Join, RaidSilenceOff, MayStart, Quiet
    <2>2. \E label \in Places : Goto(h, label)
      BY <1>1 DEF Join, RaidSilenceOff, Places
    <2> QED
      BY <2>1, <2>2, Alone DEF Actor
  <1>2. ASSUME NEW h \in Handler, Proceed(h) PROVE OneAtWork'
    <2>1. pc[h] # "idle" /\ \E label \in Places : Goto(h, label)
      BY <1>2 DEF Proceed, ReadRaid, Claim, ClaimFails, Engage, Raise, ResetTimer, Places
    <2> QED
      BY <2>1, Alone DEF Actor
  <1>3. ASSUME NEW a \in Actor, Disable(a) PROVE OneAtWork'
    <2>1. pc[a] # "idle" /\ \E label \in Places : Goto(a, label)
      BY <1>3 DEF Disable, Inspect, Restore, Clear, Places
    <2> QED
      BY <2>1, Alone
  <1>4. CASE Tick
    BY <1>4, Alone DEF Tick, Quiet, Actor, Places
  <1>5. CASE Restart
    BY <1>5 DEF Restart, OneAtWork
  <1>6. ASSUME \/ \E h \in Handler : RaidSilenceOn(h)
               \/ \E l \in Level : Manual(l)
               \/ Deliver \/ Outage \/ Return \/ TimePasses \/ UNCHANGED vars
        PROVE  OneAtWork'
    BY <1>6 DEF RaidSilenceOn, Manual, Deliver, Outage, Return, TimePasses, vars, OneAtWork
  <1> QED
    BY <1>1, <1>2, <1>3, <1>4, <1>5, <1>6 DEF Next

(* An event goes out with every change of the level. *)
LEMMA LevelSeen ==
  ASSUME TypeOK, ViewFollows, NEW l \in Level, SetLevel(l), cache' = cache PROVE ViewFollows'
  <1>1. updates \in Seq(Level)
    BY DEF TypeOK
  <1>2. CASE l = level
    BY <1>2 DEF SetLevel, ViewFollows
  <1>3. CASE l # level
    <2>1. updates' = Append(updates, l) /\ level' = l
      BY <1>3 DEF SetLevel
    <2>2. updates' # << >> /\ Len(updates') = Len(updates) + 1 /\ updates'[Len(updates) + 1] = l
      BY <1>1, <2>1, AppendProperties
    <2> QED
      BY <2>1, <2>2 DEF ViewFollows
  <1> QED
    BY <1>2, <1>3

(* A step that is nobody's. *)
LEMMA Elsewhere ==
  ASSUME TypeOK, ViewFollows, Fresh, Seen, Kept, UNCHANGED <<pc, lockdown, err>>,
         \/ \E h \in Handler : RaidSilenceOn(h)
         \/ \E l \in Level : Calm /\ Manual(l)
         \/ Deliver \/ (Calm /\ Outage) \/ Return \/ TimePasses \/ UNCHANGED vars
  PROVE  ViewFollows' /\ Fresh' /\ Seen' /\ Kept'
  <1> USE DEF server, module, locals, history
  <1>1. ASSUME UNCHANGED <<level, updates, cache, prior>> PROVE ViewFollows' /\ Fresh' /\ Seen' /\ Kept'
    BY <1>1 DEF ViewFollows, Fresh, Seen, Kept
  <1>2. ASSUME NEW l \in Level, Calm, Manual(l) PROVE ViewFollows' /\ Fresh' /\ Seen' /\ Kept'
    <2>1. \A x \in Actor : pc[x] = "idle"
      BY <1>2 DEF Manual, Quiet
    <2>2. prior' = None /\ SetLevel(l) /\ cache' = cache
      BY <1>2 DEF Manual
    <2> QED
      BY <2>1, <2>2, LevelSeen DEF Fresh, Seen, Kept
  <1>3. ASSUME Deliver PROVE ViewFollows' /\ Fresh' /\ Seen' /\ Kept'
    <2>1. /\ updates \in Seq(Level) /\ updates # << >> /\ cache # Missing
          /\ cache' = Head(updates) /\ updates' = Tail(updates) /\ UNCHANGED <<level, prior>>
      BY <1>3 DEF Deliver, TypeOK
    <2>2. Len(updates) \in Nat \ {0} /\ updates[Len(updates)] = level
      BY <2>1, EmptySeq DEF ViewFollows
    <2>3. CASE Len(updates) = 1
      BY <2>1, <2>2, <2>3 DEF ViewFollows, Fresh, Seen, Kept
    <2>4. CASE Len(updates) > 1
      <3>1. Len(updates') = Len(updates) - 1 /\ updates'[Len(updates) - 1] = updates[Len(updates)]
        BY <2>1, <2>2, <2>4
      <3>2. updates' # << >>
        BY <2>2, <2>4, <3>1
      <3> QED
        BY <2>1, <2>2, <3>1, <3>2 DEF ViewFollows, Fresh, Seen, Kept
    <2>5. Len(updates) = 1 \/ Len(updates) > 1
      BY <2>2
    <2> QED
      BY <2>3, <2>4, <2>5
  <1>4. ASSUME Calm, Outage PROVE ViewFollows' /\ Fresh' /\ Seen' /\ Kept'
    <2>1. \A x \in Actor : pc[x] = "idle"
      BY <1>4 DEF Outage, Quiet
    <2>2. cache' = Missing /\ UNCHANGED <<level, updates, prior>>
      BY <1>4 DEF Outage
    <2> QED
      BY <2>1, <2>2 DEF ViewFollows, Fresh, Seen, Kept
  <1>5. ASSUME Return PROVE ViewFollows' /\ Fresh' /\ Seen' /\ Kept'
    <2>1. cache = Missing /\ cache' = level /\ updates' = << >> /\ UNCHANGED <<level, prior>>
      BY <1>5 DEF Return
    <2> QED
      BY <2>1 DEF ViewFollows, Fresh, Seen, Kept
  <1>6. ASSUME (\E h \in Handler : RaidSilenceOn(h)) \/ TimePasses \/ UNCHANGED vars
        PROVE  UNCHANGED <<level, updates, cache, prior>>
    BY <1>6 DEF RaidSilenceOn, TimePasses, vars
  <1> DEFINE Good == ViewFollows' /\ Fresh' /\ Seen' /\ Kept'
  <1>7. CASE (\E h \in Handler : RaidSilenceOn(h)) \/ TimePasses \/ UNCHANGED vars
    BY <1>1, <1>6, <1>7
  <1>8. CASE (\E l \in Level : Calm /\ Manual(l)) \/ Deliver \/ (Calm /\ Outage) \/ Return
    BY <1>2, <1>3, <1>4, <1>5, <1>8
  <1> HIDE DEF server, module, locals, history
  <1> QED
    BY <1>7, <1>8, Zenon

(* The steps of a handler and of DisableLockdown while nobody else is at work. *)
LEMMA TurnStep ==
  ASSUME TypeOK, TurnInv, Calm, [Next]_vars, ~Restart PROVE TurnInv'
  <1> USE DEF server, module, locals, history
  <1>0. OneAtWork /\ ViewFollows /\ Fresh /\ Seen /\ Kept
    BY DEF TurnInv
  <1>T. /\ pc \in [Actor -> Places] /\ err \in [Actor -> BOOLEAN] /\ NoLockdown \notin Level /\ None \notin Level
        /\ lockdown \in Level \cup {NoLockdown} /\ level \in Level /\ prior \in Level \cup {None}
        /\ cache \in Level \cup {Missing} /\ High \in Level /\ Missing \notin Level /\ NoLockdown # None
    BY RaidAssumption DEF TypeOK, Places, NoLockdown, None, Missing, High
  <1>K. ASSUME NEW a \in Actor, NEW label \in Places, Goto(a, label),
               pc[a] # "idle" \/ \A x \in Actor : pc[x] = "idle"
        PROVE  /\ pc'[a] = label /\ \A x \in Actor : x # a => pc'[x] = "idle"
    BY <1>0, <1>K, Alone
  <1>1. OneAtWork'
    BY <1>0, OneStep
  <1>2. ASSUME NEW h \in Handler, Join(h) PROVE ViewFollows' /\ Fresh' /\ Seen' /\ Kept'
    <2>1. /\ Goto(h, "readRaid") /\ cache # Missing /\ updates = << >>
          /\ \A x \in Actor : pc[x] = "idle"
          /\ UNCHANGED <<level, updates, cache, lockdown, prior, err>>
      BY <1>2 DEF Join, MayStart, Quiet
    <2>2. pc'[h] = "readRaid" /\ \A x \in Actor : x # h => pc'[x] = "idle"
      BY <1>K, <2>1 DEF Actor, Places
    <2> QED
      BY <1>0, <2>1, <2>2 DEF ViewFollows, Fresh, Seen, Kept
  <1>3. ASSUME NEW h \in Handler, NEW label \in {"claim", "idle"}, ReadRaid(h) \/ ClaimFails(h), Goto(h, label)
        PROVE  ViewFollows' /\ Fresh' /\ Seen' /\ Kept'
    <2>1. /\ UNCHANGED <<level, updates, cache, lockdown, prior, err>>
          /\ pc[h] \in {"readRaid", "claim"} /\ h \in Actor
      BY <1>3 DEF ReadRaid, ClaimFails, Actor
    <2>2. pc'[h] = label /\ \A x \in Actor : x # h => pc'[x] = "idle"
      BY <1>3, <1>K, <2>1 DEF Places
    <2> QED
      BY <1>0, <2>1, <2>2 DEF ViewFollows, Fresh, Seen, Kept
  <1>4. ASSUME NEW h \in Handler, Claim(h) PROVE ViewFollows' /\ Fresh' /\ Seen' /\ Kept'
    <2>1. /\ UNCHANGED <<level, updates, cache, lockdown, prior, err>>
          /\ pc[h] = "claim" /\ Goto(h, "engage") /\ h \in Actor
      BY <1>4 DEF Claim, Actor
    <2>2. pc'[h] = "engage" /\ \A x \in Actor : x # h => pc'[x] = "idle"
      BY <1>K, <2>1 DEF Places
    <2> QED
      BY <1>0, <2>1, <2>2 DEF ViewFollows, Fresh, Seen, Kept
  <1>5. ASSUME NEW h \in Handler, Engage(h) PROVE ViewFollows' /\ Fresh' /\ Seen' /\ Kept'
    <2>1. UNCHANGED <<level, updates, cache, prior, err>> /\ pc[h] = "engage" /\ h \in Actor
      BY <1>5 DEF Engage, Actor
    <2>2. updates = << >> /\ cache = level
      BY <1>0, <2>1 DEF Fresh, Seen, ViewFollows
    <2>3. CASE lockdown = NoLockdown
      <3>1. lockdown' = level /\ Goto(h, "raise")
        BY <1>5, <1>T, <2>2, <2>3 DEF Engage
      <3>2. pc'[h] = "raise" /\ \A x \in Actor : x # h => pc'[x] = "idle"
        BY <1>K, <2>1, <3>1 DEF Places
      <3>3. prior = None
        BY <1>0, <1>T, <2>3 DEF Kept
      <3> QED
        BY <1>0, <2>1, <3>1, <3>2, <3>3 DEF ViewFollows, Fresh, Seen, Kept
    <2>4. CASE lockdown # NoLockdown
      <3>1. lockdown' = lockdown /\ Goto(h, "timer")
        BY <1>5, <2>4 DEF Engage
      <3>2. pc'[h] = "timer" /\ \A x \in Actor : x # h => pc'[x] = "idle"
        BY <1>K, <2>1, <3>1 DEF Places
      <3> QED
        BY <1>0, <2>1, <3>1, <3>2 DEF ViewFollows, Fresh, Seen, Kept
    <2> QED
      BY <2>3, <2>4
  <1>6. ASSUME NEW h \in Handler, Raise(h) PROVE ViewFollows' /\ Fresh' /\ Seen' /\ Kept'
    <2>1. UNCHANGED <<cache, lockdown, err>> /\ pc[h] = "raise" /\ h \in Actor /\ Goto(h, "timer")
      BY <1>6 DEF Raise, Actor
    <2>2. pc'[h] = "timer" /\ \A x \in Actor : x # h => pc'[x] = "idle"
      BY <1>K, <2>1 DEF Places
    <2>3. prior = None /\ lockdown = level
      BY <1>0, <2>1 DEF Kept
    <2>4. CASE SetLevel(High) /\ prior' = level
      <3>1. ViewFollows' /\ level' = High
        BY <1>0, <1>T, <2>1, <2>4, LevelSeen DEF SetLevel
      <3> QED
        BY <2>1, <2>2, <2>3, <2>4, <3>1 DEF Fresh, Seen, Kept
    <2>5. CASE UNCHANGED <<level, updates, prior>>
      BY <1>0, <2>1, <2>2, <2>3, <2>5 DEF ViewFollows, Fresh, Seen, Kept
    <2> QED
      BY <1>6, <2>3, <2>4, <2>5 DEF Raise, EditFails
  <1>7. ASSUME NEW h \in Handler, ResetTimer(h) PROVE ViewFollows' /\ Fresh' /\ Seen' /\ Kept'
    <2>1. /\ UNCHANGED <<level, updates, cache, lockdown, prior, err>>
          /\ pc[h] = "timer" /\ h \in Actor /\ Goto(h, "idle")
      BY <1>7 DEF ResetTimer, Actor
    <2>2. pc'[h] = "idle" /\ \A x \in Actor : x # h => pc'[x] = "idle"
      BY <1>K, <2>1 DEF Places
    <2> QED
      BY <1>0, <2>1, <2>2 DEF ViewFollows, Fresh, Seen, Kept
  <1>8. ASSUME NEW a \in Actor,
               \/ Tick /\ a = Ticker
               \/ a \in Handler /\ RaidSilenceOff(a)
        PROVE  ViewFollows' /\ Fresh' /\ Seen' /\ Kept'
    <2>1. /\ UNCHANGED <<level, updates, cache, lockdown, prior, err>> /\ updates = << >>
          /\ \A x \in Actor : pc[x] = "idle"
          /\ Goto(a, "inspect")
      BY <1>8 DEF Tick, RaidSilenceOff, MayStart, Quiet
    <2>2. pc'[a] = "inspect" /\ \A x \in Actor : x # a => pc'[x] = "idle"
      BY <1>K, <2>1 DEF Places
    <2> QED
      BY <1>0, <2>1, <2>2 DEF ViewFollows, Fresh, Seen, Kept
  <1>9. ASSUME NEW a \in Actor, Inspect(a) PROVE ViewFollows' /\ Fresh' /\ Seen' /\ Kept'
    <2>1. /\ UNCHANGED <<level, updates, cache, lockdown, prior>> /\ pc[a] = "inspect"
          /\ err'[a] = (cache = Missing)
      BY <1>9 DEF Inspect, TypeOK
    <2>2. PICK label \in {"idle", "restore", "clear"} :
            Goto(a, label) /\ (label = "clear" => lockdown # NoLockdown /\ cache # High)
      BY <1>9 DEF Inspect
    <2>3. pc'[a] = label /\ \A x \in Actor : x # a => pc'[x] = "idle"
      BY <1>K, <2>1, <2>2 DEF Places
    <2>4. label = "clear" => err'[a] \/ prior = None
      BY <1>0, <2>1, <2>2 DEF Kept, Fresh, ViewFollows
    <2> QED
      BY <1>0, <2>1, <2>2, <2>3, <2>4 DEF ViewFollows, Fresh, Seen, Kept
  <1>10. ASSUME NEW a \in Actor, Restore(a) PROVE ViewFollows' /\ Fresh' /\ Seen' /\ Kept'
    <2>1. UNCHANGED <<cache, lockdown>> /\ pc[a] = "restore" /\ Goto(a, "clear")
      BY <1>10 DEF Restore
    <2>2. pc'[a] = "clear" /\ \A x \in Actor : x # a => pc'[x] = "idle"
      BY <1>K, <2>1 DEF Places
    <2>3. CASE lockdown # NoLockdown /\ SetLevel(lockdown) /\ prior' = None
      <3>1. ViewFollows'
        BY <1>0, <1>T, <2>1, <2>3, LevelSeen
      <3> QED
        BY <2>2, <2>3, <3>1 DEF Fresh, Seen, Kept
    <2>4. CASE err' = [err EXCEPT ![a] = TRUE] /\ UNCHANGED <<level, updates, prior>>
      <3>1. err'[a]
        BY <1>T, <2>4
      <3> QED
        BY <1>0, <2>1, <2>2, <2>4, <3>1 DEF ViewFollows, Fresh, Seen, Kept
    <2> QED
      BY <1>10, <2>3, <2>4 DEF Restore
  <1>11. ASSUME NEW a \in Actor, Clear(a) PROVE ViewFollows' /\ Fresh' /\ Seen' /\ Kept'
    <2>1. /\ UNCHANGED <<level, updates, cache, err>> /\ pc[a] = "clear" /\ Goto(a, "idle")
          /\ prior' = IF err[a] THEN None ELSE prior
      BY <1>11 DEF Clear
    <2>2. pc'[a] = "idle" /\ \A x \in Actor : x # a => pc'[x] = "idle"
      BY <1>K, <2>1 DEF Places
    <2>3. prior' = None
      BY <1>0, <2>1 DEF Kept
    <2> QED
      BY <1>0, <2>1, <2>2, <2>3 DEF ViewFollows, Fresh, Seen, Kept
  <1>12. ASSUME \/ \E h \in Handler : RaidSilenceOn(h)
                \/ \E l \in Level : Manual(l)
                \/ Deliver \/ Outage \/ Return \/ TimePasses \/ UNCHANGED vars
         PROVE  ViewFollows' /\ Fresh' /\ Seen' /\ Kept'
    <2>1. UNCHANGED <<pc, lockdown, err>>
      BY <1>12 DEF RaidSilenceOn, Manual, Deliver, Outage, Return, TimePasses, vars
    <2>2. \/ \E h \in Handler : RaidSilenceOn(h)
          \/ \E l \in Level : Calm /\ Manual(l)
          \/ Deliver \/ (Calm /\ Outage) \/ Return \/ TimePasses \/ UNCHANGED vars
      <3> HIDE DEF server, module, locals, history
      <3> QED
        BY <1>12, Zenon
    <2> HIDE DEF server, module, locals, history
    <2> QED
      BY <1>0, <2>1, <2>2, Elsewhere
  <1>13. ASSUME NEW h \in Handler, ReadRaid(h) \/ ClaimFails(h) PROVE ViewFollows' /\ Fresh' /\ Seen' /\ Kept'
    <2>1. \E label \in {"claim", "idle"} : Goto(h, label)
      BY <1>13 DEF ReadRaid, ClaimFails
    <2> QED
      BY <1>13, <1>3, <2>1
  <1>14. ASSUME NEW h \in Handler, RaidSilenceOff(h) PROVE ViewFollows' /\ Fresh' /\ Seen' /\ Kept'
    BY <1>8, <1>14 DEF Actor
  <1>15. ASSUME Tick PROVE ViewFollows' /\ Fresh' /\ Seen' /\ Kept'
    BY <1>8, <1>15 DEF Actor
  <1>16. ASSUME NEW h \in Handler, Join(h) \/ Proceed(h) \/ RaidSilenceOff(h) \/ RaidSilenceOn(h)
         PROVE  ViewFollows' /\ Fresh' /\ Seen' /\ Kept'
    BY <1>2, <1>4, <1>5, <1>6, <1>7, <1>12, <1>13, <1>14, <1>16 DEF Proceed
  <1>17. ASSUME NEW a \in Actor, Disable(a) PROVE ViewFollows' /\ Fresh' /\ Seen' /\ Kept'
    BY <1>9, <1>10, <1>11, <1>17 DEF Disable
  <1> DEFINE Good == ViewFollows' /\ Fresh' /\ Seen' /\ Kept'
  <1>18. Good
    <2>1. CASE \E h \in Handler : Join(h) \/ Proceed(h) \/ RaidSilenceOff(h) \/ RaidSilenceOn(h)
      BY <2>1, <1>16
    <2>2. CASE \E a \in Actor : Disable(a)
      BY <2>2, <1>17
    <2>3. CASE Tick
      BY <2>3, <1>15
    <2>4. CASE \/ \E l \in Level : Manual(l)
               \/ Deliver \/ Outage \/ Return \/ TimePasses \/ UNCHANGED vars
      BY <2>4, <1>12
    <2> QED
      <3> HIDE DEF server, module, locals, history, Good
      <3> QED
        BY <2>1, <2>2, <2>3, <2>4, Zenon DEF Next
  <1> QED
    BY <1>1, <1>18 DEF TurnInv

LEMMA ScopeStays == ASSUME [Next]_vars PROVE scope' = scope
  BY DEF Next, vars, Join, Proceed, ReadRaid, Claim, ClaimFails, Engage, Raise, ResetTimer,
         RaidSilenceOff, RaidSilenceOn, Disable, Inspect, Restore, Clear, Manual, Tick, Deliver,
         Outage, Return, Restart, TimePasses

(***************************************************************************)
(* Where handlers and the idle loop take turns, a level the bot replaced is *)
(* the one it will put back, until the process is restarted: nothing of the *)
(* module is on disk.                                                       *)
(***************************************************************************)
THEOREM PriorAlwaysRemembered ==
  ASSUME \A s \in Scopes : s.calm => s.limit["restarts"] = 0
  PROVE  Spec => []PriorIsRememberedInTurn
  <1>1. Init => TurnInv
    <2> SUFFICES ASSUME Init PROVE OneAtWork /\ ViewFollows /\ Fresh /\ Seen /\ Kept
      BY DEF TurnInv
    <2> QED
      BY DEF Init, OneAtWork, ViewFollows, Fresh, Seen, Kept
  <1>2. TypeOK /\ TurnInv /\ [Next]_vars => TurnInv'
    <2> SUFFICES ASSUME TypeOK, TurnInv, [Next]_vars, Calm' PROVE TurnInv'
      BY DEF TurnInv
    <2>1. scope' = scope
      BY ScopeStays
    <2>2. Calm
      BY <2>1 DEF Calm
    <2>3. ~Restart
      <3>1. scope.limit["restarts"] = 0 /\ used["restarts"] \in Nat
        BY <2>2 DEF TypeOK, Calm, Bounded
      <3> QED
        BY <3>1 DEF Restart, MayUse
    <2> QED
      BY <2>2, <2>3, TurnStep
  <1>3. TurnInv => PriorIsRememberedInTurn
    BY DEF TurnInv, Kept, PriorIsRememberedInTurn, PriorIsRemembered
  <1> QED
    BY <1>1, <1>2, <1>3, RaidTypeCorrect, PTL DEF Spec

(***************************************************************************)
(* The timer is not behind any alarm: an alarm claims, then sets it, and    *)
(* the idle loop does not begin in between.                                 *)
(***************************************************************************)
LEMMA TimerKept ==
  ASSUME TypeOK, TimerInv, Calm, Calm', OneAtWork',
         UNCHANGED <<alarms, now, lastlockdown>>, clock <= clock', clock' \in Nat,
         \A x \in Actor : pc'[x] \in Alarmed => pc[x] \in Alarmed,
         \A x \in Actor : pc[x] \in {"engage", "raise", "timer"} => pc'[x] \in {"engage", "raise", "timer"},
         pc'[Ticker] \in {"inspect", "restore"} => pc[Ticker] \in {"inspect", "restore"}
  PROVE  TimerInv'
  <1>1. clock \in Nat /\ alarms \in Seq(Nat) /\ now \in [Actor -> Nat] /\ Len(alarms) \in Nat
        /\ \A i \in 1..Len(alarms) : alarms[i] \in Nat
    BY DEF TypeOK
  <1>2. AllBefore(clock)'
    BY <1>1 DEF TimerInv, AllBefore
  <1>3. \A x \in Actor : pc'[x] \in Alarmed => AllBefore(now[x])' /\ now'[x] <= clock'
    BY <1>1 DEF TimerInv, AllBefore
  <1>4. AllBefore(lastlockdown)' \/ \E x \in Actor : pc'[x] \in {"engage", "raise", "timer"}
    BY DEF TimerInv, AllBefore
  <1>5. pc'[Ticker] \in {"inspect", "restore"} => \A i \in 1..Len(alarms') : clock' - alarms'[i] > Duration
    BY <1>1, RaidAssumption DEF TimerInv
  <1> QED
    BY <1>2, <1>3, <1>4, <1>5 DEF TimerInv

(* Whoever starts does so while nobody is at work; no handler is in between. *)
LEMMA TimerStep ==
  ASSUME TypeOK, TimerInv, Calm, Calm', [Next]_vars PROVE TimerInv'
  <1> USE DEF server, module, locals, history
  <1>0. OneAtWork /\ OneAtWork'
    BY OneStep DEF TimerInv
  <1>T. /\ clock \in Nat /\ alarms \in Seq(Nat) /\ now \in [Actor -> Nat] /\ pc \in [Actor -> Places]
        /\ lastlockdown \in Nat /\ Len(alarms) \in Nat /\ \A i \in 1..Len(alarms) : alarms[i] \in Nat
        /\ Duration \in Nat /\ Ticker \in Actor /\ Handler \subseteq Actor
        /\ \A h \in Handler : h # Ticker
    BY RaidAssumption DEF TypeOK, Places, Actor
  <1>1. ASSUME NEW h \in Handler, Join(h) PROVE TimerInv'
    <2>1. /\ \A x \in Actor : pc[x] = "idle" /\ pc'[h] = "readRaid"
          /\ now' = [now EXCEPT ![h] = clock] /\ UNCHANGED <<alarms, clock, lastlockdown>>
      BY <1>1, <1>T DEF Join, MayStart, Quiet, Goto
    <2>2. \A x \in Actor : x # h => pc'[x] = "idle"
      BY <1>1, <1>T, <2>1 DEF Join, Goto
    <2> QED
      BY <1>0, <1>T, <2>1, <2>2 DEF TimerInv, AllBefore, Alarmed
  <1>2. ASSUME NEW h \in Handler, ReadRaid(h) \/ ClaimFails(h) \/ Engage(h) \/ Raise(h) PROVE TimerInv'
    <2>1. UNCHANGED <<alarms, now, lastlockdown, clock>>
      BY <1>2 DEF ReadRaid, ClaimFails, Engage, Raise
    <2>2. \A x \in Actor : x # h => pc'[x] = pc[x]
      BY <1>2, <1>T DEF ReadRaid, ClaimFails, Engage, Raise, Goto
    <2>3. \/ pc[h] \in {"readRaid", "claim"} /\ pc'[h] \in {"claim", "idle"}
          \/ pc[h] \in {"engage", "raise"} /\ pc'[h] \in {"raise", "timer"}
      BY <1>2, <1>T DEF ReadRaid, ClaimFails, Engage, Raise, Goto
    <2> QED
      BY <1>0, <1>T, <2>1, <2>2, <2>3, TimerKept DEF Alarmed
  <1>3. ASSUME NEW h \in Handler, Claim(h) PROVE TimerInv'
    <2>1. /\ pc[h] = "claim" /\ pc'[h] = "engage" /\ alarms' = Append(alarms, now[h])
          /\ UNCHANGED <<now, lastlockdown, clock>>
      BY <1>3, <1>T DEF Claim, Goto
    <2>2. \A x \in Actor : x # h => pc'[x] = "idle"
      BY <1>0, <1>3, <1>T, <2>1 DEF Claim, Goto, OneAtWork
    <2>3. AllBefore(now[h]) /\ now[h] <= clock /\ now[h] \in Nat
      BY <1>T, <2>1 DEF TimerInv, Alarmed
    <2>4. AllBefore(now[h])' /\ AllBefore(clock)'
      BY <1>T, <2>1, <2>3 DEF AllBefore
    <2> QED
      BY <1>0, <1>T, <2>1, <2>2, <2>3, <2>4 DEF TimerInv, Alarmed
  <1>4. ASSUME NEW h \in Handler, ResetTimer(h) PROVE TimerInv'
    <2>1. /\ pc[h] = "timer" /\ pc'[h] = "idle" /\ lastlockdown' = now[h]
          /\ UNCHANGED <<now, alarms, clock>>
      BY <1>4, <1>T DEF ResetTimer, Goto
    <2>2. \A x \in Actor : pc'[x] = "idle"
      BY <1>0, <1>4, <1>T, <2>1 DEF ResetTimer, Goto, OneAtWork
    <2>3. AllBefore(now[h])
      BY <1>T, <2>1 DEF TimerInv, Alarmed
    <2> QED
      BY <1>0, <1>T, <2>1, <2>2, <2>3 DEF TimerInv, AllBefore, Alarmed
  <1>5. ASSUME Tick PROVE TimerInv'
    <2>1. /\ \A x \in Actor : pc[x] = "idle" /\ clock - lastlockdown > Duration
          /\ UNCHANGED <<now, alarms, clock, lastlockdown>>
      BY <1>5 DEF Tick, Quiet
    <2>2. pc'[Ticker] = "inspect" /\ \A x \in Actor : x # Ticker => pc'[x] = "idle"
      BY <1>5, <1>T, <2>1 DEF Tick, Goto
    <2>3. AllBefore(lastlockdown)
      BY <2>1 DEF TimerInv
    <2> QED
      BY <1>0, <1>T, <2>1, <2>2, <2>3 DEF TimerInv, AllBefore, Alarmed
  <1>6. ASSUME NEW h \in Handler, RaidSilenceOff(h) PROVE TimerInv'
    <2>1. \A x \in Actor : pc[x] = "idle" /\ UNCHANGED <<now, alarms, clock, lastlockdown>>
      BY <1>6 DEF RaidSilenceOff, MayStart, Quiet
    <2>2. pc'[h] = "inspect" /\ \A x \in Actor : x # h => pc'[x] = "idle"
      BY <1>6, <1>T, <2>1 DEF RaidSilenceOff, Goto
    <2> QED
      BY <1>0, <1>T, <2>1, <2>2 DEF TimerInv, AllBefore, Alarmed
  <1>7. ASSUME NEW h \in Handler, RaidSilenceOn(h) PROVE TimerInv'
    <2>1. lastlockdown' = clock /\ UNCHANGED <<now, alarms, clock, pc>>
      BY <1>7 DEF RaidSilenceOn
    <2> QED
      BY <1>0, <1>T, <2>1 DEF TimerInv, AllBefore, Alarmed
  <1>8. ASSUME NEW a \in Actor, Disable(a) PROVE TimerInv'
    <2>1. UNCHANGED <<alarms, now, lastlockdown, clock>>
      BY <1>8 DEF Disable, Inspect, Restore, Clear
    <2>2. \A x \in Actor : x # a => pc'[x] = pc[x]
      BY <1>8, <1>T DEF Disable, Inspect, Restore, Clear, Goto
    <2>3. \/ pc[a] = "inspect" /\ pc'[a] \in {"idle", "restore", "clear"}
          \/ pc[a] \in {"restore", "clear"} /\ pc'[a] \in {"clear", "idle"}
      BY <1>8, <1>T DEF Disable, Inspect, Restore, Clear, Goto
    <2> QED
      BY <1>0, <1>T, <2>1, <2>2, <2>3, TimerKept DEF Alarmed
  <1>9. ASSUME NEW l \in Level, Manual(l) PROVE TimerInv'
    BY <1>0, <1>9, <1>T, TimerKept DEF Manual, Alarmed
  <1>10. CASE Deliver \/ Outage \/ Return \/ UNCHANGED vars
    BY <1>0, <1>10, <1>T, TimerKept DEF Deliver, Outage, Return, vars, Alarmed
  <1>11. CASE TimePasses
    BY <1>0, <1>11, <1>T, TimerKept DEF TimePasses, Alarmed
  <1>12. CASE Restart
    <2>1. (\A x \in Actor : pc'[x] = "idle") /\ alarms' = << >>
      BY <1>12, <1>T DEF Restart
    <2>2. Len(alarms') = 0
      BY <2>1
    <2> QED
      BY <1>0, <1>T, <2>1, <2>2 DEF TimerInv, AllBefore, Alarmed
  <1>13. ASSUME NEW h \in Handler, Proceed(h) PROVE TimerInv'
    BY <1>2, <1>3, <1>4, <1>13 DEF Proceed
  <1>14. CASE \E h \in Handler : Join(h) \/ Proceed(h) \/ RaidSilenceOff(h) \/ RaidSilenceOn(h)
    BY <1>1, <1>6, <1>7, <1>13, <1>14
  <1>15. CASE (\E a \in Actor : Disable(a)) \/ (\E l \in Level : Manual(l))
    BY <1>8, <1>9, <1>15
  <1> HIDE DEF server, module, locals, history
  <1> QED
    BY <1>5, <1>10, <1>11, <1>12, <1>14, <1>15, Zenon DEF Next

(***************************************************************************)
(* Where handlers take turns the idle loop gives the level back only when   *)
(* the last alarm is more than Duration ago, however many alarms, failures, *)
(* commands and restarts there were.                                        *)
(***************************************************************************)
THEOREM AlwaysLiftsInTime == Spec => LiftsInTime
  <1>1. Init => TimerInv
    <2> SUFFICES ASSUME Init PROVE TimerInv
      OBVIOUS
    <2>1. Ticker \in Actor /\ (\A x \in Actor : pc[x] = "idle") /\ alarms = << >>
      BY DEF Init, Actor
    <2>2. Len(alarms) = 0
      BY <2>1
    <2> QED
      BY <2>1, <2>2 DEF TimerInv, OneAtWork, AllBefore, Alarmed
  <1>2. ASSUME TypeOK, TimerInv, [Next]_vars PROVE TimerInv'
    <2> SUFFICES ASSUME Calm' PROVE TimerInv'
      BY DEF TimerInv
    <2> QED
      BY <1>2, ScopeStays, TimerStep DEF Calm
  <1>3. TimerInv => (Calm /\ Lifts(Ticker) => \A i \in 1..Len(alarms) : clock - alarms[i] > Duration)
    BY DEF TimerInv, Lifts
  <1> QED
    BY <1>1, <1>2, <1>3, RaidTypeCorrect, PTL DEF Spec, LiftsInTime
=============================================================================
