---------------------------- MODULE RaidLockdown ----------------------------
(***************************************************************************)
(* The raid alarm of the spam module (spammodule/SpamModule.go): checkRaid  *)
(* raises the server's verification level, OnTick or !raidsilence off puts  *)
(* it back (DisableLockdown).                                               *)
(*                                                                          *)
(* Member events run checkRaid in goroutines of their own, the idle loop    *)
(* runs OnTick in another; the module's fields have no lock.  A call to     *)
(* Discord (GuildEdit) separates the steps of a handler, and the level the  *)
(* bot reads is discordgo's State, which follows the server by events.      *)
(***************************************************************************)
EXTENDS Integers, Sequences

CONSTANTS Handler,      (* goroutines of member events and commands          *)
          Level,        (* verification levels the server may have           *)
          Gap,          (* RaidTime*2: the least distance of two alarms      *)
          Duration,     (* LockdownDuration                                  *)
          Scopes        (* the instances explored; each gives
                             calm: whether handlers, manual changes and the
                             delivery of an event come one after the other,
                             levels: the server's to begin with, and bounds:
                             lastJoin: no handler starts later,
                             limit: how often each of Bounded happens        *)

High == 3                    (* discordgo.VerificationLevelHigh              *)
NoLockdown == -1
Missing == -2                (* GetGuild fails: the State has no such guild  *)
None == -3

(* What happens a bounded number of times: alarms, manual changes of the level,
   failing calls of GuildEdit, !raidsilence, outages of the State, restarts. *)
Bounded == {"alarms", "manual", "failures", "commands", "outages", "restarts"}

Ticker == "ticker"           (* idleCheckLoop                                *)

ASSUME RaidAssumption ==
  /\ Ticker \notin Handler
  /\ Level \subseteq 0..4 /\ High \in Level
  /\ Gap \in Nat /\ Duration \in Nat \ {0}
  /\ Scopes \subseteq [calm : BOOLEAN, levels : SUBSET Level, lastJoin : Nat, limit : [Bounded -> Nat]]

Actor == Handler \cup {Ticker}

VARIABLES
  scope,         (* which of the instances this behaviour belongs to         *)
  clock,         (* seconds                                                  *)
  level,         (* the server's verification level                          *)
  updates,       (* GUILD_UPDATE events on their way to the bot              *)
  cache,         (* the level in discordgo's State                           *)
  lockdown,      (* SpamModule.lockdown                                      *)
  lastlockdown,  (* SpamModule.lastlockdown                                  *)
  lastRaid,      (* GuildInfo.LastRaid                                       *)
  pc,            (* where each actor stands                                  *)
  now,           (* the time a handler was started with                      *)
  seen,          (* RateLimit: the LastRaid a handler has read               *)
  err,           (* DisableLockdown: whether err is set                      *)
  alarms,        (* history: the times of this process's alarms              *)
  prior,         (* history: the level the bot replaced and owes the server  *)
  used           (* how much of each bound is used up                        *)

server == <<level, updates, cache>>
module == <<lockdown, lastlockdown, lastRaid>>
locals == <<now, seen, err>>
history == <<alarms, prior>>
vars == <<scope, clock, server, module, pc, locals, history, used>>

(* Before any time the run looks at: time.Time{} and LastRaid = 0. *)
Never == 0
Start == Gap + Duration + 2

Calm == scope.calm
LastJoin == scope.lastJoin

Init ==
  /\ scope \in Scopes
  /\ clock = Start
  /\ level \in scope.levels /\ cache = level /\ updates = << >>
  /\ lockdown = NoLockdown /\ lastlockdown = Never /\ lastRaid = Never
  /\ pc = [a \in Actor |-> "idle"]
  /\ now = [a \in Actor |-> Start]
  /\ seen = [a \in Actor |-> Never]
  /\ err = [a \in Actor |-> FALSE]
  /\ alarms = << >> /\ prior = None
  /\ used = [what \in Bounded |-> 0]

Goto(a, label) == pc' = [pc EXCEPT ![a] = label]
MayUse(what) == used[what] < scope.limit[what]
Use(what) == used' = [used EXCEPT ![what] = @ + 1]

Quiet == updates = << >> /\ \A a \in Actor : pc[a] = "idle"
MayStart == (Calm => Quiet) /\ clock <= Start + LastJoin

(* The server's level becomes l; the bot hears of it later. *)
SetLevel(l) == /\ level' = l
               /\ updates' = IF l = level THEN updates ELSE Append(updates, l)

(* GuildEdit fails: missing permission, or the connection. *)
EditFails == MayUse("failures") /\ Use("failures") /\ UNCHANGED <<level, updates>>

-----------------------------------------------------------------------------
(***************************************************************************)
(* checkRaid, from the moment the database counts RaidSize new members.     *)
(***************************************************************************)
Join(h) ==
  /\ pc[h] = "idle" /\ MayStart /\ cache # Missing
  /\ Len(alarms) < scope.limit["alarms"]
  /\ now' = [now EXCEPT ![h] = clock]
  /\ Goto(h, "readRaid")
  /\ UNCHANGED <<scope, clock, server, module, seen, err, history, used>>

(* RateLimit(&info.LastRaid, RaidTime*2, t) is a read and a compare-and-swap. *)
ReadRaid(h) ==
  /\ pc[h] = "readRaid"
  /\ seen' = [seen EXCEPT ![h] = lastRaid]
  /\ Goto(h, IF now[h] - lastRaid > Gap THEN "claim" ELSE "idle")
  /\ UNCHANGED <<scope, clock, server, module, now, err, history, used>>

(* Faulty variant: the plain store of util_386.go. *)
SwapAlways(h) == lastRaid' = now[h]

Swap(h) == lastRaid = seen[h] /\ lastRaid' = now[h]

Claim(h) ==
  /\ pc[h] = "claim"
  /\ Swap(h)
  /\ alarms' = Append(alarms, now[h])
  /\ Goto(h, "engage")
  /\ UNCHANGED <<scope, clock, server, lockdown, lastlockdown, locals, prior, used>>

ClaimFails(h) ==
  /\ pc[h] = "claim"
  /\ lastRaid # seen[h]
  /\ Goto(h, "idle")
  /\ UNCHANGED <<scope, clock, server, module, locals, history, used>>

(***************************************************************************)
(* Only engage if there is no lockdown: remember the level of the State, or *)
(* High if the guild is missing there.                                      *)
(***************************************************************************)
(* Faulty variant: the level is remembered at every alarm. *)
EngageAgain(h) ==
  /\ pc[h] = "engage"
  /\ lockdown' = (IF cache = Missing THEN High ELSE cache) /\ Goto(h, "raise")
  /\ UNCHANGED <<scope, clock, server, lastlockdown, lastRaid, locals, history, used>>

Engage(h) ==
  /\ pc[h] = "engage"
  /\ IF lockdown = NoLockdown
     THEN lockdown' = (IF cache = Missing THEN High ELSE cache) /\ Goto(h, "raise")
     ELSE UNCHANGED lockdown /\ Goto(h, "timer")
  /\ UNCHANGED <<scope, clock, server, lastlockdown, lastRaid, locals, history, used>>

(* GuildEdit, then SendMessage: both take a while. *)
Raise(h) ==
  /\ pc[h] = "raise"
  /\ \/ /\ SetLevel(High)
        /\ prior' = IF prior = None THEN level ELSE prior
        /\ UNCHANGED used
     \/ EditFails /\ UNCHANGED prior
  /\ Goto(h, "timer")
  /\ UNCHANGED <<scope, clock, cache, module, locals, alarms>>

(* Faulty variant: an alarm during a lockdown leaves the timer alone. *)
ResetTimerOnce(h) ==
  /\ pc[h] = "timer"
  /\ lastlockdown' = IF clock - lastlockdown > Duration THEN now[h] ELSE lastlockdown
  /\ Goto(h, "idle")
  /\ UNCHANGED <<scope, clock, server, lockdown, lastRaid, locals, history, used>>

ResetTimer(h) ==
  /\ pc[h] = "timer"
  /\ lastlockdown' = now[h]
  /\ Goto(h, "idle")
  /\ UNCHANGED <<scope, clock, server, lockdown, lastRaid, locals, history, used>>

-----------------------------------------------------------------------------
(* OnTick, in the idle loop. *)
Tick ==
  /\ pc[Ticker] = "idle"
  /\ Calm => Quiet
  /\ lockdown # NoLockdown
  /\ clock - lastlockdown > Duration
  /\ Goto(Ticker, "inspect")
  /\ UNCHANGED <<scope, clock, server, module, locals, history, used>>

(* !raidsilence off *)
RaidSilenceOff(h) ==
  /\ pc[h] = "idle" /\ MayStart
  /\ MayUse("commands") /\ Use("commands")
  /\ Goto(h, "inspect")
  /\ UNCHANGED <<scope, clock, server, module, locals, history>>

(* !raidsilence raid or all, soon after a raid *)
RaidSilenceOn(h) ==
  /\ pc[h] = "idle" /\ MayStart
  /\ MayUse("commands") /\ Use("commands")
  /\ lastRaid + Gap > clock
  /\ lastlockdown' = clock
  /\ UNCHANGED <<scope, clock, server, lockdown, lastRaid, pc, locals, history>>

(***************************************************************************)
(* DisableLockdown: the level is put back only where the State still has    *)
(* the level the bot set; the lockdown is over in any case.                 *)
(***************************************************************************)
Inspect(a) ==
  /\ pc[a] = "inspect"
  /\ Goto(a, CASE lockdown = NoLockdown -> "idle"
               [] lockdown # NoLockdown /\ cache = High -> "restore"
               [] OTHER -> "clear")
  /\ err' = [err EXCEPT ![a] = cache = Missing]
  /\ UNCHANGED <<scope, clock, server, module, now, seen, history, used>>

(* The level is read through a pointer when the call is made; Discord refuses
   -1, which is there when another goroutine has cleared the lockdown. *)
Restore(a) ==
  /\ pc[a] = "restore"
  /\ \/ /\ lockdown # NoLockdown
        /\ SetLevel(lockdown)
        /\ prior' = None
        /\ err' = [err EXCEPT ![a] = FALSE]
        /\ UNCHANGED used
     \/ /\ lockdown = NoLockdown \/ MayUse("failures")
        /\ IF lockdown = NoLockdown THEN UNCHANGED used ELSE Use("failures")
        /\ err' = [err EXCEPT ![a] = TRUE]
        /\ UNCHANGED <<level, updates, prior>>
  /\ Goto(a, "clear")
  /\ UNCHANGED <<scope, clock, cache, module, now, seen, alarms>>

(* Faulty variant: the zero value for "no lockdown". *)
ClearToZero(a) ==
  /\ pc[a] = "clear"
  /\ lockdown' = 0
  /\ prior' = IF err[a] THEN None ELSE prior
  /\ Goto(a, "idle")
  /\ UNCHANGED <<scope, clock, server, lastlockdown, lastRaid, locals, alarms, used>>

(* Faulty variant: a lockdown that could not be lifted is kept. *)
ClearOnSuccess(a) ==
  /\ pc[a] = "clear"
  /\ lockdown' = IF level = lockdown THEN NoLockdown ELSE lockdown
  /\ prior' = IF err[a] THEN None ELSE prior
  /\ Goto(a, "idle")
  /\ UNCHANGED <<scope, clock, server, lastlockdown, lastRaid, locals, alarms, used>>

(* After an error the moderators are told to restore the level themselves. *)
Clear(a) ==
  /\ pc[a] = "clear"
  /\ lockdown' = NoLockdown
  /\ prior' = IF err[a] THEN None ELSE prior
  /\ Goto(a, "idle")
  /\ UNCHANGED <<scope, clock, server, lastlockdown, lastRaid, locals, alarms, used>>

-----------------------------------------------------------------------------
(* The server and the bot's surroundings. *)
Manual(l) ==
  /\ Calm => Quiet
  /\ MayUse("manual") /\ Use("manual")
  /\ l # level /\ SetLevel(l)
  /\ prior' = None
  /\ UNCHANGED <<scope, clock, cache, module, pc, locals, alarms>>

Deliver ==
  /\ updates # << >> /\ cache # Missing
  /\ cache' = Head(updates) /\ updates' = Tail(updates)
  /\ UNCHANGED <<scope, clock, level, module, pc, locals, history, used>>

(* GUILD_DELETE with unavailable set, and the GUILD_CREATE that ends it. *)
Outage ==
  /\ Calm => Quiet
  /\ MayUse("outages") /\ Use("outages")
  /\ cache' = Missing
  /\ UNCHANGED <<scope, clock, level, updates, module, pc, locals, history>>

Return ==
  /\ cache = Missing
  /\ cache' = level /\ updates' = << >>
  /\ UNCHANGED <<scope, clock, level, module, pc, locals, history, used>>

(* Nothing of the module is on disk: a new process starts without it. *)
Restart ==
  /\ MayUse("restarts") /\ Use("restarts")
  /\ cache' = level /\ updates' = << >>
  /\ lockdown' = NoLockdown /\ lastlockdown' = Never /\ lastRaid' = Never
  /\ pc' = [a \in Actor |-> "idle"]
  /\ alarms' = << >>
  /\ UNCHANGED <<scope, clock, level, locals, prior>>

(* The run goes on for as long as the last lockdown may last. *)
TimePasses ==
  /\ clock < Start + LastJoin + Duration + 1
  /\ clock' = clock + 1
  /\ UNCHANGED <<scope, server, module, pc, locals, history, used>>

Proceed(h) == ReadRaid(h) \/ Claim(h) \/ ClaimFails(h) \/ Engage(h) \/ Raise(h) \/ ResetTimer(h)
Disable(a) == Inspect(a) \/ Restore(a) \/ Clear(a)

Next ==
  \/ \E h \in Handler : Join(h) \/ Proceed(h) \/ RaidSilenceOff(h) \/ RaidSilenceOn(h)
  \/ \E a \in Actor : Disable(a)
  \/ \E l \in Level : Manual(l)
  \/ Tick \/ Deliver \/ Outage \/ Return \/ Restart \/ TimePasses

Spec == Init /\ [][Next]_vars

(* The idle loop comes round again, goroutines run on, time passes. *)
FairSpec == /\ Spec
            /\ WF_vars(TimePasses) /\ WF_vars(Tick)
            /\ \A h \in Handler : WF_vars(Proceed(h))
            /\ \A a \in Actor : WF_vars(Disable(a))

-----------------------------------------------------------------------------
(* The types of the alarm: lockdown is -1 or a level Discord knows, whatever
   the State, failed calls or a clearing goroutine leave in it.              *)
TypeOK ==
  /\ scope \in Scopes
  /\ clock \in Nat /\ level \in Level /\ cache \in Level \cup {Missing}
  /\ updates \in Seq(Level)
  /\ lockdown \in Level \cup {NoLockdown} /\ lastlockdown \in Nat /\ lastRaid \in Nat
  /\ pc \in [Actor -> {"idle", "readRaid", "claim", "engage", "raise", "timer",
                       "inspect", "restore", "clear"}]
  /\ now \in [Actor -> Nat] /\ seen \in [Actor -> Nat] /\ err \in [Actor -> BOOLEAN]
  /\ alarms \in Seq(Nat) /\ prior \in Level \cup {None}
  /\ used \in [Bounded -> Nat]

(***************************************************************************)
(* However many members join at once, two alarms are more than Gap seconds  *)
(* apart (checkRaid's RateLimit on LastRaid), until the bot is restarted.   *)
(***************************************************************************)
AlarmsApart ==
  \A i \in 1..Len(alarms) - 1 : alarms[i + 1] - alarms[i] > Gap

(***************************************************************************)
(* "If -1 no lockdown was initiated, otherwise remembers the previous       *)
(* lockdown setting" (SpamModule.go): whenever nobody is at work, a level   *)
(* the bot replaced, that nobody has changed since and that the moderators  *)
(* were not asked to restore, is the one the module will put back.          *)
(***************************************************************************)
PriorIsRemembered == Quiet /\ prior # None => lockdown = prior

(* The same where handlers and the idle loop take turns. *)
PriorIsRememberedInTurn == Calm => PriorIsRemembered

(***************************************************************************)
(* The idle loop lifts no lockdown within Duration of a raid: an alarm      *)
(* during a lockdown prolongs it (SpamModule.go "Otherwise just reset the   *)
(* timer").                                                                 *)
(***************************************************************************)
Lifts(a) == pc[a] = "restore" /\ pc'[a] = "clear" /\ ~err'[a]

LiftsInTime ==
  [][Calm /\ Lifts(Ticker) => \A i \in 1..Len(alarms) : clock - alarms[i] > Duration]_vars

(***************************************************************************)
(* A lockdown is temporary: every one is over some time, whatever fails,    *)
(* whoever else is at work (OnTick, DisableLockdown).  Stated without Calm,  *)
(* which holds the idle loop back.                                          *)
(***************************************************************************)
LockdownEnds == lockdown # NoLockdown /\ ~Calm ~> lockdown = NoLockdown
=============================================================================
