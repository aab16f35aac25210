# sweetiebot: models, checks and proofs

Sweetie Bot is a Discord bot in Go: one process serves many servers ("guilds"),
each with its own configuration and its own set of modules, all of them on one
MySQL/MariaDB database. `discordgo`, the library underneath, runs **every event
handler in a goroutine of its own**; an idle loop calls every module's `OnTick`.
Most of what can go wrong lies between these goroutines, the database that may be
lost at any time, calls to Discord that take long or fail, and processes that end
between two steps. That is what is modelled here.

1. [Inventory](#1-inventory) — the parts, their state, how they interact
2. [Modules](#2-modules) — which module models what, and how
3. [Runs](#3-runs) — what TLC checks, with which bounds, and why these are enough
4. [Fairness](#4-fairness)
5. [Proofs](#5-proofs) — what holds for every value of the constants
6. [Findings](#6-findings) — where code and documentation disagree
7. [What is not modelled](#7-what-is-not-modelled)
8. [Plan](#8-plan)

## 1. Inventory

| component | source (`src/`) | state | operations | hard behaviour | module |
|---|---|---|---|---|---|
| Message buffer | `sweetiebot/RequestBuffer.go`, `GuildInfo.go` `RequestPostWithBuffer`, `sendContent` | per channel: `buffer`, `count`; the bucket and its mutex (discordgo) | `Append`, `Process`, post | senders post each other's messages; early returns; 429 | MessageBuffer, MessageChannel |
| Command limits | `sweetiebot.go` `ProcessCommand`, `limiters.go`, `util_*.go` | per guild: ring `times`/`index` under a spinlock, map `commandLast` | `check`, `append`, reallocation, `RateLimit` | check-then-act over several critical sections, out-of-order timestamps, a setting that changes meanwhile | CommandGate |
| Command dispatch, permissions, event hooks | `sweetiebot.go` `ProcessCommand` and the `On…` handlers, `GuildInfo.go` `UserCanUseCommand`, `checkOnCommand`, `DiscordGoSession.go` | none; reads configuration, State, database | resolve, restrict, run, reply | aliases, private messages, a cache that may not know a member | CommandDispatch |
| Raid lockdown | `spammodule/SpamModule.go` `checkRaid`, `OnTick`, `DisableLockdown` | `lockdown`, `lastlockdown`, `LastRaid` without a lock | engage, prolong, lift | handlers against the idle loop, a stale State cache, failing calls, restarts | RaidLockdown |
| Spam pressure | `SpamModule.go` `checkSpam`, `killSpammer`, `AddPressure` | pressure per user, silenced members, Discord's timeouts | track, drain, silence, alert | several messages of one member at a time | SpamPressure |
| Filter, Witty | `filtermodule`, `wittymodule` | compiled regular expressions beside the words | add, remove, recompile, match | cache against configuration, words that do not compile | WordFilters |
| Bucket, Counters, Quotes, Status, Roles, setup | `*module`, `GuildInfo.go` `SaveConfig`, `sweetiebot.go`/`setup` | parts of the configuration; Discord's roles | one change and a save per command | two saves at a time, a crash before one, roles deleted meanwhile | GuildStores |
| Configuration | `BotConfig.go`, `ConfigModule.go` | `BotConfig` per guild, a file | migrate, set, get | interrupted migration; reflection over every kind of option | ConfigMigration, Settings |
| Member records | `db.go`, `docs/sweetiebot.sql`, `sweetiebot.go` handlers, `usersmodule` | tables `users`, `members`, `aliases`, `chatlog` | join, leave, post, rename, clean | two ways into the tables, one immediate and one queued; procedures without transactions | MemberRecords |
| Tag module | `tagmodule/TagModule.go`, `db.go`, `docs/sweetiebot.sql` | tables `tags`, `items`, `itemtags` | create, add, import, remove, search | several statements per command, triggers; a clause built from a query | TagStore |
| Database connection | `db.go` | `Status`, `statuslock`, `lastattempt`, prepared statements | `dbLoad`, `CheckStatus`, `LoadStatements`, `CheckError` | outages at any step, one of many goroutines reconnects | DatabaseStatus |
| Scheduler and timed sanctions | `schedulermodule`, `usersmodule`, `db.go`, `docs/sweetiebot.sql` | table `schedule` | add, remove, repeat, carry out what is due | effects outside the database, catch-up, partial failure between insert and ban | Scheduler |
| Guild lifecycle, deferred writes, shutdown | `sweetiebot.go` | `Guilds`, `memberChan`, `deferChan`, `quit` | attach, remove, ingest, write, shut down | full channels, send on a closed one, a map read without its lock, raids that follow each other | GuildLifecycle |
| Watchdog | `sweetiebot.go` `deadlockDetector` | `heartbeat`, missed beats | send, answer, compare | late answers, wrap-around, a prefix that changes | Watchdog |
| Self-hosting and updater | `override.go`, `updater/updater.go`, `run.sh` | programs on disk, the checkout | pull, build, set aside, publish | a failing build or a crash between two steps, a second Ready | Updater |
| Bored, Markov, Misc, Info, web server, installer, utilities | | none of their own that others read | | | — |

**Interactions.** An event finds its guild (CommandDispatch), may be attached to one
(GuildLifecycle), adds pressure (SpamPressure), is matched by filters (WordFilters) and, if it is
a command, passes permissions (CommandDispatch) and limits (CommandGate), runs and posts its result
through the message buffer. Commands and modules read and write the guild's `Config` and save it
(GuildStores, Settings), use the database after `CheckStatus` (DatabaseStatus), and call Discord.
What an event tells about people goes to the database at once or through `deferChan`
(MemberRecords, GuildLifecycle). The idle loop calls `CheckStatus` once per round and then every
module's `OnTick`: that lifts lockdowns, carries out scheduled events and reconnects the database.
`discordgo`'s State is a cache of the server which follows it by events and which most decisions
read. The watchdog sends itself a command and ends a process that does not answer; `run.sh` starts
it again, the updater by turns with it (Updater).

**What makes each part correct**, in one sentence each: every message handed over is posted once, in
order, by somebody; no more commands run than the settings allow and none is refused without cause;
who may run a command depends on what it resolves to, not on how it was named; a lockdown is
temporary and ends in the level it replaced; a member is silenced by the pressure the settings
describe, and the moderators are told once; the compiled filters are those of the configuration;
what a command has answered for is in the file; a migration interrupted anywhere keeps what
administrators chose; the tables about people agree with Discord; servers do not see or lose each
other's tags; one goroutine reconnects and nobody uses what is not there; a scheduled event happens,
for every date, not twice without a crash, and whoever is banned for a time is unbanned; a bot told
to end waits for raids and ends; a deadlocked one ends too; an update arrives, and there is always
an updater for the next.

`PROJECT.json` lists every component with what is modelled of it, and the hazards, at
their lines, with the properties that cover them.

## 2. Modules

Each component has one module; `MCx.tla` gives constants values for TLC, `x_proofs.tla` holds the
theorems. Definitions called "Faulty" or "A bug a change could bring" are not part of any
specification: each is a plausible bug in the definition that follows it, used to see that a
property can fail.

**Composition.** MCProcess, MCGuild and MCConfig each extend several modules and give them one
specification. Where the parts share no state that the properties read, a behaviour explores *one* of
them: the variable `part` says which, and the others stay in one of their initial states. That is the
sum of the state spaces instead of their product, and sound because no action of one part reads a
variable of another. Where parts do share state they are in one module: the scheduler, the timed
sanctions of `!ban` and `!assignrole` and `OnTick`; attaching, ingestion, deferred writes, raids and
shutdown; the roles of Discord, the list in the configuration and `SaveConfig`; programs on disk,
`run.sh`, sweetie and updater; both ways into the tables about people.

### MessageBuffer, MessageChannel

`MessageBuffer` is one channel's bucket. A sender is a goroutine in
`RequestPostWithBuffer`; `pc` says where: *asleep* (without the bucket), *locked* (about to
call `Process`), *taken* (waiting for the bucket with its lock held), *posting*, *rejected*.
`Append_` is the first critical section (append, decide whether to sleep), `Process` cuts
the longest prefix that fits a request, `Post`/`Answer` are
`RequestWithLockedBucket`, `Reject`/`Retry` its behaviour on 429. A message is a number,
its sender and its length: only lengths decide what is joined. The bucket (`Headroom`,
`window`) answers whatever Discord may say.

`MessageChannel` is what the buffer promises: a channel that accepts messages, and finishes
those at the front, some at a time. `Channel == INSTANCE MessageChannel WITH waiting <-
Outstanding` is the refinement mapping: what waits is the batch of whoever holds the
bucket followed by the buffer.

### CommandGate

One action for each atomic stretch of `ProcessCommand`: `CheckSize` (decides without the lock
whether the ring is large enough), `Allocate` (replaces it, also without), `Check`,
`AppendTime` (each under the spinlock), `ReadLast`, `WriteLast` (each under `commandLock`,
with the command run at the end). Commands in `Throttled` have a limit of their own in `CommandLimits`; the others skip
those two steps (`Permit`). `Panic` is the division by zero in `realmod` on an
empty ring, which `ProcessCommand` recovers with the spinlock set. `SetConfig` may come
between any two of them. Timestamps are the messages' and up to `Lag` seconds old. A
behaviour belongs to one of the `Scopes`: handlers one at a time with late messages, or two that
overlap with a setting that changes; `overlapped` remembers whether they did.

### CommandDispatch

`asked` is one event with everything its outcome depends on (who, where, how the command was
typed, what the configuration says of it, what the cache knows), chosen once; then the handler takes
the steps of `OnMessageCreate` and `ProcessCommand`: find the server, the server's or the default
one's in a private message, resolve an alias, the modules' `OnCommand`, disabled, setup, channel
lists, `UserCanUseCommand`, run, and reply to the channel or to the user. `Independent` is a command that
works without a server: one that was typed by its own name, for what a name is an alias of is only looked up
once there is a server. Edited and deleted messages, bans, roles and servers take the way of their own handlers.

### RaidLockdown

`Join` starts at the point where the database has counted enough new members.
`ReadRaid`/`Claim`/`ClaimFails` are `RateLimit`'s read and compare-and-swap;
`Engage`, `Raise`, `ResetTimer` the rest of `checkRaid` with the call to Discord as a step of its own;
`Inspect`, `Restore`, `Clear` are `DisableLockdown`, entered from `Tick` or
`RaidSilenceOff`. `cache` is the level in the State, `updates` the events under way,
`Missing` a guild that the State has lost (outage). `GuildEdit` is handed a *pointer* to
`w.lockdown`: `Restore` reads it when the call is made.

`Calm` restricts the start of handlers and manual changes to moments when nothing is under
way. The race between two handlers (see Findings) needs an overlap; where `Calm` holds the rest
of the logic is checked without it.

### SpamPressure

One member and the goroutines of their messages. `Track` creates the tracker, `Stamp` computes the
drain from `lastmessage` and the repeat from `lastcache` and writes both, `LoadPressure` /
`StorePressure` are the load and the store of `AddPressure`, which scales what it adds in a channel with a limit of its own (`scale`), `Kill` is the call that silences, `Mark`
enters the member into `silenced` (under its lock), `Judge` decides about the alert. `Filtered` is a
message that the filter module charges, `SilenceByHand`, `Lift` and `Leave` are moderators and the
member. History: `charged`, what was added and when, and `alerts`, each with the silencing it belongs
to.

### WordFilters

Words, templates, channels and responses of the filters, and `filters`, what was compiled from them;
an expression is a set that holds what it was compiled from, or is empty for nil. `!addfilter` and
`!setfilter` hold `ConfigLock` over `ClearRegex`, `Compile` and `SaveFilters`; the other commands take one
step. `Broken` words do not compile and are taken out again. The witty module's triggers are joined into
one expression; `Unclosed` ones compile only among others. `Reload` is a restart: everything compiled
anew from the file, which has what the last save that succeeded has put there: any may fail.

### GuildStores

A command checks, changes the configuration in memory and calls `SaveConfig`: `Marshal`, `Open`, which truncates the
file, and `Write`. Commands of two callers may be between any two of these. Each of them may fail (more than
`MaxConfigSize`, a value that is no JSON, the disk), and no command looks at the error; a write that fails, or that overlaps
another of a different length, leaves the file `garbled`, a process that ends before it leaves it `empty`. `Reread` is a
restart: from such a file it makes the default configuration, a server that has not been set up and knows no
other command than `!setup`. `unsaved` remembers that the latest save did not succeed. Discord's roles are a set of their own (`server`),
deletions come as events (`RoleDeleted`), `!setup` starts everything over in two phases with calls to Discord between.

### MemberRecords

The tables as functions, Discord's truth beside them (`account`, `since`, `spoke`). `GuildMemberAdd` and
`MemberLeaves` write at once in their goroutine, `UserUpdate`, `MessageSent` and `MemberUpdate` through
`deferChan`. `ReadName` is `AddUser`'s `SELECT … FOR UPDATE` (outside a transaction), `AddUser` what it
writes. `BanNewcomers`, `BanRaid` are the two commands that ban by what the tables say.
`crossed` notes the rows and names that two tasks changed at a time.

### ConfigMigration, Settings

`MigrateSettings` block by block; a block that talks to Discord or the database takes a step per call
and `Restart` may come between any two (`disk` is the file, `cfg` what is in memory). Values that no
block computes with are only told apart as replaced or not.

`Settings` is `!setconfig`/`!getconfig`: an option is of one of five kinds (a scalar, a flag, a list, a map, a map
of lists), `FixRequest` finds the option a name means, `SetConfig` does what `setConfigKeyValue`,
`setConfigList` and the others do by reflection, on words. `ParseArguments` takes the quotes off keys and the words of
lists, which are `Tokens`; a scalar, a flag or the value of a map is the rest of the message as it was typed, where an
empty word is two quotes (`NoWord`). A map of lists refuses an empty key, a map does not. `SaveConfig` is a step of its own,
which may be refused or tear the file; `kept` is what the next start (`Reboot`) makes of it. `RequestMeans` is the value of
what was typed, said without the steps of `SetConfig`, and `Shown` the answer of `!getconfig`.

### TagStore

The three tables, one action per statement of a command, the triggers with the statement that fires
them; two workers interleave between any two statements. `BuildWhereClause` is the clause a query
becomes, `Tags` and `SearchTags` what the database answers to it, `Answer1` what the query says by its
usage text.

### DatabaseStatus

`Boot`/`Load`/`Booted` are `New`'s part, `Ask`…`Enable` are `CheckStatus` with
`LoadStatements` one statement at a time, `Execute`/`CheckError`/`DisableDB` any use of a
statement. `next` and `err` are `LoadStatements`' position and its variable `err`, which
every `Prepare` overwrites. `Drop` and `ComeBack` are the server's. `DropsLoading` says
whether it may be lost *during* `LoadStatements`; the comment in `db.go` ("we just log the
error and keep going") accepts that the statements are then nil, so the properties about
them are stated for FALSE.

### Scheduler

The table, the commands that write it and `OnTick`. An event is one of three kinds: it says
something, gives the birthday role, or takes back a ban or a role; `Sanctioned` are the
pairs that `!ban`, `!assignrole` and `NewUserRole` act on, `Celebrated` the members with a
birthday. `added` keeps the rows as inserted (IDs are never used again), `rows` the dates of
those in the table.

Commands: `Ban`, `AssignRole` (no `CheckStatus`), `Join` (`NewUserRole`), `AddEvent`,
`RemindMe`, `AddBirthday`, each followed by `Count` and `Insert` — two queries in the code,
two steps here —, for a sanction by `Find` and `Impose`, for a birthday by a second round
for the day after. `RemoveEvent` is `!removeevent`. `OnTick` reads (`GetSchedule`), and for
each event carries it out (`Fire`) and calls the procedure (`Remove`, `RemoveSchedule`);
between the two lies a call to Discord. A failing call is reported and *not* repeated
(`forgone`). `Outage`, `Restart`, `SetChannel` and `RemoveEvent` may come anywhere.

`Prompt` says that a command is done before the sanction it imposes ends (the code relies on
it: the event is inserted first). `HasEnd` is stated for TRUE.

Abstractions: intervals are seconds on one clock (no months of different length, no time
zones); a repeat interval is a positive number or none; a member has one birthday; each
duration is positive.

### GuildLifecycle

A handler is a goroutine of an event: `GuildCreate` looks the guild up, publishes it under `GuildsLock`
and then, without the lock, registers commands and hooks, reads `quit` and sends to `memberChan`;
`MessageCreate` and `GuildMemberUpdate` send to `deferChan`; `GuildMemberRemove` of the bot itself takes the
guild out. The ingestion loop and `deferProcessing` are the two readers, each behind a test
of `quit`. A page of members that fails ends the fetching of that guild (`cutShort`): the pages before it are kept, the
others are asked for again when the guild is next created. A line on the console ends the process from any state. `Connect` polls `quit`, and after `!update` (`"raid"`) goes round all guilds (`Round`, `Look`) until none
had a raid within `UpdateGrace` or `MaxUpdateGrace` is over, closes `memberChan` and exits. What is
accepted as fatal by the comment at sweetiebot.go:258, a send on the closed channel, and the map
that Go's runtime catches being read and written at once, end the process (`fatal`).

### Watchdog

Heartbeats are a bag of answers under way: `Send` starts one and counts those that are late, `Answer`
adds one to a counter of `Width` values, `Check` compares. `Deadlock` lets no heartbeat be answered from
then on. A heartbeat is a command only behind the main server's prefix, which `!setconfig` may change.

### Updater

`turn` is where `run.sh` stands. `CheckForUpdate` is `!update` (pull, and end if there was something),
`SetAside`/`BuildUpdater`/`Restore` are `SelfUpdate`'s exchange of the updater. Then, for each platform in turn, `Compile`
builds the program it offers, `ReadHash` and `WriteHash` are `WriteMD5`, and `Create`, `Open` and `Copy` make the archive; any
may fail. Two Readys do all of this at a time, with a pull and a build between any two steps of the other; `spoilt`
remembers that a hash or an archive could not be written, or was made from a program that was replaced meanwhile. `Pull`/`BuildSweetie` are `DoUpdate` in the updater. A version is a
commit. `Killed` and `UpdaterKilled` end a process at any step. It models `override.go`, whose methods, in
every build of this commit, shadow those of `SelfhostBase`.

## 3. Runs

Twelve runs, one per question; nine must pass, three show a disagreement between the code and what is
said of it.

| run | module and bounds | checks |
|---|---|---|
| `BufferOrder` | 3 senders, 2 messages each, lengths 1, 3, 5 under a limit of 6, no 429 | `NeverStranded`, `FifoOrder`, `ReturnedMeansFinished`, `ImplementsChannel` |
| `BufferRetry` | 2 senders, 2 messages each, lengths 1 and 5, one rejection per request | `BufferSound`; under fairness `EveryCallCompletes` |
| `Gate` | 1 handler, 5 commands in 6 seconds up to 2 seconds late, one change; or 2 overlapping handlers, 3 commands of which some have a limit of their own, two changes; settings 0, 1, 3 | `LimitsHold`, `JamsOnlyAfterChange`, `RefusedForCause` |
| `Raid` | events in turn (two alarms, one manual change, failure, command, outage), or 2 handlers and the idle loop in any interleaving (two alarms, a failure and a command, or a restart); levels 1, 3, 4; alarms more than 1 second apart, a lockdown of 2 seconds | `PriorIsRememberedInTurn`, `AlarmsApart`; `LiftsInTime`, `LockdownEnds` |
| `RaidRace` | 1 alarm, the idle loop | *violates* `PriorIsRemembered` |
| `Schedule` | 2 handlers, one member to ban, two with a birthday, 2 rows, 2 commands, an outage, a restart, 4 seconds with a day of 1 and a year of 2 | `HasEnd`, `NoOverstay`, `NoneSkipped`, `RepeatsBounded` |
| `ScheduleLive` | 1 handler, 2 commands, an outage, a failing call, a deletion, the channel taken away | `DueHappens` |
| `Process` | lifecycle: 2 handlers, 2 guilds, channels of one entry, a grace of 1 within 2, no guild at first and 2 events, or one guild, `!update` given and 1 event; watchdog: counter of 4 values, 3 misses, 2 late; database: 2 handlers, idle loop and boot, 2 statements, server lost twice | `GraceRespected`, `HandlersReturn`, `AttachedIsAskedFor`, `ShutdownCompletes`; `LateCostsTwo`, `DeadlockEndsProcess`; `UsesPrepared`, `ReconnectsInTime` |
| `DatabaseBoot` | a schema without the first of two statements | *violates* `StartsComplete` |
| `Guild` | spam: 2 goroutines, 4 messages in turn or 3 at once, 4 seconds, channels that count once and double; filters: 2 filters, 2 words of which one does not compile, 3 triggers, 4 commands, saves that fail; stores: 2 callers, 4 commands, a restart or a deletion, values to 2, saves that fail at each step; records: one person, 2 guilds, 2 names, 3 events in 3 days | `PressureIsLeakyBucket`, `AlertOnce`; `FiltersFollowConfig`, `WitsKeepWorking`; `Durable`, `NoDeletedRoles`; `RecordsFollowMembers`, `NamesKeepTime` |
| `SilenceDefault` | one message after the other, `SilenceTimeout` at its default | *violates* `SpammerIsSilenced` |
| `Config` | files of nine versions from 11 to 30, 2 crashes, 2 changes; every event of the listed circumstances; an option of each kind, 2 settings, saves that fail, restarts; 2 workers, 2 servers, 2 tags, 2 items, 4 commands; 1 release, 2 Readys at a time, 1 fault, 2 platforms | `MigrationKeepsChoices`; `RulesAreKept`; `SettingsReadBack`; `SearchAsWritten`, `ServersApart`; `UpdatesArrive` |

`BufferSound` is `CountExact`, `BatchFits` and `ExactlyOnce`; `EveryCallCompletes` is `EveryMessageFinishes` and `EveryCallReturns`; `LimitsHold` is
`AtMostPerDuration` and `OncePerInterval` while handlers do not overlap, and `RingHoldsLatest` whatever they
do; `ReconnectsInTime` is `AttemptsApart` and `Recovers`; `UpdatesArrive` is `RunsWhatWasPulled`, `UpdaterStays`
and `OfferedIsWhole`.

Why the bounds are enough:

* **Buffer.** A message is stranded when its sender leaves, another one empties the lock
  and a third appends meanwhile: three senders, and two messages each so that a sender
  comes back. Lengths 1, 3, 5 under 6 give a message that fills a request, one that joins
  with some and not with others, and three that join exactly. The liveness run has two
  senders and keeps the longest and the shortest length.
* **Gate.** With settings 0, 1 and 3 the ring has no, 2 or 6 slots: five commands go round the small one twice, and a
  raise from 1 to 3 leaves a ring that is shorter than the new setting until somebody measures it. Three commands
  of two handlers are what appends, measures and replaces it at the same time.
* **Raid.** Two alarms are needed for prolonging and for "remember twice"; level 4 is above
  what the bot sets. A third alarm repeats the second.
* **Schedule.** Two rows are one birthday, so that two birthdays compete for the table (one may
  find room for its first event only); a year of two days has a second year due within the run, and an outage and
  a restart stop `OnTick` at each of its steps.
* **Process.** Channels of one entry are full with a second guild under way, which is what 2500 or 2000 entries
  delay and do not prevent; a grace of 1 under a maximum of 2 lets a second raid follow the first and
  the maximum end the wait. Four values wrap the counter within the misses that end the process. Two
  losses let one goroutine hold an error of the first across the second.
* **Guild.** Two messages at a time and a third after them are what silences twice; 4 seconds at a silence of
  2 let one be over and the next begin. Two filters show that one is not disabled with the other. Two callers
  whose `Marshal` and `Write` cross are what loses a change; a third repeats them. Two guilds share a
  person, two names alternate, and three events in three days let one be written after the next happened.
* **Config.** The files lie on both sides of every block that moves something; a second crash hits
  the repetition of the first. `RulesAreKept` varies a few circumstances at a time around one ordinary
  command, with all combinations of roles, lists and caller. Two workers and two items are what triggers and
  insertions interleave over; each shape of query up to one level of parentheses appears. A fault is a
  failing build, whose repair `!update` may end; the release is pulled between the steps of two Readys.

`SYMMETRY` is used in `BufferOrder`, `Schedule`, `Guild` and `Config` (safety and step properties only; the senders,
handlers, members, callers, workers and goroutines are interchangeable). `CHECK_DEADLOCK FALSE` appears where the bounded
run simply ends (time, commands or events are used up, the process has exited) and in the Gate, where a jammed spinlock is
a real end.

In words:

* `NeverStranded` — a buffered message has a sender that will call `Process` again. `FifoOrder` and
  `ReturnedMeansFinished` — order is only promised without 429: the library lets go of the bucket, and a sender whose
  message was taken along returns before it is posted.
* `LimitsHold` — BotConfig.go's sentences about the two limits, true while handlers take turns; `RefusedForCause` — the
  converse, for messages handled in order, overlapping or not, unless the setting has been raised beyond the ring
  that was measured; `JamsOnlyAfterChange` — a ring without slots comes of a changed setting only.
* `PriorIsRemembered(InTurn)`, `LiftsInTime`, `LockdownEnds`, `AlarmsApart` — a lockdown ends in the level it replaced,
  not too early, at some time, and two alarms are apart.
* `HasEnd` — who is held by a timed sanction has an event that ends it. `NoOverstay` — nobody
  keeps the birthday role, unless the database comes and goes between the two events of a
  birthday (then the first is repeated after the second; the row for the second has moved a year on).
  `NoneSkipped` — a repeating event is carried out for every date, however late; `RepeatsBounded` —
  and no more often than crashes explain. `DueHappens` — what is due happens once channel and database are there.
* `GraceRespected` — no round ends the wait with a guild in grace. `HandlersReturn`, `ShutdownCompletes` — nobody waits for
  ever on a channel, a lock or a raid. `AttachedIsAskedFor` — every attached guild has its turn: its members are fetched up to
  the last page or to one that fails, whichever guilds failed before it; the code promises no more, for it does not retry.
* `LateCostsTwo` — the detector counts at most two misses per heartbeat that was late: a bot that answers
  in time is never ended. `DeadlockEndsProcess` — one that does not is.
* `UsesPrepared`, `ReconnectsInTime` — whoever was let through finds every statement; attempts are apart, and a
  database that stays up is used again.
* `PressureIsLeakyBucket` — the pressure, kept by drains and additions of separate handlers, is that of a leaky
  bucket. `AlertOnce` — of two alerts about a member the later one comes after the earlier silence.
* `FiltersFollowConfig` — messages are judged by the words of the configuration, whatever was refused, removed,
  restarted or added at the same time. `WitsKeepWorking` — a refused trigger silences no other.
* `Durable` — when nobody is at work, the file is whole and is what is in memory, unless the latest save failed, saves
  overlapped or `!setup` stopped halfway. The exceptions end: one save that succeeds writes all of the configuration.
  `NoDeletedRoles` — no role in the list is one that was deleted, when every event has been heard.
* `RecordsFollowMembers`, `NamesKeepTime` — the tables agree with Discord when what is in hand was written in turn.
* `MigrationKeepsChoices` — what is restricted after a migration, and to whom, exactly: what the file restricted, under its
  new name and to the same roles; the commands of the blocks 21 to 30 that are newer than the file and not in it, to the
  moderators, if it names any; nothing else. What was chosen later survives every restart. `RulesAreKept` — the help's sentences about who may run what where, for every way to name a
  command. `SettingsReadBack` — what `!getconfig` shows after an accepted value, of any kind of option, is what was
  typed; what was deleted is not found; what was not named does not change; and the next start reads the same if the save
  succeeded.
* `SearchAsWritten` — the clause finds what the query says. `ServersApart` — commands of one server leave the others'
  items alone.
* `UpdatesArrive` — sweetie is built from what was pulled, the updater comes back after every failing build, and
  once no `SelfUpdate` is under way every program offered matches its hash and its archive, although two of them interleave
  with pulls and builds; except for what `spoilt` remembers.

## 4. Fairness

* Goroutines that can run do run (Go's scheduler is preemptive): `WF` on each actor's steps.
* `sync.Mutex` hands the lock to a waiter that has starved for a millisecond: `SF` on
  `Relock` and `Retry` in `MessageBuffer`. No fairness is given to arrivals of messages.
* Calls to Discord and the database return or time out: `WF` on `Answer \/ Reject`, on
  `Restore`, on `Fire`.
* The idle loop runs for the life of the process: `WF` on `Tick`, `OnTick`, `Begin(Idle)`.
* Time passes: `WF` on `WindowEnds`, `TimePasses`, `Second`.
* The two readers of the channels and `Connect` are loops without an end of their own: `WF` on `Reading`, `Writing`,
  `Closing`; the detector likewise (`Send`, `Check`). Nothing forces a heartbeat to be answered, a raid to
  begin or anybody to end the bot.
* The database comes back in `Scheduler` (`WF(Recover)`); in `DatabaseStatus` it is a premise of
  `Recovers` (`<>[]up`) instead. Nothing forces a channel to be configured: `DueHappens` has it as
  an exception.

The modules of the runs `Gate`, `Schedule`, `Guild` and `Config` have no fairness: what is checked of them is safety.
`ProcessSpec` restates the fairness of the three modules it joins, each for its part.

## 5. Proofs

`tlapm` checks every theorem with Z3, Zenon and LS4; nothing is assumed but the constants'
`ASSUME`s and what a theorem names. A theorem holds for every number of senders, handlers, members, rows,
words, settings, and for every value of the bounds.

| theorem | states | argument |
|---|---|---|
| `MessageBuffer_proofs!TypeCorrect` | `TypeOK` | one step per action; `left` is never negative because `Process` takes a prefix |
| `…!NoMessageStranded` | `NeverStranded` | inductive with `TypeOK`. The step that matters is `Answer`: with nothing left behind at `Process`, whatever the buffer holds now was appended later, by senders still on their way |
| `…!LockDiscipline` | `LockHeld` | inductive: every acquisition needs a free lock |
| `…!FirstInFirstOut` | `FifoOrder`, if `MaxRetries = 0` | `OrderInv` strengthens it: numbers run on over `finished`, the holder's batch and the buffer, and nobody but the holder has a batch |
| `…!CountStaysExact` | `CountExact` | inductive; sums of appended and of divided sequences, below |
| `…!RequestsFit` | `BatchFits` | from `CountExact`: `Process` stops before the limit and leaves out no newline |
| `…!ReturningMeansFinished` | `ReturnedMeansFinished`, if `MaxRetries = 0` | `OrderInv` and `Awaited`: what the holder has taken is its own or of a sender asleep, who cannot leave before |
| `…!BufferImplementsChannel` | `ImplementsChannel`, if `MaxRetries = 0` | the refinement: `Append_` is `Accept`, an answered post `Finish`, everything else a stutter |
| `…!BufferAlwaysSound` | `BufferSound` | the two above and `Placed`: every number given out is at exactly one place (buffer, a batch, or finished), every other nowhere |
| `CommandGate_proofs!GateTypeCorrect` | `TypeOK` | the index stays a number though it may belong to another ring |
| `…!SpinlockIsReleased` | `JamsOnlyAfterChange` | `Sized`: without a change, whoever got past the measurement has a ring of the setting's size |
| `…!LimitsAlwaysHold` | `LimitsHold` | `Limited`, below |
| `…!NeverRefusedWithoutCause` | `RefusedForCause` | a step property, from `Filled`: the slot `check` looks at holds the `perDuration`-th latest timestamp, and as many are in the window |
| `RaidLockdown_proofs!RaidTypeCorrect` | `TypeOK` | one step per action |
| `…!AlarmsNeverClose` | `AlarmsApart` | `RaidInv`: the last alarm is `LastRaid`, and a handler about to swap has compared its time with what it read; so a successful swap is far from the last alarm |
| `…!PriorAlwaysRemembered` | `PriorIsRememberedInTurn`, if the instances in turn have no restart | `TurnInv`: one actor at work, the State lags by the events under way only, and `lockdown` is the replaced level at each step between the two calls |
| `…!AlwaysLiftsInTime` | `LiftsInTime` | `TimerInv`: the timer is behind no alarm but that of the handler on its way to set it |
| `DatabaseStatus_proofs!DatabaseTypeCorrect` | `TypeOK` | loading never goes past the last statement |
| `…!OneReconnectsAlways` | `OneReconnects` | `LockInv`: the lock is set iff some actor is between `TestAndSet` and one of its exits |
| `…!AlwaysUsesPrepared` | `UsesPrepared`, if `Broken = {}` and not `DropsLoading` | `PreparedInv`: `Status`, and everybody let through, imply that all statements are there; a loading actor has those before `next` |
| `…!StartsCompleteWhenPrepared` | `StartsComplete`, if `Broken = {}` and not `DropsLoading` | a step property, from `PreparedInv`: what the run `DatabaseBoot` violates takes a statement that fails |
| `…!AttemptsStayApart` | `AttemptsApart` | a step property; `LongAgo`: who is about to reconnect found `lastattempt` longer ago than `Timeout`, and by `LockInv` nobody else has set it since |
| `Scheduler_proofs!ScheduleTypeCorrect` | `TypeOK` | contains that `OnTick` holds only rows whose date has come |
| `…!RowsAlwaysBounded` | `RowsBounded` | inductive with `TypeOK`: it counts the rows *and* the handlers about to insert |
| `…!SanctionsEnd` | `HasEnd`, if `Prompt` | `EndInv`, below |
| `…!RepeatsAlwaysBounded` | `RepeatsBounded` | `CountInv`: what was carried out for a date, and what `OnTick` may still carry out for it without a fault (`Left`), is once and once more per fault |
| `…!NoneEverSkipped` | `NoneSkipped` | `SkipInv`: a repeating row stands at one of its dates, and every date before it was carried out; a catch-up is a multiple of the interval and there is none in between |
| `…!NobodyOverstays` | `NoOverstay`, if `Prompt` | `EndInv` and `StayInv`: the two events of a birthday stand a day apart, or the second years behind the first, never ahead of it, and `OnTick` takes the earliest |
| `Process_proofs!WatchdogTypeCorrect` | `WTypeOK` | the strikes stay below their limit until the process ends |
| `…!LateAlwaysCostsTwo` | `LateCostsTwo` | `LateInv`: the heartbeat is ahead of the counter by the answers of this interval, across the wrap; a strike is paid for by a heartbeat that was under way |
| `…!LifecycleTypeCorrect` | `LTypeOK` | the channels stay within their capacity |
| `…!GraceAlwaysRespected` | `GraceRespected` | a step property; `LifeInv`: a guild already looked at in this round was out of its grace |
| `Guild_proofs!PressureTypeCorrect` | `STypeOK` | one step per action |
| `…!AlertsAreSentOnce` | `AlertOnce` | `Remembered`: of two silencings of a stay, the later saw the earlier one's date in the map, until it is over |
| `…!SilencedWhereConfigured` | `SpammerIsSilenced`, if every instance has a silence timeout | `CallsSilence`: a call that was made this second left a timeout that is ahead, and only the steps up to the judgement remember one |
| `…!PressureAlwaysLeaks` | `PressureIsLeakyBucket` | `Leaks`, below |
| `…!FiltersAlwaysFollow` | `FiltersFollowConfig` | `Compiled`: an expression is that of its words but for the filter an editor is at |
| `…!WitsAlwaysWork` | `WitsKeepWorking` | `Wits`: until a restart reads a refused trigger from the file, the joined expression is usable and holds the triggers |
| `…!StoresTypeCorrect` | `GTypeOK` | one step per action |
| `…!StoresAreDurable` | `Durable` | `SavedInTurn`: unless saves overlap, the latest has failed or a `!setup` stopped, the file is whole and differs from memory only by what one command is about to write; a save that succeeds has marshalled all of it |
| `…!ListIsTidy` | `NoDeletedRoles` | `Tidy`: a listed role exists, or its event is under way, or a command has just created it |
| `…!RecordsAlwaysFollow` | `RecordsFollowMembers` | `RowsInTurn`, below |
| `…!NamesAlwaysKeepTime` | `NamesKeepTime` | `NSound`, below |
| `Config_proofs!UpdatesAlwaysArrive` | `UpdatesArrive` | `UpdateInv`: what was built is what was pulled (`BuiltAsPulled`); who misses an updater has it aside (`OneAside`); a program whose hash or archive does not fit has a Ready that is still to make it (`SeenTo`); one on its way from reading a program to writing what it read has read the program that is there, unless that was replaced meanwhile |
| `…!RulesAlwaysKept` | `RulesAreKept` | `DispatchInv`: what is known at each step of the handler (`Steps`), and that every end has its reason (`Outcomes`) |
| `…!ServersStayApart` | `ServersApart` | a step property; `TagInv`: numbers are given once (`Numbered`), and a command holds numbers of its own server's tags only (`OwnTags`) |
| `…!SettingsAlwaysReadBack` | `SettingsReadBack` | `CShape`; a request is compared with what was there before it, so the kinds of options are the cases: what was stored is what was typed, is found under the key that was typed, and a list without a meaningless word is taken as a whole; the file is what is in memory unless a save is to come or has failed |
| `…!SearchesAnswerAsWritten` | `SearchAsWritten` | not inductive: it holds of any tables; `WhereClauseMeans`, below |
| `…!MigratedFilesKeepChoices` | `MigrationKeepsChoices` | `CMInv`, below |

`LockHeld`, `OneReconnects`, `RowsBounded` and the type invariants are proved and therefore in no run.
`RowsBounded` says that the table may exceed `MaxScheduleRows`, but only by the number of handlers that
counted together, less one. The parts of `BufferSound`, `LimitsHold` and `UpdatesArrive` are checked under these names.

**Sums** (`count`, the pressure, the time of names) are defined by recursion over a sequence or by a fold over a set. The induction
theorems of the library cannot be instantiated, but an induction over a *set of numbers* can:
`SetInduction` follows from the well-foundedness of inclusion on finite sets. From it: that the recursion does define a
function, that the sum of a joined sequence is the sum of the sums, that a sum over a set does not depend on the order
in which elements are taken, and what one more element adds. The same induction serves the folds over a range of numbers: the
neighbours of a query's clause that are merged one after the other, and the blocks of a migration.

**`HasEnd`** is not inductive: it has to be known whose row is whose. `EndInv` adds, of the table
(`TableInv`), that rows without a repeat keep their date, rows with one stay, and what `OnTick`
has read still stands in the table; of the commands (`JobInv`), that a command past its insertion
has its row in the table and is early; of the promises (`PromiseInv`), that a promise is a
row of the right kind, and that a row `OnTick` is about to remove has been taken back. The two
steps that matter: `Impose` may not name the row `OnTick` has already carried out (the row is due,
the command is early), and `Remove` may not drop a row whose effect did not happen. Without
`Prompt` the proof fails at `TimePasses`, and so does the property.

**`LimitsHold`** needs that the ring holds the latest timestamps after the oldest have been
overwritten, that is, that `realmod` numbers the slots without a collision (two indices less than a ring apart differ in
their remainders), and how many those are (`Filled`): all of them as long as the setting is what it was, some number
otherwise, for a replaced ring is empty. `Passed` says of a handler that `check` has let through that the timestamp
`perDuration` places back is out of its period, `Chained` that of any two accepted ones whose places have the same
remainder the later is more than a period after the earlier; so a period has at most one for each remainder (a
pigeonhole). `Alone`, `Sized`, `Unused`, `Spaced` carry the rest.

**`PressureIsLeakyBucket`** compares one number, drained and charged by steps of several handlers, with the maximum over all
runs of charges up to the last. `IsPeak` says that it is this maximum, at a time: a drain keeps the peak (what is below
zero is beaten by the empty run), a charge adds to every run. `Leaks` says so of the instant of the last message
while a goroutine is at work (`Going`), whose loaded value is ahead by the charge it is about to store. It uses that
`PressureDecay` divides `BasePressure`, as the model's integers do.

**`RecordsFollowMembers`** looks at rows nobody is writing. `RowsInTurn` says what is true while somebody is: a row has one
writer at hand and then nothing in the queue (`OneWriter`), who is joining with the date of Discord
(`Joining`) or leaving (`Leaving`); otherwise the row is what it should be but for a first message in the queue
(`RowTells`); and what is queued is of a member who is still there (`Queued`).

**`NamesKeepTime`** needs to know where each name is on its way from Discord to the tables. `NameInTurn` says of a person whose
events were handled in turn: a name is written at hand by one goroutine, and then none is queued (`OneNamer`); the name a task
has read is still on record when it writes (`ReadStill`); with nothing under way the record is the account's
(`BearsName`); and the names' time together is at most the days up to the stamp of the current one (`TimeKept`), which is
what a change of names adds to. That a queued name is still the right one when its turn comes is a matter of the queue's
order: `Followed` says that an outdated name has an update of the same person behind it, a message's author the message
that was sent, and `InOrder` that this is so at every place of the queue; taking the first and appending one keep
it. `Listed` says that a name on record without an alias has the task that adds it under way. The sum changes by one
summand at a time, or by those that a cleaning drops.

**`SearchAsWritten`** compares the clause, built by merging the neighbours `tag|tag` from left to right, with the
query. `WhereClauseMeans` says that for a plain query an item satisfies some alternative of the clause iff it
satisfies one of the query; its induction (`OneMore`) is over how many alternatives have been taken: what is merged so far means
what was read so far, and the last one built is the last one read or a run of single tags joined into one factor.

**`MigrationKeepsChoices`** speaks of a server that is up; `CMInv` of every step on the way. A file on disk is the old one or
current (a migration saves once, at its end). While it is under way (`Underway`) what is in memory is the old
file *carried* to the block that comes next (`Carried`: restrictions under the name they have there, the commands of the blocks
that are behind restricted), and a restart begins with the file again. Each block carries on from one version
to the next (`BlockCarries`), hence any run of blocks does (`BlocksCarry`).

The larger inductive invariants were model-checked on the instances of the runs, some also with more failures and
deletions, before they were proved. **Assumptions on constants** beyond their types: the idle loop is not a handler
(RaidLockdown, MemberRecords' queue); a day fits the run (Scheduler); events have a known kind and a channel
(CommandDispatch); the tags a server starts with are numbered one by one, as by the table's primary key, and only existing
servers import (TagStore); lower-casing twice is lower-casing, and makes nothing of a word that is not the empty one's
quotes (Settings); fewer late heartbeats than the counter has values (Watchdog); a name is not empty (MemberRecords); a query has
no empty parentheses or alternatives, as they make no valid SQL (TagStore); a file has what any version has stored, and
before version 27 no restriction of `raidsilence`, which is a command since (ConfigMigration). TLC evaluates them all.

Proofs found mistakes in the models, which were then corrected after the source: `RefusedForCause` had to except a
setting raised beyond the measured ring; an alias of a server-independent command is not itself independent; and
`Settings` took the quotes that `ParseArguments` removes for part of a key, and an empty key for a key.

**Only model-checked:** all liveness (`EveryCallCompletes`, `LockdownEnds`, `DueHappens`, `HandlersReturn`,
`AttachedIsAskedFor`, `ShutdownCompletes`, `DeadlockEndsProcess`, and `ReconnectsInTime`, of which `AttemptsApart` is a
part that is proved): `ENABLED` and fairness are out of the prover's reach. Every invariant and every step property of a passing
run is proved, some under a condition that the table names and the instances of the run satisfy.

## 6. Findings

* **RaidRace.** `checkRaid` sets `w.lockdown` before, and `w.lastlockdown` after, two calls to
  Discord; an `OnTick` in between sees the new lockdown with the old timer, finds the State not yet
  changed, and gives up the lockdown without restoring anything. The raised level stays
  (SpamModule.go:47; BotConfig.go:169 "temporarily").
* **DatabaseBoot.** `LoadStatements` returns the error of its last `Prepare` only: a
  database that lacks another procedure passes for a good one (db.go:187, sweetiebot.go:1236/1240).
* **SilenceDefault.** With `Spam.SilenceTimeout` at its default of 0, `TimeoutMember` gives Discord no date and so *lifts*
  whatever timeout the member has; the spammer is called silenced and may go on writing (BotConfig.go:161 "they will be
  silenced").

Observations that have no run of their own:

* **Gate.** `check` and `append` are separate critical sections (sweetiebot.go:457, 472): two handlers pass with one slot
  left, so BotConfig.go:150 ("at most 3 commands can be run every 20 seconds") does not hold under overlap; `commandLast`
  is read and written under two lock acquisitions, so two handlers may run one command twice within its interval (against
  BotConfig.go:147). The default in the code is 15 seconds, not 20.
* **Raid.** A restart forgets the lockdown; a server at the highest level is *lowered* to High (SpamModule.go:346); after a
  manual change both the messages of strings.go:124 and :126 are sent.
* **Scheduler.** An unban carries only the member, so the event of an earlier ban lifts a
  later, longer or permanent one; a failed unban is not tried again; `OnTick` needs a channel even for
  events that post nothing (SchedulerModule.go:93); `REPEAT 0 …` makes an event fire on every tick and a
  negative one moves it into the past; a negative `for:` duration inserts an unban that is already due; a new
  member's role has no end if the database is away when they join (against BotConfig.go:192).
* **Lifecycle.** A wrong prefix in the main server makes every heartbeat no command, and the process ends itself after
  five of them (BotConfig.go:142 invites changing it); the comment at sweetiebot.go:1335 speaks of a lock that the
  sends to `memberChan` do not hold; `GuildDelete` is never registered, so a deleted guild stays in the map; a page of
  members that fails is not asked for again (sweetiebot.go:853), although :259 has "it just has to happen eventually".
* **Spam.** `PressureDecay = 0` makes the pressure NaN.
* **Filter, Witty.** Between `ClearRegex` and `Compile` messages pass unfiltered; `filters` is written without a lock; the
  rejected trigger stays in the file (WittyModule.go:132), and after a restart no trigger works; an empty
  template matches the blanks; `!deletefilter` leaves the filter's pressure; `!searchfilter` lower-cases the name, the
  others do not.
* **Stores.** `!setup OVERRIDE` resets the configuration in memory before it validates its arguments, and leaves nil maps in which
  `!addcounter` and `!addstatus` panic (recovered at sweetiebot.go:351) until the next start; overlapping saves may leave
  older data, or a mixture; no command reports that its save failed, and what it changed is gone at the next start; after a torn
  or empty file the server has the defaults, and no command but `!setup`; a role deleted while the bot is down stays in the list; a negative `Bucket.MaxItems` with an empty bucket
  panics in `rand.Intn(0)`.
* **Records.** An update still in `deferChan` when its member leaves puts the row of somebody who is gone back; joining and
  leaving may be handled in either order; `AddChat` inserts the alias under the message's ID (sweetiebot.sql:52–53), which
  the foreign key refuses; members the bot never saw join get a row with their first update, so that `!bannewcomers`
  takes them for new; `CleanAliases` goes on with the last `aid` once its cursor is exhausted.
* **Migration.** Files up to version 19 lose the bucket, status, emote and spoiler lists; the loop over `Disabled` moves channels
  instead; an alias of `autosilence` without arguments panics at BotConfig.go:782, at every start; a crash within
  version 13's block creates the roles again; -2 for `RaidSilence` survives; the blocks of the versions 11
  to 19 (BotConfig.go:893–961) restrict their commands with a `ModRole` that the file's moderators only become at :968: these
  commands (`!addrole`, `!removerole`, `!deleterole`, `!bannewcomers`, `!banraid`, `!getraid`, `!wipe`, `!getpressure`,
  `!addset` and others) stay open to everybody.
* **Dispatch.** The comment at sweetiebot.go:445 says that moderators bypass the rules, `UserCanUseCommand` (GuildInfo.go:359)
  lets administrators; administrators are known from the cache alone; a failed look-up of the member passes lists
  that exclude; edited messages of other bots reach modules; `GuildUpdate` looks the guild's ID up as a channel.
* **Settings.** A list that is given an invalid value is emptied and saved although the answer is an error (BotConfig.go:449,
  against ConfigModule.go:64 "Will only save the new configuration if it succeeds"); the third part of a
  dotted name is ignored; `!getconfig` does not lower-case a key, `!setconfig` does; "to delete a value, set it to
  nothing" is refused for scalars.
* **Tags.** Two `AddItem`s of one text may make two rows, after which `AddItem` fails (db.go:889); a trigger may delete an item
  between `AddItem` and `AddTag`; `a+b|c` becomes *a AND (b OR c)*, `-a|b` *NOT (a OR b)*; `!tags` and `!pick` put the clause
  without parentheses before `AND Guild`, so `(-a)|b` returns other servers' items; the cache of statements
  is a map without a lock and stale after a reconnection.
* **Updater.** `UpgradeDatabase` looks for its scripts in the repository's root while they are in `docs`; an end of the process, or
  `!update`, between `SetAside` and `BuildUpdater` leaves no updater, and `!update` later says "up to date" over an old sweetie;
  so it does after a failed build (selfhost.go:53 says that 0 means no update is needed); of two Readys with a pull between
  them, one may write the hash or copy the archive of a program that the other has replaced meanwhile (override.go:36–41,
  :107–130), and nothing looks at an error of `WriteMD5`: `DownloadFile` then refuses the update until the next Ready.

## 7. What is not modelled

The cutting of long messages into pieces (`SendMessage`; only the lengths appear), message texts,
Markov text, dice, searches in the chat, polls, the random command of the Bored module, the web pages, the installer, the
console, help texts, and the SQL of queries that only read for output. `!wipe` and the look-back that deletes a spammer's
older messages are calls to Discord without state. `SelfhostBase`'s own `SelfUpdate` and `DoUpdate` are called by no build of
this commit. `discordgo` is modelled as the code uses it (bucket, State, `GuildEdit`, events). Data races on single
words (the pressure, the timer of a lockdown) are loads and stores in any order; races that Go's runtime turns into the end of the
process are that. In `MemberRecords` aliases are not trimmed to ten, default servers are left out, and the database
stays up. Components without a module are listed with the reason in `PROJECT.json`.

## 8. Plan

What would come next, in this order:

1. Proofs: what takes the place of `FifoOrder` and `ImplementsChannel` when a post may be retried; the step that gives
   `Recovers` and `EveryCallCompletes` (a measure that decreases), as far as it can be said without fairness.
2. The bulk of `ProcessMembers` and an outage of the database in MemberRecords, composed with `deferChan`'s capacity.
3. The parser of tag queries, as a function from tokens to the sequences that TagStore takes.
4. Polls and the limit of ten aliases as tables of the kind TagStore has.
