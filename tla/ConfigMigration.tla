--------------------------- MODULE ConfigMigration ---------------------------
(***************************************************************************)
(* MigrateSettings (BotConfig.go): when a server's file was written by an   *)
(* earlier version of the bot, loading it rewrites the configuration block   *)
(* by block, creates roles and tags on the way, and saves the result.  The   *)
(* process may end at any call of Discord or of the database, and the save   *)
(* may be refused: the next start then migrates the same file again.         *)
(*                                                                          *)
(* A value of a setting that no block computes with is abstracted to whether *)
(* a block has replaced it.                                                  *)
(***************************************************************************)
EXTENDS Integers, FiniteSets, Sequences

CONSTANTS Files,        (* the files the program may find                       *)
          MaxCrashes, MaxChanges   (* bounds                                    *)

ConfigVersion == 31
Other == {"channels", "limits", "disabled"}   (* the tables by command besides CommandRoles *)

(* A file has what any version has stored, as it parses.  raidsilence is a command *)
(* since version 27: no earlier file has a restriction for it.  The moderators'   *)
(* role is Basic.ModRole since version 21; it was Basic.AlertRole before.         *)
FileFields == {"config", "groups", "basicCollections", "collections", "alertRole", "autoSilence", "hasSilenceRole"}
ConfigFields == {"version", "modRole", "commandRoles", "other", "aliases", "replaced", "raidSilence", "notify",
                 "lists", "channels", "disabled", "userRoles"}
IsConfig(c) ==
  /\ c = [x \in ConfigFields |-> c[x]] /\ c.version \in 0..ConfigVersion
  /\ c.version <= 26 => "raidsilence" \notin DOMAIN c.commandRoles
  /\ c.version <= 20 => c.modRole = ""
IsFile(f) == f = [x \in FileFields |-> f[x]] /\ IsConfig(f.config)
ASSUME FilesAssumption == \A f \in Files : IsFile(f)

VARIABLES
  disk,       (* the stored file                                               *)
  cfg,        (* guild.Config                                                  *)
  at,         (* the next block to run, "up" or "down"                         *)
  todo,       (* groups or collections the block still has to visit            *)
  idmap,      (* of the block for version 13: group -> ID of its new role      *)
  roles,      (* of the server: sets of [id, name]                             *)
  pings,      (* what the server's reminders ping: <<"group", g>> or <<"role", id>> *)
  tags,       (* <<collection, item>> in the database                          *)
  silenceRole,(* the server still has the role version 30 used                 *)
  old,        (* history: the file as the bot last found it from an earlier version *)
  chosen,     (* history: what the administrators made of the command roles since *)
  crashes, changes

cmvars == <<disk, cfg, at, todo, idmap, roles, pings, tags, silenceRole, old, chosen, crashes, changes>>

-----------------------------------------------------------------------------
(* The blocks *)

Reset(c, names) == [c EXCEPT !.replaced = @ \cup names]

(* A bug a change could bring: the moderators' restriction replaces the server's own. *)
RestrictCommandAlways(c, commands) ==
  IF c.modRole = "" THEN c
  ELSE [c EXCEPT !.commandRoles = [x \in DOMAIN @ \cup commands |-> IF x \in commands THEN c.modRole ELSE @[x]]]
RestrictCommand(c, commands) ==
  IF c.modRole = "" THEN c
  ELSE [c EXCEPT !.commandRoles =
          [x \in DOMAIN @ \cup commands |-> IF x \in DOMAIN @ THEN @[x] ELSE c.modRole]]

Moved(S, a, b) == IF a \in S THEN (S \ {a}) \cup {b} ELSE S
MovedKey(f, a, b) ==
  IF a \notin DOMAIN f THEN f
  ELSE [x \in Moved(DOMAIN f, a, b) |-> IF x = b THEN f[a] ELSE f[x]]

(* An alias to the renamed command that has no arguments indexes past the split: a panic. *)
RenameFails(c, a) == \E k \in DOMAIN c.aliases : c.aliases[k] = <<a>>
Rename(c, a, b) ==
  [c EXCEPT !.commandRoles = MovedKey(@, a, b),
            !.other = [t \in Other |-> Moved(@[t], a, b)],
            !.aliases = [k \in DOMAIN @ |-> IF @[k][1] = a THEN <<b, @[k][2]>> ELSE @[k]]]

(* The restrictions that stand alone in their block. *)
NewCommands == [v \in 11..30 |->
  CASE v = 11 -> {"getaudit"}
    [] v = 14 -> {"addrole", "removerole", "deleterole"}
    [] v = 15 -> {"bannewcomers"}
    [] v = 18 -> {"banraid", "getraid", "wipe", "bannewcomers", "getpressure"}
    [] v = 19 -> {"addset", "removeset", "searchset"}
    [] v = 21 -> {"assignrole"}
    [] v = 22 -> {"setfilter", "addfilter", "removefilter", "searchfilter", "addstatus", "removestatus", "setstatus"}
    [] v = 23 -> {"createrole"}
    [] v = 25 -> {"echoembed"}
    [] v = 26 -> {"increment", "addcounter", "removecounter"}
    [] v = 28 -> {"import"}
    [] v = 29 -> {"setmemberrole"}
    [] OTHER -> {}]

PressureBlock(c) == Reset(c, {"pressure"})          (* 12 *)
LockdownBlock(c) == Reset(RestrictCommand(c, NewCommands[15]), {"lockdownduration"})
PrefixBlock(c) == Reset(c, {"commandprefix"})       (* 16 *)
SetupBlock(c) == Reset(c, {"setupdone"})            (* 17 *)
RaidBlock(c) == Reset(RestrictCommand(c, NewCommands[18]), {"linepressure"})
RaidSilenceBlock(c) == RestrictCommand(Rename([c EXCEPT !.raidSilence = old.autoSilence], "autosilence", "raidsilence"),
                                NewCommands[26])
ExponentBlock(c) == Reset(c, {"exponent"})          (* 27 *)

(* The lists the file had under basic.collections become those of the modules, or tags. *)
Builtin == {"bucket", "emote", "status", "spoiler"}
CollectionLists(c) == [c EXCEPT !.lists = @ \cup (old.basicCollections \cap Builtin)]

(* Version 20 has its collections at the root: what an older file brought is dropped. *)
Notify(c) ==
  LET to == IF c.raidSilence = -2 THEN "log" ELSE IF c.raidSilence # 0 THEN "mod" ELSE c.notify
  IN  [c EXCEPT !.notify = to, !.raidSilence = IF @ < 0 THEN 0 ELSE @]
Lists(c) == [c EXCEPT !.modRole = old.alertRole, !.lists = old.collections \cap Builtin]
Renamed == {<<"schedule", "scheduler">>, <<"anti-spam", "spam">>, <<"help/about", "information">>}
ModuleNames(c) ==
  LET first == [m \in (DOMAIN c.channels \ {r[1] : r \in Renamed}) \cup {r[2] : r \in {q \in Renamed : q[1] \in DOMAIN c.channels}}
                 |-> IF \E r \in Renamed : r[2] = m /\ r[1] \in DOMAIN c.channels
                     THEN c.channels[(CHOOSE r \in Renamed : r[2] = m)[1]] ELSE c.channels[m]]
      again == {r[2] : r \in {q \in Renamed : q[1] \in c.disabled}}   (* overwritten with nothing *)
  IN  [c EXCEPT !.channels = [m \in DOMAIN first \cup again |-> IF m \in again THEN "nil" ELSE first[m]]]
ModRoleBlock(c) == ModuleNames(Notify(Lists(c)))

(* What the blocks of the versions lo to hi make of c, for those the file is not beyond. *)
Block(v, c) ==
  CASE v = 12 -> PressureBlock(c)
    [] v = 15 -> LockdownBlock(c)
    [] v = 16 -> PrefixBlock(c)
    [] v = 17 -> SetupBlock(c)
    [] v = 18 -> RaidBlock(c)
    [] v = 20 -> ModRoleBlock(c)
    [] v = 26 -> RaidSilenceBlock(c)
    [] v = 27 -> ExponentBlock(c)
    [] OTHER -> RestrictCommand(c, NewCommands[v])
Blocks(lo, hi, c) ==
  LET run[v \in (lo - 1)..hi] == IF v < lo THEN c ELSE IF c.version <= v THEN Block(v, run[v - 1]) ELSE run[v - 1]
  IN  run[hi]

-----------------------------------------------------------------------------
(* json.Unmarshal into the default configuration: before version 27 no file has a raidsilence. *)
Parsed(f) == [f.config EXCEPT !.raidSilence = IF @ = -9 THEN 1 ELSE @]

CMInit ==
  /\ disk \in Files
  /\ cfg = Parsed(disk) /\ at = "down" /\ todo = {} /\ idmap = << >>
  /\ roles = {} /\ tags = {} /\ silenceRole = TRUE
  /\ pings = {<<"group", g>> : g \in disk.groups}
  /\ old = disk /\ chosen = disk.config.commandRoles
  /\ crashes = 0 /\ changes = 0

(* AttachToGuild reads the file; up to the first block that talks to Discord. *)
Load ==
  /\ at = "down"
  /\ cfg' = Blocks(11, 12, Parsed(disk))
  /\ IF disk.config.version < ConfigVersion
     THEN old' = disk /\ chosen' = disk.config.commandRoles
     ELSE UNCHANGED <<old, chosen>>
  /\ at' = IF disk.config.version <= 13 THEN "groups" ELSE "middle"
  /\ todo' = disk.groups /\ idmap' = << >>
  /\ UNCHANGED <<disk, roles, pings, tags, silenceRole, crashes, changes>>

(* Version 13: a role for every group, under another name when there is one of its name. *)
CreateGroupRole(g) ==
  /\ at = "groups" /\ g \in todo /\ todo' = todo \ {g}
  /\ \/ LET id == Cardinality(roles) + 1
            name == IF \E r \in roles : r.name = g THEN "sb-" \o g ELSE g
        IN  /\ roles' = roles \cup {[id |-> id, name |-> name]}
            /\ idmap' = [x \in DOMAIN idmap \cup {g} |-> IF x = g THEN id ELSE idmap[x]]
            /\ cfg' = [cfg EXCEPT !.userRoles = @ \cup {id}]
     \/ UNCHANGED <<roles, idmap, cfg>>                       (* Discord refuses *)
  /\ UNCHANGED <<disk, at, pings, tags, silenceRole, old, chosen, crashes, changes>>

(* and the reminders that ping the group ping the role; without the database they stay. *)
MoveReminders ==
  /\ at = "groups" /\ todo = {}
  /\ \/ pings' = {IF p[1] = "group" /\ p[2] \in DOMAIN idmap THEN <<"role", idmap[p[2]]>> ELSE p : p \in pings}
     \/ UNCHANGED pings
  /\ at' = "middle"
  /\ UNCHANGED <<disk, cfg, todo, idmap, roles, tags, silenceRole, old, chosen, crashes, changes>>

MiddleBlocks ==
  /\ at = "middle"
  /\ IF cfg.version <= 19
     THEN cfg' = CollectionLists(Blocks(14, 18, cfg)) /\ at' = "collections" /\ todo' = old.basicCollections \ Builtin
     ELSE cfg' = cfg /\ at' = "late" /\ todo' = {}
  /\ UNCHANGED <<disk, idmap, roles, pings, tags, silenceRole, old, chosen, crashes, changes>>

(* Version 19: a collection becomes a tag, one item at a time; an error leaves its items out. *)
ImportCollection(k) ==
  /\ at = "collections" /\ k \in todo /\ todo' = todo \ {k}
  /\ tags' \in {tags, tags \cup {<<k, "item">>}}
  /\ UNCHANGED <<disk, cfg, at, idmap, roles, pings, silenceRole, old, chosen, crashes, changes>>

LateBlocks ==
  /\ at = "late" \/ (at = "collections" /\ todo = {})
  /\ \/ cfg.version <= 26 /\ RenameFails(cfg, "autosilence") /\ at' = "dead" /\ UNCHANGED cfg
     \/ ~(cfg.version <= 26 /\ RenameFails(cfg, "autosilence")) /\ at' = "role" /\ cfg' = Blocks(19, 30, cfg)
  /\ UNCHANGED <<disk, todo, idmap, roles, pings, tags, silenceRole, old, chosen, crashes, changes>>

(* Version 30: the bot's own silence role goes. *)
DropSilenceRole ==
  /\ at = "role" /\ at' = "save"
  /\ silenceRole' = (silenceRole /\ (cfg.version > 30 \/ ~old.hasSilenceRole))
  /\ UNCHANGED <<disk, cfg, todo, idmap, roles, pings, tags, old, chosen, crashes, changes>>

(* What SaveConfig writes: nothing of what only an earlier version knew. *)
Saved(c) == [old EXCEPT !.config = c, !.groups = {}, !.basicCollections = {}, !.collections = {},
                        !.alertRole = "", !.autoSilence = 0, !.hasSilenceRole = FALSE]

(* The end: the version, and a save, which a file that is too large or the file refuses. *)
Finish ==
  /\ at = "save" /\ at' = "up"
  /\ cfg' = [cfg EXCEPT !.version = ConfigVersion]
  /\ IF cfg.version # ConfigVersion THEN disk' \in {Saved(cfg'), disk} ELSE UNCHANGED disk
  /\ chosen' = IF cfg.version # ConfigVersion THEN cfg.commandRoles ELSE chosen
  /\ UNCHANGED <<todo, idmap, roles, pings, tags, silenceRole, old, crashes, changes>>

(* An administrator opens a command to everyone, or keeps it to a role (!setconfig), and it *)
(* is saved.                                                                                *)
Choose(c) ==
  /\ at = "up" /\ changes < MaxChanges /\ changes' = changes + 1
  /\ LET r == IF c \in DOMAIN cfg.commandRoles
              THEN [x \in DOMAIN cfg.commandRoles \ {c} |-> cfg.commandRoles[x]]
              ELSE [x \in DOMAIN cfg.commandRoles \cup {c} |-> IF x = c THEN "members" ELSE cfg.commandRoles[x]]
     IN  cfg' = [cfg EXCEPT !.commandRoles = r] /\ chosen' = r
  /\ disk' = Saved(cfg')
  /\ UNCHANGED <<at, todo, idmap, roles, pings, tags, silenceRole, old, crashes>>

(* The process ends, wherever it is, and is started again. *)
Restart ==
  /\ at # "down" /\ at' = "down" /\ crashes < MaxCrashes /\ crashes' = crashes + 1
  /\ UNCHANGED <<disk, cfg, todo, idmap, roles, pings, tags, silenceRole, old, chosen, changes>>

CMNext ==
  \/ Load \/ MoveReminders \/ MiddleBlocks \/ LateBlocks \/ DropSilenceRole \/ Finish \/ Restart
  \/ \E g \in old.groups : CreateGroupRole(g)
  \/ \E k \in old.basicCollections : ImportCollection(k)
  \/ \E c \in {"createrole", "wipe"} : Choose(c)

CMSpec == CMInit /\ [][CMNext]_cmvars

-----------------------------------------------------------------------------
(* Properties *)

Up == at = "up"
Mods(f) == IF f.config.version <= 20 THEN f.alertRole ELSE f.config.modRole
Newer(v) == UNION {NewCommands[w] : w \in {x \in 21..30 : x >= v}}
After(a) == IF a = "autosilence" /\ old.config.version <= 26 THEN "raidsilence" ELSE a

(* Once a server runs with a migrated file, whatever was interrupted and repeated before:     *)
(* the moderators are the file's; every restriction the file had is that restriction, under    *)
(* the command's new name; every command of versions 21 to 30 that is newer than the file and  *)
(* of which it says nothing is the moderators' (if there are any); and no other command is     *)
(* restricted -- the commands of versions 11 to 19 neither: their blocks run before a file has *)
(* a ModRole.  What the administrators chose since outlives every restart.                     *)
MigrationKeepsChoices ==
  Up => /\ (changes = 0) =>
             LET own == old.config.commandRoles
                 renamed == {After(c) : c \in DOMAIN own}
                 newer == IF Mods(old) = "" THEN {} ELSE Newer(old.config.version)
             IN /\ cfg.modRole = Mods(old)
                /\ DOMAIN cfg.commandRoles = renamed \cup newer
                /\ \A c \in DOMAIN own : cfg.commandRoles[After(c)] = own[c]
                /\ \A c \in newer \ renamed : cfg.commandRoles[c] = Mods(old)
        /\ (disk.config.version = ConfigVersion) => cfg.commandRoles = chosen
=============================================================================
