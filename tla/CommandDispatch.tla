--------------------------- MODULE CommandDispatch ---------------------------
(***************************************************************************)
(* From a Discord event to the code that handles it (sweetiebot.go,         *)
(* GuildInfo.go): which server an event belongs to, which command a message *)
(* names, who may run it where, and which modules hear of it.  How often    *)
(* commands may run is in CommandGate.                                      *)
(*                                                                          *)
(* `asked' is one event with everything its outcome depends on, chosen once;*)
(* the program then takes one step after the other.                         *)
(***************************************************************************)
EXTENDS Integers, FiniteSets

CONSTANTS Requests,      (* the commands to look at                             *)
          Events         (* the other events                                    *)

ASSUME DispatchAssumption ==
  /\ \A r \in Requests : r.kind = "command" /\ r.channel # ""
  /\ \A e \in Events : /\ e.kind \in {"message", "update", "delete", "ban", "unban", "roleDelete", "guild"}
                       /\ e.channel # ""

VARIABLES
  asked,     (* the event                                                       *)
  step,      (* where its handler is                                            *)
  info,    (* info: "this", "empty" (EmptyGuild) or "none"                    *)
  command,   (* the command found, "" before that                               *)
  ignored,   (* what checkOnCommand and CommandChannels said                    *)
  outcome,   (* of a command: "", "ran", "silent", "refused", "invalid" or "told" *)
  called,    (* modules whose hook was called                                   *)
  reply      (* "none", "channel" or "pm"                                       *)

pvars == <<asked, step, info, command, ignored, outcome, called, reply>>

Commands == {"pick", "setup"}
Aliases == [p \in {"p", "blank"} |-> IF p = "p" THEN "pick" ELSE ""]

-----------------------------------------------------------------------------
(* What the server and its members say; `c' is a channel, "" none *)

(* A whitelist of channels, or with "!" a blacklist. *)
Excluded(list, c) == list # {} /\ ((c \in list) <=> ("!" \in list))

ProcessModule(m, c) ==
  /\ m \notin asked.disabledModules
  /\ c = "" \/ (c # "heartbeat" /\ ~Excluded(asked.moduleChannels[m], c))

(* Administrators are known by the cache alone; roles are asked of Discord when need be. *)
UserIsAdmin == info = "this" /\ asked.who = "admin" /\ asked.cached
UserHasRole(r) == info = "this" /\ asked.reachable /\ r \in asked.roles
UserIsMod == asked.hasModRole /\ UserHasRole("mods")

(* A list with "!" excludes; a member Discord does not return has no role. *)
UserHasAnyRole(list) ==
  \/ list = {}
  \/ "!" \in list <=> ~\E r \in asked.roles : UserHasRole(r) /\ r \in list

(* What the server's configuration has under a command's name. *)
Ruled(c) == info = "this" /\ c = asked.ruled
CommandRoles(c) == IF Ruled(c) THEN asked.commandRoles ELSE {}
CommandChannels(c) == IF Ruled(c) THEN asked.commandChannels ELSE {}
CommandDisabled(c) == Ruled(c) /\ asked.disabled
OnMainGuild == info = "this" /\ asked.mainGuild

UserCanUseCommand(c) ==
  \/ asked.who = "owner"
  \/ /\ ~asked.restricted /\ (asked.mainInstance => OnMainGuild)
     /\ \/ UserIsAdmin
        \/ /\ ~CommandDisabled(c)
           /\ \/ asked.who = "self"
              \/ (ignored => UserIsMod) /\ UserHasAnyRole(CommandRoles(c))

(* Refusals the member does not hear of: disabled, ignored, another server's. *)
Silently(c) ==
  /\ ~asked.restricted
  /\ \/ asked.mainInstance /\ ~OnMainGuild
     \/ CommandDisabled(c)
     \/ ignored /\ ~UserIsMod

-----------------------------------------------------------------------------
(* Commands *)

PInit ==
  /\ asked \in Requests \/ asked \in Events
  /\ step = asked.kind /\ info = IF asked.private THEN "none" ELSE "this"
  /\ command = "" /\ ignored = FALSE /\ outcome = "" /\ called = {} /\ reply = "none"

(* A private message belongs to the sender's default server, or to the only one they are in; *)
(* only a command that works without a server, by its own name, needs neither.               *)
Independent == asked.independent /\ asked.typed \in Commands
GetDefaultServer == asked.dbUp /\ asked.default = "this"
FindServer ==
  /\ step = "command" /\ asked.private
  /\ IF GetDefaultServer THEN info' = "this" /\ step' = "alias" /\ UNCHANGED <<outcome, reply>>
     ELSE IF ~Independent /\ (~asked.dbUp \/ asked.memberships # 1)
     THEN info' = info /\ step' = "done" /\ outcome' = "told" /\ reply' = "channel"
     ELSE /\ info' = IF asked.dbUp /\ asked.memberships = 1 THEN "this" ELSE "empty"
          /\ step' = "alias" /\ UNCHANGED <<outcome, reply>>
  /\ UNCHANGED <<asked, command, ignored, called>>

OnServer ==
  /\ step = "command" /\ ~asked.private /\ step' = "alias"
  /\ UNCHANGED <<asked, info, command, ignored, outcome, called, reply>>

(* A command of that name, else an alias of that name, which is looked up once. *)
KnownAliases == IF info = "empty" THEN {} ELSE DOMAIN Aliases
KnownCommands == IF info = "empty" /\ ~Independent THEN {} ELSE Commands
ResolveAlias ==
  /\ step = "alias"
  /\ LET name == IF asked.typed \notin KnownCommands /\ asked.typed \in KnownAliases THEN Aliases[asked.typed] ELSE asked.typed
     IN  IF name \in KnownCommands THEN command' = name /\ step' = "setup" /\ UNCHANGED <<outcome, reply>>
         ELSE /\ command' = command
              /\ IF name = "" THEN step' = "done" /\ outcome' = "told" /\ reply' = "channel"
                 ELSE step' = "unknown" /\ UNCHANGED <<outcome, reply>>
  /\ UNCHANGED <<asked, info, ignored, called>>

(* The hooks on commands, until one says to ignore the command; the modules' order is that of *)
(* the number of their commands, which does not tell these two apart.                         *)
Hooks(c) == {m \in DOMAIN asked.moduleChannels : ProcessModule(m, c)}
Asked(c) == IF Hooks(c) \cap asked.hookIgnores = {} THEN {Hooks(c)}
            ELSE {S \in SUBSET Hooks(c) : Cardinality(S \cap asked.hookIgnores) = 1}
checkOnCommand == Hooks(asked.channel) \cap asked.hookIgnores # {}

Unknown ==
  /\ step = "unknown" /\ step' = "done"
  /\ LET heard == ~asked.ignoreInvalid /\ (asked.private \/ ~checkOnCommand)
     IN  /\ outcome' = IF heard THEN "invalid" ELSE "silent"
         /\ reply' = IF heard THEN "channel" ELSE "none"
  /\ called' \in (IF ~asked.private /\ ~asked.ignoreInvalid THEN Asked(asked.channel) ELSE {{}})
  /\ UNCHANGED <<asked, info, command, ignored>>

(* Before !setup nothing but !setup runs (EmptyGuild is never set up; see New). *)
RequireSetup ==
  /\ step = "setup"
  /\ IF ~(asked.setupDone \/ info = "empty") /\ command # "setup"
     THEN step' = "done" /\ outcome' = "told" /\ reply' = "channel"
     ELSE step' = "hooks" /\ UNCHANGED <<outcome, reply>>
  /\ UNCHANGED <<asked, info, command, ignored, called>>

(* A bug a change could bring: the rules of the name that was typed. *)
CheckChannelTyped ==
  /\ step = "hooks" /\ step' = "permission"
  /\ IF asked.private THEN ignored' = FALSE /\ called' = {}
     ELSE /\ ignored' = (checkOnCommand \/ Excluded(CommandChannels(asked.typed), asked.channel))
          /\ called' \in Asked(asked.channel)
  /\ UNCHANGED <<asked, info, command, outcome, reply>>
(* A module (anti-spam, filter) or the command's channels may have it ignored; not in private. *)
CheckChannel ==
  /\ step = "hooks" /\ step' = "permission"
  /\ IF asked.private THEN ignored' = FALSE /\ called' = {}
     ELSE /\ ignored' = (checkOnCommand \/ Excluded(CommandChannels(command), asked.channel))
          /\ called' \in Asked(asked.channel)
  /\ UNCHANGED <<asked, info, command, outcome, reply>>

CheckPermission ==
  /\ step = "permission"
  /\ IF UserCanUseCommand(command) THEN step' = "run" /\ UNCHANGED <<outcome, reply>>
     ELSE /\ step' = "done"
          /\ outcome' = IF Silently(command) THEN "silent" ELSE "refused"
          /\ reply' = IF Silently(command) THEN "none" ELSE "channel"
  /\ UNCHANGED <<asked, info, command, ignored, called>>

(* The command runs; an answer for the member alone goes to the channel when they accept none. *)
Run ==
  /\ step = "run" /\ step' = "done" /\ outcome' = "ran"
  /\ \/ reply' = "channel"
     \/ reply' = "none"
     \/ ~asked.private /\ reply' = "pm"
  /\ UNCHANGED <<asked, info, command, ignored, called>>

-----------------------------------------------------------------------------
(* The other events *)

(* Messages that are edited or deleted: release builds leave the debug channel alone. *)
MessageUpdate ==
  /\ step = "update" /\ step' = "done"
  /\ called' = IF asked.debugChannel \/ ~asked.author \/ asked.who = "self" THEN {} ELSE Hooks(asked.channel)
  /\ UNCHANGED <<asked, info, command, ignored, outcome, reply>>
MessageDelete ==
  /\ step = "delete" /\ step' = "done"
  /\ called' = IF asked.debugChannel THEN {} ELSE Hooks(asked.channel)
  /\ UNCHANGED <<asked, info, command, ignored, outcome, reply>>

(* A message that is no command, on a server. *)
MessageToModules ==
  /\ step = "message" /\ step' = "done"
  /\ called' = Hooks(asked.channel)
  /\ UNCHANGED <<asked, info, command, ignored, outcome, reply>>

(* Bans and roles of a server the bot is attached to. *)
GuildEvent ==
  /\ step \in {"ban", "unban", "roleDelete"} /\ step' = "done"
  /\ called' = IF asked.attached THEN Hooks("") ELSE {}
  /\ UNCHANGED <<asked, info, command, ignored, outcome, reply>>

(* The server is looked up as the channel of its ID, which only old servers have. *)
GuildUpdate ==
  /\ step = "guild" /\ step' = "done"
  /\ called' = IF asked.attached /\ asked.oldServer THEN Hooks("") ELSE {}
  /\ UNCHANGED <<asked, info, command, ignored, outcome, reply>>

PNext ==
  \/ FindServer \/ OnServer \/ ResolveAlias \/ Unknown \/ RequireSetup
  \/ CheckChannel \/ CheckPermission \/ Run
  \/ MessageUpdate \/ MessageDelete \/ MessageToModules \/ GuildEvent \/ GuildUpdate

PSpec == PInit /\ [][PNext]_pvars

-----------------------------------------------------------------------------
(* Properties *)

Meant == IF asked.typed = "p" THEN "pick" ELSE asked.typed
Special == asked.who \in {"owner", "self"} \/ (asked.who = "admin" /\ asked.cached)

(* What ConfigHelp promises of modules.commandroles, commandchannels, commanddisabled,        *)
(* modules.disabled and modules.channels, of a command however it was named and wherever it    *)
(* was sent: a disabled one runs for administrators and not for the bot; without a mapping     *)
(* everyone can run it and with one only its roles; channel lists keep out everyone but         *)
(* moderators and are the only thing that keeps a member's command silent besides a module;     *)
(* and a module hears of nothing while it is disabled or outside its channels.                  *)
RulesAreKept ==
  LET ran == outcome = "ran"
      ruled == info = "this" /\ Meant = asked.ruled
      plain == ~asked.restricted /\ ~asked.mainInstance
      listed == asked.commandChannels # {}
      here == asked.channel \in asked.commandChannels
      barred == ruled /\ ~asked.private /\ listed /\ ("!" \in asked.commandChannels <=> here)
  IN  step = "done" =>
        /\ (ran /\ ruled /\ asked.disabled) => (asked.who = "owner" \/ (asked.who = "admin" /\ asked.cached))
        /\ (ran /\ asked.restricted) => asked.who = "owner"
        /\ (ran /\ barred) => (Special \/ (asked.hasModRole /\ "mods" \in asked.roles))
        /\ (ran /\ ruled /\ asked.commandRoles = {"trusted"}) => (Special \/ "trusted" \in asked.roles)
        /\ (outcome = "silent" /\ asked.typed \in {"pick", "p"} /\ plain)
             => (barred \/ asked.hookIgnores # {} \/ (ruled /\ asked.disabled))
        /\ (outcome = "refused" /\ asked.typed \in {"pick", "p"} /\ plain)
             => (ruled /\ asked.commandRoles # {})
        /\ (outcome = "refused" /\ asked.who = "admin" /\ asked.cached) => asked.restricted
        /\ called \cap asked.disabledModules = {}
        /\ \A m \in called : (asked.kind \in {"command", "message", "update", "delete"}) =>
             (asked.moduleChannels[m] = {} \/ (asked.channel \in asked.moduleChannels[m]) # ("!" \in asked.moduleChannels[m]))
=============================================================================
