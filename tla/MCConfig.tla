------------------------------- MODULE MCConfig -------------------------------
(* Instances for TLC of the modules about a server's configuration, the commands
   on it and the updates that change both: ConfigMigration, CommandDispatch,
   Settings, TagStore and Updater.  They work on different parts of the state; a
   behaviour explores one of them. *)
EXTENDS ConfigMigration, CommandDispatch, Settings, TagStore, Updater

CONSTANTS w1, w2, g1, g2, art, fun, i1, i2, r1, r2

(* ConfigMigration: a file of each version that a block tells from the next,
   with and without moderators, own restrictions, and aliases. *)
FilesOf(v) ==
  {[config |-> [version |-> v, modRole |-> IF v > 20 THEN m ELSE "", commandRoles |-> r,
                other |-> [t \in {"channels", "limits", "disabled"} |-> IF t = "limits" THEN {"autosilence"} ELSE {}],
                aliases |-> l, replaced |-> {}, raidSilence |-> IF v <= 26 THEN -9 ELSE 1, notify |-> "", lists |-> {},
                channels |-> ch, disabled |-> {"schedule"}, userRoles |-> {}],
    groups |-> IF v <= 13 THEN {"artists"} ELSE {},
    basicCollections |-> IF v <= 19 THEN {"bucket", "cute"} ELSE {},
    collections |-> IF v = 20 THEN {"bucket", "spoiler"} ELSE {},
    alertRole |-> IF v <= 20 THEN m ELSE "", autoSilence |-> IF v <= 26 THEN -2 ELSE 0, hasSilenceRole |-> v <= 30] :
   m \in {"", "mods"}, r \in {<< >>, [c \in {"autosilence", "createrole"} |-> "trusted"]},
   l \in {<< >>, [k \in {"as"} |-> <<"autosilence", "on">>], [k \in {"as"} |-> <<"autosilence">>]},
   ch \in {<< >>, [k \in {"schedule"} |-> "chat"]}}
OldFiles == UNION {FilesOf(v) : v \in {11, 13, 16, 19, 20, 22, 26, 28, 30}}

(* CommandDispatch: one event with all that its outcome depends on.  Sets of
   requests vary a few of the circumstances at a time. *)
Base == [kind |-> "command", private |-> FALSE, who |-> "member", cached |-> TRUE, reachable |-> TRUE, roles |-> {},
         typed |-> "pick", ruled |-> "pick", restricted |-> FALSE, mainInstance |-> FALSE, mainGuild |-> FALSE,
         independent |-> FALSE, hasModRole |-> TRUE, disabled |-> FALSE, commandRoles |-> {}, commandChannels |-> {},
         setupDone |-> TRUE, ignoreInvalid |-> FALSE, hookIgnores |-> {}, disabledModules |-> {},
         moduleChannels |-> [m \in {"filter", "spam"} |-> {}], channel |-> "here", dbUp |-> TRUE, default |-> "none",
         memberships |-> 1, debugChannel |-> FALSE, author |-> TRUE, attached |-> TRUE, oldServer |-> FALSE]
By(r) ==
  {[r EXCEPT !.reachable = k, !.roles = s] : k \in BOOLEAN, s \in SUBSET {"mods", "trusted"}}
  \cup {[r EXCEPT !.who = w, !.cached = k] : w \in {"admin", "self", "owner"}, k \in BOOLEAN}
Rules ==
  {[Base EXCEPT !.typed = t, !.disabled = d, !.commandRoles = cr, !.commandChannels = cc, !.hasModRole = h] :
     t \in {"pick", "p"}, d \in BOOLEAN, cr \in {{}, {"trusted"}, {"!", "trusted"}, {"!"}},
     cc \in {{}, {"here"}, {"there"}, {"!", "here"}, {"!", "there"}}, h \in BOOLEAN}
  \cup {[Base EXCEPT !.restricted = x, !.mainInstance = ~x, !.mainGuild = g] : x \in BOOLEAN, g \in BOOLEAN}
OnlySpam(c) == [m \in {"filter", "spam"} |-> IF m = "spam" THEN c ELSE {}]
ChannelLists == {{}, {"here"}, {"!", "here"}}
Hooked ==
  {[Base EXCEPT !.hookIgnores = i, !.disabledModules = d, !.moduleChannels = OnlySpam(c), !.typed = t,
                !.ignoreInvalid = n, !.setupDone = u, !.who = w] :
     t \in {"pick", "setup", "blank", "nonsense"}, i \in SUBSET {"filter", "spam"}, d \in {{}, {"spam"}},
     c \in ChannelLists, w \in {"member", "self"}, n \in BOOLEAN, u \in BOOLEAN}
Private ==
  {[Base EXCEPT !.private = TRUE, !.typed = t, !.independent = i, !.dbUp = d, !.default = f, !.memberships = n,
                !.commandChannels = {"there"}, !.commandRoles = q, !.disabled = x, !.who = w] :
     t \in {"pick", "p", "nonsense"}, i \in BOOLEAN, d \in BOOLEAN, f \in {"this", "none", "left"}, n \in 0..2,
     q \in {{}, {"trusted"}}, x \in BOOLEAN, w \in {"member", "admin"}}
AllRequests == UNION {By(r) : r \in Rules} \cup Private \cup Hooked
AllEvents ==
  {[Base EXCEPT !.kind = k, !.disabledModules = d, !.moduleChannels = OnlySpam(c), !.debugChannel = g, !.author = a,
                !.who = w, !.attached = u, !.oldServer = g] :
     k \in {"message", "update", "delete", "ban", "unban", "roleDelete", "guild"},
     d \in {{}, {"spam"}}, c \in ChannelLists, g \in BOOLEAN, a \in BOOLEAN, w \in {"member", "self"}, u \in BOOLEAN}

(* Settings: an option of every kind; "channels" is the name of two. *)
Categories == [modules |-> {"channels", "commandlimits", "commandroles"}, filter |-> {"channels", "responses"},
               basic |-> {"prefix", "importable", "freechannels"}]
TypeOf ==
  [o \in UNION {{c} \X Categories[c] : c \in DOMAIN Categories} |->
     CASE o[2] = "channels" -> [kind |-> "maplist", key |-> "string", value |-> "channel"]
       [] o[2] = "commandroles" -> [kind |-> "maplist", key |-> "command", value |-> "role"]
       [] o[2] = "commandlimits" -> [kind |-> "map", key |-> "command", value |-> "number"]
       [] o[2] = "responses" -> [kind |-> "map", key |-> "string", value |-> "string"]
       [] o[2] = "prefix" -> [kind |-> "scalar", key |-> "", value |-> "string"]
       [] o[2] = "importable" -> [kind |-> "flag", key |-> "", value |-> "bool"]
       [] OTHER -> [kind |-> "list", key |-> "", value |-> "channel"]]
DefaultOf ==
  [o \in DOMAIN TypeOf |-> CASE TypeOf[o].kind = "scalar" -> <<"!">> [] TypeOf[o].kind = "flag" -> <<"false">>
                             [] TypeOf[o].kind = "list" -> {} [] OTHER -> << >>]
LowerCase == [w \in {"", "Pick", "pick", "7", "chat", "mods", "!", "true", NoWord} |-> IF w = "Pick" THEN "pick" ELSE w]
ValidWords == [command |-> {"pick"}, number |-> {"7"}, channel |-> {"chat", "!"}, role |-> {"mods", "!"}]
Names == {<<"prefix">>, <<"basic", "importable">>, <<"freechannels">>, <<"modules", "channels">>, <<"channels">>,
          <<"filter", "responses", "pick">>, <<"commandlimits">>, <<"commandroles">>, <<"filter">>, <<"nothing">>}
Arguments == {<< >>, <<"true">>, <<"Pick", "mods", "!">>, <<"pick", "mods", "chat">>}
             \cup UNION {[1..n -> {NoWord, "Pick", "7", "chat"}] : n \in 1..2}
AllSettings == [name : Names, args : Arguments]

(* TagStore: two servers, one with both tags; queries with and without parentheses. *)
TwoWorkers == {w1, w2}
TwoServers == {g1, g2}
TwoTags == {art, fun}
TwoContents == {i1, i2}
OneServer == {g1}
FirstTags == {[id |-> 1, name |-> art, guild |-> g1], [id |-> 2, name |-> fun, guild |-> g1], [id |-> 3, name |-> art, guild |-> g2]}
T(n) == [neg |-> FALSE, tags |-> {n}]
Not(f) == [f EXCEPT !.neg = ~@]
Either == [neg |-> FALSE, sub |-> << <<T(art)>>, <<T(fun)>> >>]
OnlyFun == [neg |-> FALSE, sub |-> << <<T(fun), Not(T(art))>> >>]
FewQueries ==
  {<< <<T(art)>> >>, << <<Not(T(art))>> >>, << <<T(art), T(fun)>> >>, << <<T(art)>>, <<T(fun)>> >>, << <<T(art)>>, <<OnlyFun>> >>,
   << <<OnlyFun>>, <<T(art)>> >>, << <<Either, Not(T(fun))>> >>, << <<Not(Either)>> >>, << <<Not(T(art))>>, <<Not(T(fun))>> >>,
   << <<Not(OnlyFun)>>, <<T(art)>> >>, << <<T(art), T(fun)>>, <<T(art)>> >>}

(* Updater: Discord sends Ready a second time. *)
TwoReadys == {r1, r2}

Alike == UNION {Permutations(S) : S \in {TwoWorkers, TwoContents, TwoReadys}}

-----------------------------------------------------------------------------
VARIABLE part

InMigration(A) == part = "migration" /\ A /\ UNCHANGED <<part, pvars, cvars, tvars, uvars>>
InDispatch(A) == part = "dispatch" /\ A /\ UNCHANGED <<part, cmvars, cvars, tvars, uvars>>
InSettings(A) == part = "settings" /\ A /\ UNCHANGED <<part, cmvars, pvars, tvars, uvars>>
InTags(A) == part = "tags" /\ A /\ UNCHANGED <<part, cmvars, pvars, cvars, uvars>>
InUpdater(A) == part = "updater" /\ A /\ UNCHANGED <<part, cmvars, pvars, cvars, tvars>>

(* The parts that are not explored stay in one of their initial states. *)
Init ==
  /\ part \in {"migration", "dispatch", "settings", "tags", "updater"}
  /\ part = "migration" \/ disk = CHOOSE f \in Files : TRUE
  /\ part = "dispatch" \/ asked = Base
  /\ CMInit /\ CInit /\ TInit /\ PInit /\ UInit

Next ==
  \/ InMigration(Load) \/ InMigration(MoveReminders) \/ InMigration(MiddleBlocks) \/ InMigration(LateBlocks)
  \/ InMigration(DropSilenceRole) \/ InMigration(Finish) \/ InMigration(Restart)
  \/ \E g \in old.groups : InMigration(CreateGroupRole(g))
  \/ \E k \in old.basicCollections : InMigration(ImportCollection(k))
  \/ \E c \in {"createrole", "wipe"} : InMigration(Choose(c))
  \/ InDispatch(FindServer) \/ InDispatch(OnServer) \/ InDispatch(ResolveAlias) \/ InDispatch(Unknown)
  \/ InDispatch(RequireSetup) \/ InDispatch(CheckChannel) \/ InDispatch(CheckPermission) \/ InDispatch(Run)
  \/ InDispatch(MessageUpdate) \/ InDispatch(MessageDelete) \/ InDispatch(MessageToModules)
  \/ InDispatch(GuildEvent) \/ InDispatch(GuildUpdate)
  \/ \E r \in Typed : InSettings(Refused(r)) \/ InSettings(SetConfig(r))
  \/ InSettings(SaveConfig) \/ InSettings(Reboot)
  \/ \E w \in Worker :
       \/ \E g \in Guild, n \in TagName : InTags(New(w, g, n)) \/ InTags(Delete(w, g, n))
       \/ \E g, other \in Guild, n, m \in TagName : InTags(Import(w, g, other, n, m))
       \/ \E g \in Guild, names \in SUBSET TagName \ {{}}, c \in Content :
            InTags(AddTags(w, g, names, c)) \/ InTags(RemoveTags(w, g, names, c))
       \/ \E g \in Guild, c \in Content : InTags(RemoveAll(w, g, c))
       \/ \E g \in Guild : InTags(RemoveGuildTags(w, g))
       \/ InTags(ImportTag(w)) \/ InTags(AddItem(w)) \/ InTags(InsertItem(w)) \/ InTags(AddTag(w)) \/ InTags(RemoveItem(w))
       \/ InTags(RemoveTag(w)) \/ InTags(DeleteTag(w)) \/ InTags(CallRemoveGuild(w))
  \/ \E h \in ReadyHook :
       \/ InUpdater(OnReady(h)) \/ InUpdater(SetAside(h)) \/ InUpdater(Restore(h))
       \/ \E success \in BOOLEAN : InUpdater(BuildUpdater(h, success))
       \/ \E p \in Platform, success \in BOOLEAN :
            \/ InUpdater(Compile(h, p, success)) \/ InUpdater(ReadHash(h, p, success)) \/ InUpdater(WriteHash(h, p, success))
            \/ InUpdater(Create(h, p, success)) \/ InUpdater(Open(h, p, success)) \/ InUpdater(Copy(h, p, success))
  \/ InUpdater(Release) \/ InUpdater(StartSweetie) \/ InUpdater(CheckForUpdate)
  \/ InUpdater(Shutdown) \/ InUpdater(Killed) \/ InUpdater(StartUpdater) \/ InUpdater(UpdaterKilled)
  \/ \E success \in BOOLEAN : InUpdater(Pull(success)) \/ InUpdater(BuildSweetie(success))

allvars == <<part, cmvars, pvars, cvars, tvars, uvars>>

Spec == Init /\ [][Next]_allvars
==============================================================================
