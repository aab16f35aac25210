------------------------------- MODULE Settings -------------------------------
(***************************************************************************)
(* !setconfig and !getconfig (ConfigModule.go, BotConfig.go): the option a  *)
(* name means, what each kind of option takes, and what is saved of it.     *)
(* Options and categories are found by reflection; here Category and Type   *)
(* say what there is.  A text is a sequence of words.  A save may be        *)
(* refused, or tear the file; saves that overlap are in GuildStores.        *)
(***************************************************************************)
EXTENDS Integers, Sequences, FiniteSets

CONSTANTS Category,    (* category |-> the names of its options, in lower case    *)
          Type,        (* <<category, option>> |-> [kind, key, value]             *)
          Default,     (* <<category, option>> |-> what it is at first            *)
          Lower,       (* strings.ToLower, on words                               *)
          Valid,       (* type |-> the words that are a number, a command...      *)
          Typed,       (* what administrators type: [name, args]                  *)
          MaxSettings  (* bound: commands                                         *)

Option == UNION {{c} \X Category[c] : c \in DOMAIN Category}

NoWord == "\"\""         (* what is typed for an empty word *)

ASSUME SettingsAssumption ==
  /\ DOMAIN Type = Option /\ Default = [o \in Option |-> Default[o]]
  /\ \A o \in Option : Type[o].kind \in {"scalar", "flag", "list", "map", "maplist"}
  /\ \A r \in Typed : r.name \in Seq(STRING) \ {<< >>} /\ r.args \in Seq(STRING)
  /\ \A w \in DOMAIN Lower : Lower[w] \in DOMAIN Lower /\ Lower[Lower[w]] = Lower[w] /\ (Lower[w] = NoWord => w = NoWord)
  /\ \A r \in Typed : \A i \in DOMAIN r.args : r.args[i] \in DOMAIN Lower
  /\ "" \in DOMAIN Lower
  /\ MaxSettings \in Nat

VARIABLES
  options,   (* info.Config                                                       *)
  kept,      (* what a start makes of the guild's .json                           *)
  request,   (* the last !setconfig                                               *)
  answer,    (* what it is told: "none", "set", "deleted" or "error"              *)
  saving,    (* SaveConfig is to come                                             *)
  earlier,   (* options before it                                                 *)
  unsaved,   (* history: the last save failed, and nothing was read since         *)
  settings   (* bound used up                                                     *)

cvars == <<options, kept, request, answer, saving, earlier, unsaved, settings>>

CInit ==
  /\ options = Default /\ kept = Default
  /\ request = [name |-> << >>, args |-> << >>] /\ answer = "none" /\ saving = FALSE
  /\ earlier = Default /\ unsaved = FALSE /\ settings = 0

-----------------------------------------------------------------------------
Lowered(words) == [i \in DOMAIN words |-> Lower[words[i]]]

(* ParseArguments takes quotes off; what is given as a scalar, a flag or the value of a
   map is the rest of the message as it was typed. *)
Tokens(words) == [i \in DOMAIN words |-> IF words[i] = NoWord THEN "" ELSE words[i]]
KeyOf(args) == Lowered(Tokens(<<args[1]>>))

(* Which full name a short one stands for; {} when it could be several. *)
FixRequest(name) ==
  LET homes == {c \in DOMAIN Category : name[1] \in Category[c]}
  IN IF name[1] \in DOMAIN Category \/ homes = {} THEN {name}
     ELSE {<<c>> \o name : c \in {d \in homes : homes = {d}}}

IsOption(name) == Len(name) > 1 /\ <<name[1], name[2]>> \in Option

(* The value a text has in a type, {} when it has none; only commands lose their case. *)
ValueOf(type, words) ==
  CASE type = "string" -> {IF words = <<NoWord>> THEN << >> ELSE words}
    [] type = "command" -> {Lowered(words)} \cap {<<w>> : w \in Valid[type]}
    [] OTHER -> {words} \cap {<<w>> : w \in Valid[type]}

Put(f, k, v) == [x \in DOMAIN f \cup {k} |-> IF x = k THEN v ELSE f[x]]
Drop1(f, k) == [x \in DOMAIN f \ {k} |-> f[x]]

(* The words of a list up to the first without a meaning; one empty word means none. *)
Accepted(type, words) ==
  IF words = << >> \/ words[1] = "" THEN {}
  ELSE UNION {ValueOf(type, <<words[i]>>) : i \in {j \in DOMAIN words : \A k \in 1..j : ValueOf(type, <<words[k]>>) # {}}}
AllValid(type, words) ==
  words = << >> \/ words[1] = "" \/ \A i \in DOMAIN words : ValueOf(type, <<words[i]>>) # {}

-----------------------------------------------------------------------------
(* What SetConfig makes of an option: [value, said] *)

SetScalar(o, args) ==
  LET v == IF Type[o].kind = "flag" THEN {Lowered(args)} \cap {<<"true">>, <<"false">>} ELSE ValueOf(Type[o].value, args)
  IN IF v = {} THEN [value |-> options[o], said |-> "error"]
     ELSE [value |-> CHOOSE x \in v : TRUE, said |-> "set"]

(* The list is emptied before its new values are looked at. *)
SetConfigList(o, args) ==
  [value |-> Accepted(Type[o].value, Tokens(args)), said |-> IF AllValid(Type[o].value, Tokens(args)) THEN "set" ELSE "error"]

(* Without a value the key goes; the reply is the same whether it was there. *)
SetConfigKeyValue(o, args) ==
  LET keys == ValueOf(Type[o].key, KeyOf(args))
      values == ValueOf(Type[o].value, Tail(args))
  IN IF keys = {} THEN [value |-> options[o], said |-> "error"]
     ELSE LET k == CHOOSE x \in keys : TRUE
          IN CASE Len(args) = 1 -> [value |-> Drop1(options[o], k), said |-> "deleted"]
               [] Len(args) > 1 /\ values = {} -> [value |-> options[o], said |-> "error"]
               [] OTHER -> [value |-> Put(options[o], k, CHOOSE v \in values : TRUE), said |-> "set"]

(* A bug a change could bring: the key's list is filled where it is. *)
SetConfigMapListInPlace(o, args) ==
  LET keys == ValueOf(Type[o].key, KeyOf(args))
      k == CHOOSE x \in keys : TRUE
      values == Tokens(Tail(args))
  IN CASE keys = {} \/ KeyOf(args) = <<"">> -> [value |-> options[o], said |-> "error"]
       [] keys # {} /\ KeyOf(args) # <<"">> /\ Len(args) = 1 -> [value |-> Drop1(options[o], k), said |-> "deleted"]
       [] OTHER -> [value |-> Put(options[o], k, Accepted(Type[o].value, values)),
                    said |-> IF AllValid(Type[o].value, values) THEN "set" ELSE "error"]

(* The new list is made beside the old one and takes its place when it is whole.  Other
   than in a map, a key cannot be empty. *)
SetConfigMapList(o, args) ==
  LET keys == ValueOf(Type[o].key, KeyOf(args))
      k == CHOOSE x \in keys : TRUE
      values == Tokens(Tail(args))
      bad == keys = {} \/ KeyOf(args) = <<"">> \/ ~AllValid(Type[o].value, values)
  IN CASE bad -> [value |-> options[o], said |-> "error"]
       [] ~bad /\ Len(args) = 1 -> [value |-> Drop1(options[o], k), said |-> "deleted"]
       [] OTHER -> [value |-> Put(options[o], k, Accepted(Type[o].value, values)), said |-> "set"]

Changed(o, args) ==
  CASE Type[o].kind \in {"scalar", "flag"} -> SetScalar(o, args)
    [] Type[o].kind = "list" -> SetConfigList(o, args)
    [] Type[o].kind = "map" -> SetConfigKeyValue(o, args)
    [] Type[o].kind = "maplist" -> SetConfigMapList(o, args)

-----------------------------------------------------------------------------
BeginSetting(r) ==
  /\ ~saving /\ settings < MaxSettings
  /\ settings' = settings + 1 /\ request' = r /\ earlier' = options

(* No value, or a name with several meanings: the command ends before it saves. *)
Refused(r) ==
  /\ BeginSetting(r)
  /\ r.args = << >> \/ FixRequest(r.name) = {}
  /\ answer' = "error" /\ UNCHANGED <<options, kept, saving, unsaved>>

(* The third part of a name is dropped: "filter.responses.spam" is "filter.responses".
   Whatever SetConfig says, the configuration is saved. *)
SetConfig(r) ==
  /\ BeginSetting(r)
  /\ r.args # << >>
  /\ \E name \in FixRequest(r.name) :
       LET o == <<name[1], name[2]>>
           new == Changed(o, r.args)
       IN IF IsOption(name) THEN options' = [options EXCEPT ![o] = new.value] /\ answer' = new.said
          ELSE answer' = "error" /\ UNCHANGED options
  /\ saving' = TRUE /\ UNCHANGED <<kept, unsaved>>

(* The error is for the log: too large or not to be marshalled, nothing is written; what
   WriteFile leaves when it fails does not parse, and the next start has the defaults. *)
SaveConfig ==
  /\ saving /\ saving' = FALSE
  /\ \/ kept' = options /\ unsaved' = FALSE
     \/ kept' \in {kept, Default} /\ unsaved' = TRUE
  /\ UNCHANGED <<options, request, answer, earlier, settings>>

(* The bot stops and reads the file when it is back. *)
Reboot ==
  /\ options # kept
  /\ options' = kept /\ saving' = FALSE /\ unsaved' = FALSE
  /\ answer' = "none"
  /\ UNCHANGED <<kept, request, earlier, settings>>

CNext == (\E r \in Typed : Refused(r) \/ SetConfig(r)) \/ SaveConfig \/ Reboot

CSpec == CInit /\ [][CNext]_cvars

-----------------------------------------------------------------------------
(* !getconfig <name> [key]: the value, or "not found"; a key given apart from
   the name is taken as it is. *)
Shown(name, key) ==
  LET full == CHOOSE n \in FixRequest(name) : TRUE
      o == <<full[1], full[2]>>
      k == IF Len(full) > 2 THEN <<full[3]>> ELSE key
  IN CASE k = << >> -> [found |-> TRUE, value |-> options[o]]
       [] k # << >> /\ k \in DOMAIN options[o] -> [found |-> TRUE, value |-> options[o][k]]
       [] OTHER -> [found |-> FALSE]

(* TRUE for a request that got as far as SetConfig and named an option. *)
Named == Len(request.name) > 0 /\ request.args # << >> /\ \E n \in FixRequest(request.name) : IsOption(n)
Target == LET n == CHOOSE m \in FixRequest(request.name) : TRUE IN <<n[1], n[2]>>
RequestKey == KeyOf(request.args)

(* What was typed, as a value: a command and a flag in lower case, one empty word as no
   text, the words of a list one by one unless it is emptied, anything else as it is. *)
RequestMeans ==
  LET type == Type[Target].value
      words == IF Type[Target].kind \in {"map", "maplist"} THEN Tail(request.args) ELSE request.args
      each == Tokens(words)
  IN IF Type[Target].kind \in {"list", "maplist"}
     THEN UNION {ValueOf(type, <<each[i]>>) : i \in {j \in DOMAIN each : each[1] # ""}}
     ELSE IF Type[Target].kind = "flag" \/ type = "command" THEN Lowered(words)
     ELSE IF type = "string" /\ words = <<NoWord>> THEN << >>
     ELSE words

(* What !getconfig then says of the option, or of the key in it. *)
ShownBack == Shown(Target, IF Type[Target].kind \in {"map", "maplist"} THEN RequestKey ELSE << >>)

(* What an administrator may rely on, however the option is kept: only the
   option the request names changes, and of a map only the key; what was
   accepted is what !getconfig shows, as it was typed; a key that was deleted is
   gone; a request that was rejected leaves what was there -- of every kind but
   a list.  The next start reads all this, unless the last save failed. *)
SettingsReadBack ==
  /\ \A o \in Option : ~(Named /\ o = Target) /\ answer # "none" => options[o] = earlier[o]
  /\ Named /\ answer # "none" =>
       LET kind == Type[Target].kind
       IN /\ kind \in {"map", "maplist"} =>
               \A k \in (DOMAIN options[Target] \cup DOMAIN earlier[Target]) \ {RequestKey} :
                 /\ k \in DOMAIN options[Target] \cap DOMAIN earlier[Target]
                 /\ options[Target][k] = earlier[Target][k]
          /\ answer = "error" /\ kind # "list" => options = earlier
          /\ answer = "deleted" => ~ShownBack.found
          /\ answer = "set" => ShownBack = [found |-> TRUE, value |-> RequestMeans]
  /\ ~saving /\ ~unsaved => kept = options
==============================================================================
