----------------------------- MODULE WordFilters -----------------------------
(***************************************************************************)
(* The filter and the witty module (filtermodule, wittymodule): words and   *)
(* triggers are part of the configuration, and compiled to regular          *)
(* expressions whenever a command changes them.  Messages are matched with  *)
(* the compiled ones.                                                       *)
(*                                                                          *)
(* !addfilter and !setfilter hold ConfigLock, the other commands hold       *)
(* nothing.  A regular expression is what it was compiled from.             *)
(***************************************************************************)
EXTENDS Integers, FiniteSets, FiniteSetsExt

CONSTANTS Editor,          (* goroutines of commands                          *)
          Filter, Word,    (* names of filters; words, also of messages       *)
          Broken,          (* words that are no regular expression            *)
          Room,            (* channels                                        *)
          Trigger,         (* triggers of the witty module                    *)
          Unclosed,        (* triggers that compile only among others, "a)(b" *)
          MaxEdits         (* bound: commands                                 *)

ASSUME FilterAssumption == Broken \subseteq Word \cup Trigger /\ Unclosed \subseteq Trigger /\ MaxEdits \in Nat

NoRegex == {}              (* nil; a compiled expression is a set of one      *)
Template == {"none", "around", "invalid"}

VARIABLES
  together,    (* several !addfilter at a time; otherwise one command after the other *)
  exists,      (* Filter.Filters: which filters there are                     *)
  words,       (* and the words of each                                       *)
  template,    (* Filter.Templates                                            *)
  excluded,    (* Filter.Channels                                             *)
  quiet,       (* Filter.Responses: filters whose response is "!"             *)
  filters,     (* FilterModule.filters: compiled, or NoRegex                  *)
  stored,      (* the same in the file                                        *)
  lock,        (* who holds ConfigLock                                        *)
  edit,        (* where each command stands                                   *)
  edits,       (* bound used up                                               *)
  stale,       (* history: filters whose template has changed since compiling *)
  wits,        (* Witty.Responses: the triggers                               *)
  storedWits,  (* the same in the file                                        *)
  wittyregex,  (* WittyModule.wittyregex                                      *)
  triggers,    (* the triggers of triggerregex and remarks                    *)
  tainted      (* history: a file with a rejected trigger has been loaded     *)

config == <<exists, words, template, excluded, quiet>>
witty == <<wits, storedWits, wittyregex, triggers, tainted>>
fvars == <<together, config, filters, stored, lock, edit, edits, stale, witty>>

Settings == [exists |-> exists, words |-> words, template |-> template, excluded |-> excluded, quiet |-> quiet]
Nobody == "nobody"
Resting == [at |-> "idle"]

FInit ==
  /\ together \in BOOLEAN
  /\ exists = IF together THEN Filter ELSE {}
  /\ words = [f \in Filter |-> {}]
  /\ template = [f \in Filter |-> "none"]
  /\ excluded = [f \in Filter |-> {}]
  /\ quiet = {} /\ filters = [f \in Filter |-> NoRegex]
  /\ stored = Settings
  /\ lock = Nobody /\ edit = [h \in Editor |-> Resting] /\ edits = 0 /\ stale = {}
  /\ wits = {} /\ storedWits = {} /\ wittyregex = NoRegex /\ triggers = {} /\ tainted = FALSE

Settled == \A h \in Editor : edit[h] = Resting

(* A command begins; r says how it goes on. *)
Begin(h, r) ==
  /\ edit[h] = Resting /\ edits < MaxEdits /\ edits' = edits + 1
  /\ edit' = [edit EXCEPT ![h] = r]

InTurn == ~together /\ Settled
Steps(f, w) == [at |-> "clear", filter |-> f, word |-> w]

-----------------------------------------------------------------------------
(* !setfilter, a new filter has no words; one without words is made anew. *)
SetFilter(h, f, silent, rooms) ==
  /\ InTurn /\ Begin(h, [at |-> "save"])
  /\ exists' = exists \cup {f}
  /\ quiet' = IF silent THEN quiet \cup {f} ELSE quiet \ {f}
  /\ excluded' = [excluded EXCEPT ![f] = rooms]
  /\ UNCHANGED <<together, words, template, filters, stored, lock, stale, witty>>

AddFilter(h, f, w) ==
  /\ InTurn \/ together
  /\ lock = Nobody
  /\ Begin(h, Steps(f, w))
  /\ f \in exists
  /\ lock' = h
  /\ words' = [words EXCEPT ![f] = @ \cup {w}]
  /\ UNCHANGED <<together, exists, template, excluded, quiet, filters, stored, stale, witty>>

RemoveFilter(h, f, w) ==
  /\ InTurn /\ Begin(h, Steps(f, w))
  /\ w \in words[f]
  /\ words' = [words EXCEPT ![f] = @ \ {w}]
  /\ UNCHANGED <<together, exists, template, excluded, quiet, filters, stored, lock, stale, witty>>

(* Everything but the filter's pressure is deleted. *)
DeleteFilter(h, f) ==
  /\ InTurn /\ Begin(h, Steps(f, CHOOSE w \in Word : TRUE))
  /\ f \in exists
  /\ exists' = exists \ {f}
  /\ words' = [words EXCEPT ![f] = {}]
  /\ template' = [template EXCEPT ![f] = "none"]
  /\ excluded' = [excluded EXCEPT ![f] = {}]
  /\ quiet' = quiet \ {f}
  /\ filters' = [filters EXCEPT ![f] = NoRegex]
  /\ UNCHANGED <<together, stored, lock, stale, witty>>

(* !setconfig filter.templates compiles nothing. *)
SetTemplate(h, f, t) ==
  /\ InTurn /\ Begin(h, [at |-> "save"])
  /\ template' = [template EXCEPT ![f] = t]
  /\ stale' = stale \cup {f}
  /\ UNCHANGED <<together, exists, words, excluded, quiet, filters, stored, lock, witty>>

(***************************************************************************)
(* UpdateRegex: first no expression at all, then the joined words inside    *)
(* the template, if there is anything to compile.                           *)
(***************************************************************************)
ClearRegex(h) ==
  /\ edit[h].at = "clear"
  /\ filters' = [filters EXCEPT ![edit[h].filter] = NoRegex]
  /\ edit' = [edit EXCEPT ![h].at = "compile"]
  /\ UNCHANGED <<together, config, stored, lock, edits, stale, witty>>

Compiles(f) == words[f] \cap Broken = {} /\ template[f] # "invalid"
RegexOf(f) ==
  IF (words[f] = {} /\ template[f] = "none") \/ ~Compiles(f) THEN NoRegex
  ELSE {[words |-> words[f], template |-> template[f]]}

Release(h) == lock' = IF lock = h THEN Nobody ELSE lock

(* Faulty variant: a word that is refused is taken back, but not compiled again. *)
CompileOnce(h) ==
  /\ edit[h].at = "compile"
  /\ LET f == edit[h].filter IN
       /\ filters' = [filters EXCEPT ![f] = RegexOf(f)]
       /\ words' = IF lock = h /\ ~Compiles(f) THEN [words EXCEPT ![f] = @ \ {edit[h].word}] ELSE words
       /\ edit' = [edit EXCEPT ![h] = [at |-> "save"]]
       /\ Release(h)
       /\ stale' = stale \ {f}
  /\ UNCHANGED <<together, exists, template, excluded, quiet, stored, edits, witty>>

(* !addfilter takes a word back that does not compile, and compiles again. *)
Compile(h) ==
  /\ edit[h].at = "compile"
  /\ LET f == edit[h].filter w == edit[h].word IN
       /\ filters' = [filters EXCEPT ![f] = RegexOf(f)]
       /\ stale' = stale \ {f}
       /\ IF lock = h /\ w \in words[f] /\ ~Compiles(f)
          THEN /\ words' = [words EXCEPT ![f] = @ \ {w}]
               /\ edit' = [edit EXCEPT ![h].at = "clear"]
               /\ UNCHANGED lock
          ELSE Release(h) /\ edit' = [edit EXCEPT ![h] = [at |-> "save"]] /\ UNCHANGED words
  /\ UNCHANGED <<together, exists, template, excluded, quiet, stored, edits, witty>>

(* SaveConfig, which may fail (GuildStores has its steps). *)
SaveFilters(h) ==
  /\ edit[h].at = "save"
  /\ stored' \in {Settings, stored}
  /\ edit' = [edit EXCEPT ![h] = Resting]
  /\ UNCHANGED <<together, config, filters, lock, edits, stale, witty>>

-----------------------------------------------------------------------------
(* regexp.Compile of all the triggers, then of each until one fails. *)
Alone(set) == set \cap (Broken \cup Unclosed) = {}
Joined(set) == set # {} /\ set \cap Broken = {}

UpdateWits(set) ==
  /\ wittyregex' = IF Joined(set) THEN {set} ELSE NoRegex
  /\ IF ~Joined(set) THEN triggers' = {}
     ELSE IF Alone(set) THEN triggers' = set
     ELSE triggers' \in SUBSET (set \ Unclosed)
Usable(set) == set = {} \/ (Joined(set) /\ Alone(set))

(* Faulty variant: after a trigger was refused the others are not compiled again. *)
AddWitOnce(t) ==
  /\ InTurn /\ edits < MaxEdits /\ edits' = edits + 1
  /\ storedWits' \in {wits \cup {t}, storedWits}
  /\ wits' = IF Usable(wits \cup {t}) THEN wits \cup {t} ELSE wits \ {t}
  /\ UpdateWits(wits \cup {t})
  /\ UNCHANGED <<together, config, filters, stored, lock, edit, stale, tainted>>

(* !addwit saves before it compiles: a trigger it refuses stays in the file. *)
AddWit(t) ==
  /\ InTurn /\ edits < MaxEdits /\ edits' = edits + 1
  /\ storedWits' \in {wits \cup {t}, storedWits}
  /\ wits' = IF Usable(wits \cup {t}) THEN wits \cup {t} ELSE wits \ {t}
  /\ UpdateWits(wits')
  /\ UNCHANGED <<together, config, filters, stored, lock, edit, stale, tainted>>

RemoveWit(t) ==
  /\ InTurn /\ edits < MaxEdits /\ edits' = edits + 1
  /\ t \in wits
  /\ wits' = wits \ {t} /\ storedWits' \in {wits', storedWits}
  /\ UpdateWits(wits')
  /\ UNCHANGED <<together, config, filters, stored, lock, edit, stale, tainted>>

(* A new process reads the file and compiles what it finds (both New). *)
Reload ==
  /\ InTurn
  /\ exists' = stored.exists /\ words' = stored.words /\ template' = stored.template
  /\ excluded' = stored.excluded /\ quiet' = stored.quiet
  /\ filters' = [f \in Filter |-> IF f \in exists' THEN RegexOf(f)' ELSE NoRegex]
  /\ stale' = {}
  /\ wits' = storedWits /\ UpdateWits(storedWits)
  /\ tainted' = ~Usable(storedWits)
  /\ UNCHANGED <<together, stored, lock, edit, edits, storedWits>>

FNext ==
  \/ \E h \in Editor, f \in Filter :
       \/ \E w \in Word : AddFilter(h, f, w) \/ RemoveFilter(h, f, w)
       \/ \E silent \in BOOLEAN, rooms \in SUBSET Room : SetFilter(h, f, silent, rooms)
       \/ \E t \in Template : SetTemplate(h, f, t)
       \/ DeleteFilter(h, f)
  \/ \E h \in Editor : ClearRegex(h) \/ Compile(h) \/ SaveFilters(h)
  \/ \E t \in Trigger : AddWit(t) \/ RemoveWit(t)
  \/ Reload

FSpec == FInit /\ [][FNext]_fvars

-----------------------------------------------------------------------------
(***************************************************************************)
(* matchFilter: the first filter that matches, in the order of a Go map,    *)
(* decides; "!" leaves the message.  A template without words matches the   *)
(* blanks around nothing, here no message of the set.                       *)
(***************************************************************************)
Matches(f, message, room) ==
  /\ room \notin excluded[f]
  /\ \E regex \in filters[f] : regex.words \cap message # {}

Verdicts(message, room) ==
  LET hit == {f \in Filter : Matches(f, message, room)}
  IN IF hit = {} THEN {"passes"} ELSE {IF f \in quiet THEN "pressure" ELSE "deleted" : f \in hit}

(* The same by the configuration. *)
Wanted(message, room) ==
  LET hit == {f \in Filter : words[f] \cap message # {} /\ room \notin excluded[f]}
  IN IF hit = {} THEN {"passes"} ELSE {IF f \in quiet THEN "pressure" ELSE "deleted" : f \in hit}

(***************************************************************************)
(* Between commands a message is dealt with as the configuration says:      *)
(* after a refused word, a deletion, a restart or !addfilter commands at    *)
(* the same time no filter is switched off and no removed word is left in   *)
(* force.  Except for templates set since, which wait for the next word.    *)
(***************************************************************************)
FiltersFollowConfig ==
  Settled /\ stale = {} /\ (\A f \in Filter : Compiles(f))
    => \A message \in SUBSET Word, room \in Room : Verdicts(message, room) = Wanted(message, room)

(***************************************************************************)
(* A trigger that is refused does not silence the others: OnMessageCreate   *)
(* answers to every trigger of the configuration, and to no other, unless   *)
(* the bot was restarted with the refused one in the file.                  *)
(***************************************************************************)
Answered == IF wittyregex = NoRegex THEN {} ELSE triggers
WitsKeepWorking == ~tainted => Answered = wits
=============================================================================
