----------------------------- MODULE GuildStores -----------------------------
(***************************************************************************)
(* What a guild's commands keep in its configuration: the bucket, counters, *)
(* quotes, status lines and user-assignable roles, and !setup, which starts *)
(* it all over.  A command checks, changes the configuration in memory and  *)
(* calls SaveConfig (GuildInfo.go): marshal, open and truncate the file,    *)
(* write it.  Any of that may fail, and no command looks at the error.      *)
(*                                                                          *)
(* Commands are goroutines without a lock between them.  The roles are      *)
(* Discord's: the bot hears of a deleted one by an event.                   *)
(***************************************************************************)
EXTENDS Integers, Sequences, SequencesExt, FiniteSets

CONSTANTS Caller,                     (* goroutines of commands                *)
          Item, Name, User, Role,     (* of the bucket, of counters, of quotes *)
          MaxItems,                   (* Bucket.MaxItems                       *)
          MaxHP,                      (* bound: of a monster                   *)
          MaxValue, MaxQuotes,        (* bounds: of counters, of quotes        *)
          Groups,                     (* the stores explored one by one        *)
          MaxCommands, MaxByHand      (* bounds: commands; what else happens   *)

Store == {"bucket", "counters", "quotes", "roles", "setup"}

ASSUME StoresAssumption ==
  /\ {MaxItems, MaxHP, MaxValue, MaxQuotes, MaxCommands, MaxByHand} \subseteq Nat \ {0}
  /\ Groups \subseteq SUBSET Store

VARIABLES
  stores,      (* what this behaviour is about, and whether in turn           *)
  mem,         (* info.Config                                                 *)
  file,        (* what the guild's .json was last given                       *)
  condition,   (* of the .json: "whole", "empty" or "garbled"                 *)
  call,        (* where each command stands                                   *)
  monster,     (* fightCommand: hit points of the monster, 0 without one      *)
  server,      (* Discord's roles                                             *)
  deletions,   (* GUILD_ROLE_DELETE events on their way                       *)
  joined,      (* the roles of a member                                       *)
  spent,       (* bounds used up: commands, by hand                           *)
  overlapped,  (* history: two commands were saving at a time                 *)
  unsaved,     (* history: the latest SaveConfig failed, or there was no file to read *)
  abandoned,   (* history: !setup has stopped halfway                         *)
  cut          (* history: a process ended with a save or an event to come, or unsaved *)

json == <<file, condition>>
gvars == <<stores, mem, json, unsaved, call, monster, server, deletions, joined, spent, overlapped, abandoned, cut>>
discord == <<server, deletions, joined>>

None == 0
Empty == [items |-> {}, counters |-> << >>, quotes |-> [u \in User |-> << >>], lines |-> {},
          roles |-> {}, modRole |-> None, done |-> FALSE]

GInit ==
  /\ stores \in [about : Groups, inTurn : BOOLEAN]
  /\ mem = [Empty EXCEPT !.counters = [n \in {} |-> 0], !.done = TRUE] /\ file = mem /\ condition = "whole"
  /\ call = [c \in Caller |-> [at |-> "idle"]]
  /\ monster = 0
  /\ server = Role /\ deletions = {} /\ joined = {}
  /\ spent = [commands |-> 0, byHand |-> 0]
  /\ overlapped = FALSE /\ unsaved = FALSE /\ abandoned = FALSE /\ cut = FALSE

NoCommand == \A c \in Caller : call[c].at = "idle"

(* A command of the store begins; before !setup has been run there is no other. *)
Call(c, store) ==
  /\ store \in stores.about /\ (store = "setup" \/ mem.done)
  /\ call[c].at = "idle" /\ (stores.inTurn => NoCommand)
  /\ spent.commands < MaxCommands
  /\ spent' = [spent EXCEPT !.commands = @ + 1]

(* It changes the configuration and saves; later: what it does after that. *)
SaveAndThen(c, new, later) ==
  /\ mem' = new
  /\ call' = [call EXCEPT ![c] = [at |-> "marshal", later |-> later]]
  /\ overlapped' = (overlapped \/ \E d \in Caller \ {c} : call[d].at # "idle")
Save(c, new) == SaveAndThen(c, new, {})

(* The command changes nothing of the configuration. *)
NoSave == UNCHANGED <<mem, call, overlapped>>

-----------------------------------------------------------------------------
(* SaveConfig returns, with an error or without: a full bucket is given something. *)
GoOn(c) ==
  IF call[c].later = {} THEN call' = [call EXCEPT ![c] = [at |-> "idle"]] /\ UNCHANGED mem
  ELSE /\ mem' = [mem EXCEPT !.items = @ \cup call[c].later]
       /\ call' = [call EXCEPT ![c] = [at |-> "marshal", later |-> {}]]

Fail(c) == unsaved' = TRUE /\ GoOn(c)

(* There is no JSON for it (a NaN), or more than MaxConfigSize. *)
Marshal(c) ==
  /\ call[c].at = "marshal"
  /\ \/ /\ call' = [call EXCEPT ![c] = [at |-> "open", data |-> mem, later |-> call[c].later]]
        /\ UNCHANGED <<mem, unsaved>>
     \/ Fail(c)
  /\ UNCHANGED <<stores, json, monster, discord, spent, overlapped, abandoned, cut>>

(* WriteFile truncates what it opens. *)
Open(c) ==
  /\ call[c].at = "open"
  /\ \/ condition' = "empty" /\ call' = [call EXCEPT ![c].at = "write"] /\ UNCHANGED <<mem, unsaved>>
     \/ UNCHANGED condition /\ Fail(c)
  /\ UNCHANGED <<stores, file, monster, discord, spent, overlapped, abandoned, cut>>

(* It may overwrite what another command has written meanwhile, of another length. *)
Written(c) ==
  /\ file' = call[c].data /\ unsaved' = FALSE
  /\ condition' \in IF condition = "empty" THEN {"whole"} ELSE {"whole", "garbled"}

WriteFails(c) == condition' \in {condition, "garbled"} /\ UNCHANGED file

(* Faulty variant: what a full bucket is given is kept without another save. *)
WriteOnce(c) ==
  /\ call[c].at = "write"
  /\ \/ Written(c)
     \/ WriteFails(c) /\ unsaved' = TRUE
  /\ mem' = [mem EXCEPT !.items = @ \cup call[c].later]
  /\ call' = [call EXCEPT ![c] = [at |-> "idle"]]
  /\ UNCHANGED <<stores, monster, discord, spent, overlapped, abandoned, cut>>

Write(c) ==
  /\ call[c].at = "write"
  /\ \/ Written(c) /\ GoOn(c)
     \/ WriteFails(c) /\ Fail(c)
  /\ UNCHANGED <<stores, monster, discord, spent, overlapped, abandoned, cut>>

-----------------------------------------------------------------------------
(* The bucket: something new pushes something out when the bucket is full,
   which is saved twice (BucketDropRandom). *)
Give(c, i) ==
  /\ Call(c, "bucket")
  /\ i \notin mem.items
  /\ IF Cardinality(mem.items) < MaxItems THEN Save(c, [mem EXCEPT !.items = @ \cup {i}])
     ELSE \E dropped \in mem.items : SaveAndThen(c, [mem EXCEPT !.items = @ \ {dropped}], {i})
  /\ UNCHANGED <<stores, json, unsaved, monster, discord, abandoned, cut>>

(* By name, or one at random. *)
Drop(c, i) ==
  /\ Call(c, "bucket")
  /\ i \in mem.items
  /\ Save(c, [mem EXCEPT !.items = @ \ {i}])
  /\ UNCHANGED <<stores, json, unsaved, monster, discord, abandoned, cut>>

(* The first !fight finds a monster, the others hit it; one in seven throws a thing. *)
Engage(c) ==
  /\ Call(c, "bucket") /\ NoSave
  /\ mem.items # {} /\ monster = 0
  /\ monster' = MaxHP
  /\ UNCHANGED <<stores, json, unsaved, discord, abandoned, cut>>

Fight(c) ==
  /\ Call(c, "bucket")
  /\ mem.items # {} /\ monster > 0
  /\ \E damage \in 1..2 : monster' = IF damage >= monster THEN 0 ELSE monster - damage
  /\ \/ NoSave
     \/ \E thrown \in mem.items : Save(c, [mem EXCEPT !.items = @ \ {thrown}])
  /\ UNCHANGED <<stores, json, unsaved, discord, abandoned, cut>>

-----------------------------------------------------------------------------
Counters == mem.counters

AddCounter(c, n) ==
  /\ Call(c, "counters")
  /\ n \notin DOMAIN Counters
  /\ \E v \in -1..1 : Save(c, [mem EXCEPT !.counters = [m \in DOMAIN @ \cup {n} |-> IF m = n THEN v ELSE @[m]]])
  /\ UNCHANGED <<stores, json, unsaved, monster, discord, abandoned, cut>>

RemoveCounter(c, n) ==
  /\ Call(c, "counters")
  /\ n \in DOMAIN Counters
  /\ Save(c, [mem EXCEPT !.counters = [m \in DOMAIN @ \ {n} |-> @[m]]])
  /\ UNCHANGED <<stores, json, unsaved, monster, discord, abandoned, cut>>

Increment(c, n) ==
  /\ Call(c, "counters")
  /\ n \in DOMAIN Counters /\ Counters[n] < MaxValue
  /\ Save(c, [mem EXCEPT !.counters[n] = @ + 1])
  /\ UNCHANGED <<stores, json, unsaved, monster, discord, abandoned, cut>>

Decrement(c, n) ==
  /\ Call(c, "counters")
  /\ n \in DOMAIN Counters /\ Counters[n] > -MaxValue
  /\ Save(c, [mem EXCEPT !.counters[n] = @ - 1])
  /\ UNCHANGED <<stores, json, unsaved, monster, discord, abandoned, cut>>

(* !addstatus and !removestatus, from the main server. *)
AddStatus(c, line) ==
  /\ Call(c, "counters")
  /\ line \notin mem.lines
  /\ Save(c, [mem EXCEPT !.lines = @ \cup {line}])
  /\ UNCHANGED <<stores, json, unsaved, monster, discord, abandoned, cut>>

RemoveStatus(c, line) ==
  /\ Call(c, "counters")
  /\ line \in mem.lines
  /\ Save(c, [mem EXCEPT !.lines = @ \ {line}])
  /\ UNCHANGED <<stores, json, unsaved, monster, discord, abandoned, cut>>

-----------------------------------------------------------------------------
AddQuote(c, u, text) ==
  /\ Call(c, "quotes")
  /\ Len(mem.quotes[u]) < MaxQuotes
  /\ Save(c, [mem EXCEPT !.quotes[u] = Append(@, text)])
  /\ UNCHANGED <<stores, json, unsaved, monster, discord, abandoned, cut>>

(* Indices count from zero once they are read. *)
RemoveQuote(c, u, number) ==
  /\ Call(c, "quotes")
  /\ LET index == number - 1 q == mem.quotes[u] IN
       /\ index < Len(q) /\ index >= 0
       /\ Save(c, [mem EXCEPT !.quotes[u] = RemoveAt(q, index + 1)])
  /\ UNCHANGED <<stores, json, unsaved, monster, discord, abandoned, cut>>

-----------------------------------------------------------------------------
(* A role by name is one of the server's that is in the list and not ModRole. *)
Assignable(r) == r \in server /\ r \in mem.roles /\ r # mem.modRole

(* Discord creates the role; a moderator may delete it before the list has it. *)
CreateRole(c, r) ==
  /\ Call(c, "roles")
  /\ r \notin server
  /\ server' = server \cup {r}
  /\ call' = [call EXCEPT ![c] = [at |-> "created", role |-> r]]
  /\ UNCHANGED <<stores, mem, json, unsaved, monster, deletions, joined, overlapped, abandoned, cut>>

Created(c) ==
  /\ call[c].at = "created"
  /\ Save(c, [mem EXCEPT !.roles = @ \cup {call[c].role}])
  /\ UNCHANGED <<stores, json, unsaved, monster, discord, spent, abandoned, cut>>

(* Faulty variant: a role that is pinged is taken to be there. *)
AddRolePinged(c, r) ==
  /\ Call(c, "roles")
  /\ r # mem.modRole /\ r \notin mem.roles
  /\ Save(c, [mem EXCEPT !.roles = @ \cup {r}])
  /\ UNCHANGED <<stores, json, unsaved, monster, discord, abandoned, cut>>

AddRole(c, r) ==
  /\ Call(c, "roles")
  /\ r # mem.modRole /\ r \notin mem.roles
  /\ r \in server
  /\ Save(c, [mem EXCEPT !.roles = @ \cup {r}])
  /\ UNCHANGED <<stores, json, unsaved, monster, discord, abandoned, cut>>

RemoveRole(c, r) ==
  /\ Call(c, "roles")
  /\ Assignable(r)
  /\ Save(c, [mem EXCEPT !.roles = @ \ {r}])
  /\ UNCHANGED <<stores, json, unsaved, monster, discord, abandoned, cut>>

(* Deletes the role on the server only; the list follows by the event. *)
DeleteRole(c, r) ==
  /\ Call(c, "roles") /\ NoSave
  /\ Assignable(r)
  /\ server' = server \ {r} /\ joined' = joined \ {r} /\ deletions' = deletions \cup {r}
  /\ UNCHANGED <<stores, json, unsaved, monster, abandoned, cut>>

(* !joinrole of one or more roles, all of which must be assignable; !leaverole. *)
JoinRole(c, rs) ==
  /\ Call(c, "roles") /\ NoSave
  /\ \A r \in rs : Assignable(r)
  /\ joined' = joined \cup rs
  /\ UNCHANGED <<stores, json, unsaved, monster, server, deletions, abandoned, cut>>

LeaveRole(c, r) ==
  /\ Call(c, "roles") /\ NoSave
  /\ Assignable(r)
  /\ joined' = joined \ {r}
  /\ UNCHANGED <<stores, json, unsaved, monster, server, deletions, abandoned, cut>>

(* OnGuildRoleDelete *)
RoleDeleted(c, r) ==
  /\ call[c].at = "idle" /\ r \in deletions
  /\ stores.inTurn => NoCommand
  /\ deletions' = deletions \ {r}
  /\ Save(c, [mem EXCEPT !.roles = @ \ {r}])
  /\ UNCHANGED <<stores, json, unsaved, monster, server, joined, spent, abandoned, cut>>

-----------------------------------------------------------------------------
Defaults(role) == [Empty EXCEPT !.counters = [n \in {} |-> 0], !.modRole = role]

(***************************************************************************)
(* !setup OVERRIDE forgets the configuration first and looks at its         *)
(* arguments then: one that is wrong leaves the defaults in memory and the  *)
(* old configuration in the file.                                           *)
(***************************************************************************)
Setup(c, r) ==
  /\ Call(c, "setup")
  /\ Save(c, [Defaults(r) EXCEPT !.done = TRUE])
  /\ abandoned' = FALSE
  /\ UNCHANGED <<stores, json, unsaved, monster, discord, cut>>

SetupFails(c) ==
  /\ Call(c, "setup")
  /\ \E r \in Role \cup {None} : mem' = IF mem.done THEN Defaults(r) ELSE [mem EXCEPT !.modRole = r]
  /\ abandoned' = TRUE
  /\ UNCHANGED <<stores, json, unsaved, call, monster, discord, overlapped, cut>>

(* !setconfig basic.modrole *)
SetModRole(c, r) ==
  /\ Call(c, "setup") /\ mem.done
  /\ Save(c, [mem EXCEPT !.modRole = r])
  /\ UNCHANGED <<stores, json, unsaved, monster, discord, abandoned, cut>>

(* A moderator deletes a role in Discord. *)
DeletedByHand(r) ==
  /\ "roles" \in stores.about /\ r \in server
  /\ stores.inTurn => NoCommand
  /\ spent.byHand < MaxByHand /\ spent' = [spent EXCEPT !.byHand = @ + 1]
  /\ server' = server \ {r} /\ joined' = joined \ {r} /\ deletions' = deletions \cup {r}
  /\ UNCHANGED <<stores, mem, json, unsaved, call, monster, overlapped, abandoned, cut>>

(* The process ends at any point, events are missed, and the file is read again:
   one that is no JSON leaves DefaultConfig in memory (MigrateSettings). *)
Reread ==
  /\ spent.byHand < MaxByHand /\ spent' = [spent EXCEPT !.byHand = @ + 1]
  /\ mem' = IF condition = "whole" THEN file ELSE Defaults(None)
  /\ unsaved' = (condition # "whole")
  /\ call' = [c \in Caller |-> [at |-> "idle"]]
  /\ monster' = 0 /\ overlapped' = FALSE /\ abandoned' = FALSE
  /\ deletions' = {} /\ cut' = (cut \/ deletions # {} \/ ~NoCommand \/ unsaved)
  /\ UNCHANGED <<stores, json, server, joined>>

GNext ==
  \/ \E c \in Caller :
       \/ Marshal(c) \/ Open(c) \/ Write(c) \/ Created(c) \/ Engage(c) \/ Fight(c) \/ SetupFails(c)
       \/ \E i \in Item : Give(c, i) \/ Drop(c, i)
       \/ \E n \in Name : AddCounter(c, n) \/ RemoveCounter(c, n) \/ Increment(c, n) \/ Decrement(c, n)
                          \/ AddStatus(c, n) \/ RemoveStatus(c, n)
       \/ \E u \in User : \/ \E text \in Item : AddQuote(c, u, text)
                          \/ \E number \in 0..MaxQuotes + 1 : RemoveQuote(c, u, number)
       \/ \E r \in Role : \/ CreateRole(c, r) \/ AddRole(c, r) \/ RemoveRole(c, r) \/ DeleteRole(c, r)
                          \/ LeaveRole(c, r) \/ RoleDeleted(c, r) \/ Setup(c, r) \/ SetModRole(c, r)
       \/ \E rs \in SUBSET Role \ {{}} : JoinRole(c, rs)
  \/ \E r \in Role : DeletedByHand(r)
  \/ Reread

GSpec == GInit /\ [][GNext]_gvars

-----------------------------------------------------------------------------
(***************************************************************************)
(* What a command has answered for survives the process: when nobody is at  *)
(* work the file is whole and what is in memory, unless the latest save was *)
(* refused or failed (SaveConfig tells the log, and no command its caller), *)
(* the saves of two commands overlapped or !setup was stopped halfway.  So  *)
(* one save that succeeds makes up for those that did not.                  *)
(***************************************************************************)
Durable ==
  NoCommand /\ ~unsaved /\ ~overlapped /\ ~abandoned => condition = "whole" /\ file = mem

(***************************************************************************)
(* "Keeps things tidy by making sure no deleted roles are user-assignable"  *)
(* (RolesModule.go): when every deletion has been heard of, every role in   *)
(* the list is one of the server's, if commands come one after the other    *)
(* and no event or save was lost, with a process or by a failure that a     *)
(* process ended with.                                                      *)
(***************************************************************************)
NoDeletedRoles ==
  stores.inTurn /\ NoCommand /\ deletions = {} /\ ~cut => mem.roles \subseteq server
=============================================================================
