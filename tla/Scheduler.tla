------------------------------- MODULE Scheduler -------------------------------
(***************************************************************************)
(* The schedule of a server: the commands that add and remove events        *)
(* (schedulermodule/SchedulerModule.go, usersmodule/UsersModule.go), the    *)
(* table they are kept in (sweetiebot/db.go, docs/sweetiebot.sql), and the  *)
(* idle loop's OnTick that carries out what is due.                         *)
(*                                                                          *)
(* An event says something, gives a member the birthday role, or takes      *)
(* something back: a ban, a role, the birthday role.  Every command runs in *)
(* a goroutine of its own; each of its queries, and each call to Discord,   *)
(* is a step.  The database may be lost, and the bot restarted, between     *)
(* any two of them.                                                         *)
(***************************************************************************)
EXTENDS Integers, Sequences, FiniteSets

CONSTANTS Handler,      (* goroutines of commands and member events          *)
          Sanctioned,   (* bans and roles: a member, or a member and a role  *)
          Celebrated,   (* members with a birthday                           *)
          MaxRows,      (* MaxScheduleRows                                   *)
          Durations,    (* how long a sanction may last                      *)
          Repeats,      (* repeat intervals !addevent may be given; 0: none  *)
          Day, Year,    (* of a birthday                                     *)
          Prompt,       (* whether a command is done before its sanction ends *)
          LastTime,     (* bound: the last second of the run                 *)
          MaxCommands,  (* bound: commands of the run                        *)
          MaxOutages,   (* bound: times the database is lost                 *)
          MaxRestarts,  (* bound: restarts of the bot                        *)
          MaxFailures,  (* bound: calls to Discord that fail                 *)
          MaxDeletions, (* bound: !removeevent commands                      *)
          MaxMoves      (* bound: times the channel is taken away            *)

ASSUME ScheduleAssumption ==
  /\ IsFiniteSet(Handler) /\ Handler # {}
  /\ Sanctioned \cap Celebrated = {}
  /\ MaxRows \in Nat \ {0}
  /\ Durations \subseteq Nat \ {0} /\ Repeats \subseteq Nat
  /\ Day \in Nat \ {0} /\ Year \in Nat \ {0}
  /\ LastTime \in Nat /\ Day <= LastTime /\ MaxCommands \in Nat
  /\ Prompt \in BOOLEAN

Subject == Sanctioned \cup Celebrated

(* A birthday's command adds two events. *)
Id == 1..(2 * MaxCommands)

(* What happens a bounded number of times. *)
Bounded == {"commands", "outages", "restarts", "failures", "deletions", "moves"}

VARIABLES
  clock,     (* seconds; the database's and the bot's                        *)
  db,        (* the database answers                                         *)
  channel,   (* OnTick finds a channel to post to                            *)
  added,     (* the rows as they were inserted, by ID                        *)
  rows,      (* schedule: the dates of the rows that are in the table        *)
  tick,      (* where OnTick stands                                          *)
  due,       (* OnTick: the events it has read and not dealt with, by date   *)
  current,   (* OnTick: the event it deals with                              *)
  pc, job,   (* where each command stands, and what it adds                  *)
  held,      (* Discord: who is banned, has the role                         *)
  promise,   (* history: the event that is to take it back; 0: none          *)
  deleted,   (* history: events removed by !removeevent                      *)
  forgone,   (* history: and those that Discord refused to carry out         *)
  times,     (* history: how often an event was carried out for a date       *)
  used       (* how much of each bound is used up                            *)

table == <<added, rows>>
loop == <<tick, due, current>>
commands == <<pc, job>>
discord == <<held, promise>>
history == <<deleted, forgone, times>>
vars == <<clock, db, channel, table, loop, commands, discord, history, used>>

Event == [kind : {"say", "give", "take"}, subject : Subject, date : Nat, repeat : Nat]

Job == [what : {"sanction", "join", "event", "birthday"}, id : Nat, kind : {"say", "give", "take"},
        subject : Subject, date : Nat, repeat : Nat]

Nothing == [id \in {} |-> 0]

NoJob == [what |-> "none", id |-> 0, kind |-> "say",
          subject |-> "none", date |-> 0, repeat |-> 0]

Init ==
  /\ clock = Day /\ db = TRUE /\ channel = TRUE
  /\ added = << >> /\ rows = Nothing
  /\ tick = "idle" /\ due = Nothing /\ current = 0
  /\ pc = [h \in Handler |-> "idle"]
  /\ job = [h \in Handler |-> NoJob]
  /\ held = [x \in Subject |-> FALSE] /\ promise = [x \in Subject |-> 0]
  /\ deleted = {} /\ forgone = {}
  /\ times = [id \in Id |-> [d \in 0..LastTime |-> 0]]
  /\ used = [what \in Bounded |-> 0]

Goto(h, label) == pc' = [pc EXCEPT ![h] = label] /\ UNCHANGED job
End(h) == pc' = [pc EXCEPT ![h] = "idle"] /\ job' = [job EXCEPT ![h] = NoJob]
Use(what, max) == used[what] < max /\ used' = [used EXCEPT ![what] = @ + 1]
Fails == Use("failures", MaxFailures)

-----------------------------------------------------------------------------
(* The commands.  Each starts by deciding what it is going to add. *)
Begin(h, what, kind, x, date, repeat, label) ==
  /\ pc[h] = "idle"
  /\ job' = [job EXCEPT ![h] = [what |-> what, id |-> 0, kind |-> kind,
                                subject |-> x, date |-> date, repeat |-> repeat]]
  /\ pc' = [pc EXCEPT ![h] = label]

(* processDurationAndReason: for a time or for good. *)
Sanction(h) ==
  /\ Use("commands", MaxCommands)
  /\ \E x \in Sanctioned :
       \/ \E d \in Durations : Begin(h, "sanction", "take", x, clock + d, 0, "count")
       \/ Begin(h, "sanction", "take", x, 0, 0, "impose")
  /\ UNCHANGED <<clock, db, channel, table, loop, discord, history>>

(* !ban looks at CheckStatus first, !assignrole does not. *)
Ban(h) == db /\ Sanction(h)
AssignRole(h) == Sanction(h)

(* OnGuildMemberAdd: NewUserRole first, whether Discord accepts it or not, and
   its removal only if the database is there.                               *)
Join(h) ==
  /\ \E x \in Sanctioned, d \in Durations :
       /\ IF db THEN Begin(h, "join", "take", x, clock + d, 0, "count")
                ELSE pc[h] = "idle" /\ UNCHANGED commands
       /\ promise' = [promise EXCEPT ![x] = 0]
       /\ held' \in {held, [held EXCEPT ![x] = TRUE]}
  /\ Use("commands", MaxCommands)
  /\ UNCHANGED <<clock, db, channel, table, loop, history>>

(* !addevent, of any type but a reminder: never in the past. *)
AddEvent(h) ==
  /\ Use("commands", MaxCommands)
  /\ db
  /\ \E x \in Sanctioned, kind \in {"say", "take"}, d \in {0} \cup Durations, r \in Repeats :
       Begin(h, "event", kind, x, clock + d, r, "count")
  /\ UNCHANGED <<clock, db, channel, table, loop, discord, history>>

(* !remindme: once, and what it does is to say something. *)
RemindMe(h) ==
  /\ Use("commands", MaxCommands)
  /\ db
  /\ \E x \in Sanctioned, d \in {0} \cup Durations : Begin(h, "event", "say", x, clock + d, 0, "count")
  /\ UNCHANGED <<clock, db, channel, table, loop, discord, history>>

(* !addbirthday, once for each member in the run: from a day ago on. *)
AddBirthday(h) ==
  /\ Use("commands", MaxCommands)
  /\ db
  /\ \E x \in Celebrated, d \in {-Day, 0} :
       /\ \A i \in 1..Len(added) : added[i].subject # x
       /\ \A g \in Handler : pc[g] # "idle" => job[g].subject # x
       /\ Begin(h, "birthday", "give", x, clock + d, Year, "count")
  /\ UNCHANGED <<clock, db, channel, table, loop, discord, history>>

(* AddSchedule, AddScheduleRepeat: count, compare, insert. *)
HasRoom == Cardinality(DOMAIN rows) < MaxRows

Count(h) ==
  /\ pc[h] = "count"
  /\ IF db /\ HasRoom THEN Goto(h, "insert") ELSE End(h)
  /\ UNCHANGED <<clock, db, channel, table, loop, discord, history, used>>

NextId == Len(added) + 1

Row(h) == [kind |-> job[h].kind, subject |-> job[h].subject,
           date |-> job[h].date, repeat |-> job[h].repeat]

(* The second event of a birthday. *)
DayAfter(j) == [what |-> j.what, id |-> j.id, kind |-> "take", subject |-> j.subject,
                date |-> j.date + Day, repeat |-> j.repeat]

(* What a command goes on with once its row is in the table: !ban looks for
   the row, !addbirthday adds a second one for the day after.               *)
AfterInsert(h) ==
  \/ /\ job[h].what = "sanction"
     /\ pc' = [pc EXCEPT ![h] = "find"]
     /\ job' = [job EXCEPT ![h].id = NextId]
     /\ UNCHANGED promise
  \/ /\ job[h].what = "birthday" /\ job[h].kind = "give"
     /\ pc' = [pc EXCEPT ![h] = "count"]
     /\ job' = [job EXCEPT ![h] = DayAfter(@)]
     /\ UNCHANGED promise
  \/ /\ <<job[h].what, job[h].kind>> \in {<<"join", "take">>, <<"birthday", "take">>}
     /\ End(h)
     /\ promise' = [promise EXCEPT ![job[h].subject] = NextId]
  \/ /\ job[h].what = "event"
     /\ End(h)
     /\ UNCHANGED promise

Insert(h) ==
  /\ pc[h] = "insert" /\ db
  /\ added' = Append(added, Row(h))
  /\ rows' = [id \in DOMAIN rows \cup {NextId} |-> IF id = NextId THEN job[h].date ELSE rows[id]]
  /\ AfterInsert(h)
  /\ UNCHANGED <<clock, db, channel, loop, held, history, used>>

(* Faulty variant: the ban goes ahead without its event. *)
InsertFailsUnnoticed(h) ==
  /\ pc[h] = "insert" /\ ~db
  /\ IF job[h].what = "sanction"
     THEN /\ pc' = [pc EXCEPT ![h] = "impose"]
          /\ job' = [job EXCEPT ![h].id = NextId]
     ELSE End(h)
  /\ UNCHANGED <<clock, db, channel, table, loop, discord, history, used>>

(* The error goes to whoever gave the command, which ends. *)
InsertFails(h) ==
  /\ pc[h] = "insert" /\ ~db
  /\ End(h)
  /\ UNCHANGED <<clock, db, channel, table, loop, discord, history, used>>

(* FindEvent: any row of the type for the same member will do. *)
Find(h) ==
  /\ pc[h] = "find"
  /\ IF db /\ \E id \in DOMAIN rows : /\ added[id].kind = "take"
                                      /\ added[id].subject = job[h].subject
     THEN Goto(h, "impose") ELSE End(h)
  /\ UNCHANGED <<clock, db, channel, table, loop, discord, history, used>>

(* GuildBanCreateWithReason, GuildMemberRoleAdd. *)
Impose(h) ==
  /\ pc[h] = "impose"
  /\ \/ /\ held' = [held EXCEPT ![job[h].subject] = TRUE]
        /\ promise' = [promise EXCEPT ![job[h].subject] = job[h].id]
        /\ UNCHANGED used
     \/ Fails /\ UNCHANGED discord
  /\ End(h)
  /\ UNCHANGED <<clock, db, channel, table, loop, history>>

(* !removeevent: DeleteSchedule, whatever OnTick has read before. *)
RemoveEvent(id) ==
  /\ db
  /\ id \in DOMAIN rows
  /\ Use("deletions", MaxDeletions)
  /\ rows' = [i \in DOMAIN rows \ {id} |-> rows[i]]
  /\ deleted' = deleted \cup {id}
  /\ UNCHANGED <<clock, db, channel, added, loop, commands, discord, forgone, times>>

-----------------------------------------------------------------------------
(* OnTick.  GetSchedule reads what is due; without a channel OnTick returns. *)
Due == {id \in DOMAIN rows : rows[id] <= clock}

GetSchedule ==
  /\ tick = "idle"
  /\ db /\ channel /\ Due # {}
  /\ due' = [id \in Due |-> rows[id]]
  /\ tick' = "fire"
  /\ UNCHANGED <<clock, db, channel, table, current, commands, discord, history, used>>

(* Faulty variant: in any order. *)
EarliestOrNot(id) == id \in DOMAIN due

(* ORDER BY Date: the earliest first, of several any. *)
Earliest(id) == id \in DOMAIN due /\ \A i \in DOMAIN due : due[id] <= due[i]

(* What the event does on Discord; a call that fails is reported to the
   moderators or to the log, and not repeated.                              *)
Effect(id) ==
  LET e == added[id] IN
  \/ /\ e.kind = "say"
     /\ UNCHANGED <<held, forgone, used>>
  \/ /\ e.kind \in {"give", "take"}
     /\ held' = [held EXCEPT ![e.subject] = e.kind = "give"]
     /\ UNCHANGED <<forgone, used>>
  \/ /\ e.kind \in {"give", "take"}
     /\ Fails
     /\ forgone' = forgone \cup {id}
     /\ UNCHANGED held

Fire ==
  /\ tick = "fire"
  /\ \E id \in DOMAIN due :
       /\ Earliest(id)
       /\ Effect(id)
       /\ current' = id
       /\ times' = [times EXCEPT ![id][due[id]] = @ + 1]
  /\ tick' = "remove"
  /\ UNCHANGED <<clock, db, channel, table, due, commands, promise, deleted>>

(* Faulty variants: a repeating event starts anew from the current time; an
   event that does not repeat is not deleted; everything due is deleted.    *)
RemoveScheduleFromNow(id) ==
  IF id \in DOMAIN rows /\ added[id].repeat # 0
  THEN [rows EXCEPT ![id] = clock + added[id].repeat]
  ELSE [i \in DOMAIN rows \ {id} |-> rows[i]]

RemoveScheduleKeeping(id) ==
  IF id \in DOMAIN rows
  THEN [rows EXCEPT ![id] = @ + added[id].repeat]
  ELSE rows

RemoveScheduleDue(id) ==
  IF id \in DOMAIN rows /\ added[id].repeat # 0
  THEN [rows EXCEPT ![id] = @ + added[id].repeat]
  ELSE [i \in DOMAIN rows \ {j \in Due : added[j].repeat = 0} |-> rows[i]]

(* The procedure RemoveSchedule: what lies in the future or does not repeat is
   deleted, the rest moves on by its interval.                              *)
RemoveSchedule(id) ==
  IF id \in DOMAIN rows /\ rows[id] <= clock /\ added[id].repeat # 0
  THEN [rows EXCEPT ![id] = @ + added[id].repeat]
  ELSE [i \in DOMAIN rows \ {id} |-> rows[i]]

(* Its error is not looked at: OnTick goes on with the next event. *)
Remove ==
  /\ tick = "remove"
  /\ rows' = IF db THEN RemoveSchedule(current) ELSE rows
  /\ due' = [i \in DOMAIN due \ {current} |-> due[i]]
  /\ tick' = IF DOMAIN due = {current} THEN "idle" ELSE "fire"
  /\ current' = 0
  /\ UNCHANGED <<clock, db, channel, added, commands, discord, history, used>>

-----------------------------------------------------------------------------
(* The surroundings. *)
Outage ==
  /\ db /\ db' = FALSE
  /\ Use("outages", MaxOutages)
  /\ UNCHANGED <<clock, channel, table, loop, commands, discord, history>>

Recover ==
  /\ ~db /\ db' = TRUE
  /\ UNCHANGED <<clock, channel, table, loop, commands, discord, history, used>>

(* The configuration names a channel, or no longer does. *)
SetChannel ==
  /\ channel' = ~channel
  /\ IF channel THEN Use("moves", MaxMoves) ELSE UNCHANGED used
  /\ UNCHANGED <<clock, db, table, loop, commands, discord, history>>

Restart ==
  /\ Use("restarts", MaxRestarts)
  /\ tick' = "idle" /\ due' = Nothing /\ current' = 0
  /\ pc' = [h \in Handler |-> "idle"] /\ job' = [h \in Handler |-> NoJob]
  /\ UNCHANGED <<clock, db, channel, table, discord, history>>

(* A command that imposes a sanction is done before the sanction ends. *)
InTime == \A h \in Handler :
            pc[h] # "idle" /\ job[h].what = "sanction" /\ job[h].date # 0 => clock + 1 < job[h].date

TimePasses ==
  /\ clock < LastTime
  /\ Prompt => InTime
  /\ clock' = clock + 1
  /\ UNCHANGED <<db, channel, table, loop, commands, discord, history, used>>

Start(h) == Ban(h) \/ AssignRole(h) \/ Join(h) \/ AddEvent(h) \/ RemindMe(h) \/ AddBirthday(h)
Proceed(h) == Count(h) \/ Insert(h) \/ InsertFails(h) \/ Find(h) \/ Impose(h)
OnTick == GetSchedule \/ Fire \/ Remove

Next ==
  \/ \E h \in Handler : Start(h) \/ Proceed(h)
  \/ \E id \in Id : RemoveEvent(id)
  \/ OnTick
  \/ Outage \/ Recover \/ SetChannel \/ Restart \/ TimePasses

Spec == Init /\ [][Next]_vars

(* The idle loop comes round again, goroutines run on, the database comes back. *)
FairSpec == /\ Spec
            /\ WF_vars(OnTick) /\ WF_vars(Recover) /\ WF_vars(TimePasses)
            /\ \A h \in Handler : WF_vars(Proceed(h))

-----------------------------------------------------------------------------
(* The types of the schedule: what is in the table was inserted, OnTick holds
   rows that were in the table, and nothing is carried out before its date.  *)
TypeOK ==
  /\ clock \in Nat /\ clock >= Day /\ db \in BOOLEAN /\ channel \in BOOLEAN
  /\ added \in Seq(Event)
  /\ rows \in [DOMAIN rows -> Nat] /\ DOMAIN rows \subseteq 1..Len(added)
  /\ tick \in {"idle", "fire", "remove"}
  /\ due \in [DOMAIN due -> 0..clock] /\ DOMAIN due \subseteq 1..Len(added)
  /\ tick = "remove" => current \in DOMAIN due
  /\ pc \in [Handler -> {"idle", "count", "insert", "find", "impose"}]
  /\ job \in [Handler -> Job \cup {NoJob}] /\ \A h \in Handler : pc[h] # "idle" => job[h] \in Job
  /\ held \in [Subject -> BOOLEAN] /\ promise \in [Subject -> Nat]
  /\ deleted \subseteq 1..Len(added) /\ forgone \subseteq 1..Len(added)
  /\ times \in [Id -> [0..LastTime -> Nat]]
  /\ used \in [Bounded -> Nat]

(***************************************************************************)
(* Whoever was banned or given a role for a time has an event in the        *)
(* schedule that takes it back, until it does: however commands on the same *)
(* member overlap, whatever is restarted or lost halfway                    *)
(* (UsersModule.go processDurationAndReason).  Except what a moderator      *)
(* removed or Discord refused.                                              *)
(***************************************************************************)
HasEnd ==
  \A x \in Subject :
    held[x] /\ promise[x] # 0 => promise[x] \in DOMAIN rows \cup deleted \cup forgone

(***************************************************************************)
(* "Create the hidden remove birthday role event 24 hours later"            *)
(* (SchedulerModule.go): nobody has the birthday role without an event that *)
(* removes it within a day or is overdue, also when a bot that was away has *)
(* both events, or several years of them, to catch up with.  It takes a     *)
(* database that stays: if it is lost while the first event is removed and  *)
(* is back for the second, the first is carried out again.                  *)
(***************************************************************************)
NoOverstay ==
  used["outages"] = 0 =>
    \A x \in Celebrated :
      held[x] /\ promise[x] \notin {0} \cup deleted \cup forgone =>
        \E id \in DOMAIN rows : /\ added[id].kind = "take" /\ added[id].subject = x
                                /\ rows[id] <= clock + Day

(***************************************************************************)
(* No event is lost and no repetition skipped, however late the bot is: a   *)
(* row is gone only after it was carried out or deleted, and a repeating    *)
(* one has been carried out for every date before the one it has now.       *)
(***************************************************************************)
Falls(e, d) == d = e.date \/ (e.repeat # 0 /\ (d - e.date) % e.repeat = 0)

NoneSkipped ==
  \A id \in 1..Len(added) \ deleted :
    LET e == added[id] IN
    IF id \in DOMAIN rows
    THEN \A d \in e.date..(rows[id] - 1) : Falls(e, d) => times[id][d] > 0
    ELSE e.repeat = 0 /\ times[id][e.date] > 0

(***************************************************************************)
(* An event is carried out once for a date, and once more for every loss of *)
(* the database and every restart, which may come between the call to       *)
(* Discord and RemoveSchedule; never more.                                  *)
(***************************************************************************)
RepeatsBounded ==
  \A id \in Id, d \in 0..LastTime : times[id][d] <= 1 + used["outages"] + used["restarts"]

(***************************************************************************)
(* "Can't have more than %v events!" (db.go), give or take the handlers     *)
(* that counted at the same time.                                           *)
(***************************************************************************)
Inserting == {h \in Handler : pc[h] = "insert"}

RowsBounded ==
  Cardinality(DOMAIN rows) + Cardinality(Inserting) <= MaxRows + Cardinality(Handler) - 1

(***************************************************************************)
(* What is due is carried out or deleted, as long as there is a channel to  *)
(* post to: also unbans and role removals wait for one.                     *)
(***************************************************************************)
Waiting(id) == id \in Due /\ times[id][rows[id]] = 0

Served(id) == /\ id \in 1..Len(added) /\ added[id].date <= clock
              /\ times[id][added[id].date] > 0 /\ ~Waiting(id)

DueHappens == \A id \in Id : Waiting(id) ~> Served(id) \/ id \in deleted \/ ~channel
=============================================================================
