---------------------------- MODULE MemberRecords ----------------------------
(***************************************************************************)
(* What the database knows of people: users (one row per person), members  *)
(* (one per person and guild, with the dates of joining and of the first   *)
(* message), aliases (how long each name was worn) and the authors of the  *)
(* chatlog.                                                                *)
(*                                                                         *)
(* discordgo handles every event in a goroutine.  Joining and leaving are  *)
(* written by that goroutine, messages and changes of name or member go    *)
(* through deferChan and are written one by one (deferProcessing).  The    *)
(* procedures of sweetiebot.sql run without a transaction: AddUser's SELECT *)
(* and what it writes are two steps, its FOR UPDATE notwithstanding.       *)
(* The database stays up here (outages: DatabaseStatus).                   *)
(***************************************************************************)
EXTENDS Integers, Sequences, SequencesExt, FiniteSets, FiniteSetsExt, Functions

CONSTANTS Person, Guild, Username,
          Hand,               (* goroutines of joins and leaves               *)
          Lookback,           (* !bannewcomers duration, or since the raid    *)
          MaxDay, MaxEvents   (* bounds: the clock, events of Discord         *)

NoDate == 0   NoName == ""   NoGuild == "none"
Deferred == "deferProcessing"

ASSUME RecordsAssumption ==
  /\ {Lookback, MaxDay, MaxEvents} \subseteq Nat \ {0}
  /\ NoGuild \notin Guild /\ Deferred \notin Hand
  /\ NoName \notin Username         (* a name of Discord is not empty         *)

VARIABLES
  account,     (* Discord: everybody's name                                   *)
  since,       (* Discord: date of joining per person and guild, or NoDate    *)
  spoke,       (* Discord: who has posted in a guild since joining it         *)
  users, members, aliases, chatlog,   (* the tables; of chatlog the authors   *)
  deferChan,   (* what waits for deferProcessing                              *)
  work,        (* what each goroutine is writing                              *)
  today,       (* the clock                                                   *)
  events,      (* bound used up                                               *)
  known,       (* history: when a person's row in users was made              *)
  crossed      (* history: the rows and the names that were written out of turn *)

tables == <<users, members, aliases, chatlog, known>>
people == <<account, since, spoke>>
rvars == <<people, tables, deferChan, work, today, events, crossed>>

Place == Person \X Guild
Free == [does |-> "idle", person |-> "nobody", guild |-> NoGuild]
LongAgo == 1

MRInit ==
  /\ account \in [Person -> Username]
  /\ since \in [Place -> {NoDate, LongAgo}]
  /\ spoke = {}
  /\ users = << >> /\ members = << >> /\ aliases = << >> /\ chatlog = {}
  /\ known = [p \in Person |-> NoDate]
  /\ deferChan = << >>
  /\ work = [h \in Hand \cup {Deferred} |-> Free]
  /\ today = LongAgo + 1
  /\ events = 0 /\ crossed = [rows |-> {}, names |-> {}]

(* Tasks that are not done: in the hands of joins and leaves, or anywhere. *)
InHand == {work[h] : h \in Hand} \ {Free}
Pending == InHand \cup ({work[Deferred]} \ {Free}) \cup ToSet(deferChan)
At(tasks, p, g) == \E t \in tasks : t.person = p /\ t.guild = g
Names(tasks, p) == \E t \in tasks : t.person = p /\ t.does \in {"read", "write"}

Event == events < MaxEvents /\ events' = events + 1

(* An event comes while tasks that it does not wait for change the same row,  *)
(* or, if it changes the name, the same name.                                *)
Crosses(tasks, p, g, names) ==
  crossed' = [rows |-> crossed.rows \cup {x \in {<<p, g>>} : At(tasks, p, g)},
              names |-> crossed.names \cup {x \in {p} : names /\ Names(tasks, p)}]

-----------------------------------------------------------------------------
(* Events, and what their handlers start. *)

(* ProcessMember: AddUser, then AddMember; ProcessUser stops after AddUser. *)
ProcessMember(p, name, g, date) == [does |-> "read", person |-> p, name |-> name, guild |-> g, date |-> date]
ProcessUser(p, name) == ProcessMember(p, name, NoGuild, NoDate)

GuildMemberAdd(h, p, g) ==
  /\ Event /\ work[h] = Free /\ since[p, g] = NoDate
  /\ since' = [since EXCEPT ![<<p, g>>] = today] /\ spoke' = spoke \ {<<p, g>>}
  /\ work' = [work EXCEPT ![h] = ProcessMember(p, account[p], g, today)]
  /\ Crosses(Pending, p, g, TRUE)
  /\ UNCHANGED <<account, tables, deferChan, today>>

MemberLeaves(h, p, g) ==
  /\ Event /\ work[h] = Free /\ since[p, g] # NoDate
  /\ since' = [since EXCEPT ![<<p, g>>] = NoDate]
  /\ work' = [work EXCEPT ![h] = [does |-> "remove", person |-> p, guild |-> g]]
  /\ Crosses(Pending, p, g, FALSE)
  /\ UNCHANGED <<account, spoke, tables, deferChan, today>>

(* The log of the message, if its channel is logged, and its author. *)
MessageSent(p, g, logged) ==
  /\ Event /\ since[p, g] # NoDate
  /\ spoke' = spoke \cup {<<p, g>>}
  /\ LET task(does) == [does |-> does, person |-> p, name |-> account[p], guild |-> g]
     IN deferChan' = deferChan \o (IF logged THEN <<task("chat")>> ELSE << >>) \o <<task("sent")>>
  /\ Crosses(InHand, p, g, FALSE)
  /\ UNCHANGED <<account, since, tables, work, today>>

UserUpdate(p, name) ==
  /\ Event /\ name # account[p]
  /\ account' = [account EXCEPT ![p] = name]
  /\ deferChan' = Append(deferChan, ProcessUser(p, name))
  /\ Crosses(InHand, p, NoGuild, TRUE)
  /\ UNCHANGED <<since, spoke, tables, work, today>>

(* The event need not carry the date of joining. *)
MemberUpdate(p, g, date) ==
  /\ Event /\ since[p, g] # NoDate /\ date \in {since[p, g], NoDate}
  /\ deferChan' = Append(deferChan, ProcessMember(p, account[p], g, date))
  /\ Crosses(InHand, p, g, TRUE)
  /\ UNCHANGED <<people, tables, work, today>>

(* One ban of !bannewcomers or !banraid: Discord removes the member. *)
RecentUsers(g) == {p \in Person : <<p, g>> \in DOMAIN members /\ members[p, g].firstSeen > today - Lookback}
BanRaid(h, g) == \E p \in RecentUsers(g) : MemberLeaves(h, p, g)
Newcomers(g) == {p \in Person : <<p, g>> \in DOMAIN members /\ members[p, g].firstMessage > today - Lookback}
BanNewcomers(h, g) == \E p \in Newcomers(g) : MemberLeaves(h, p, g)

ReceiveTask ==
  /\ deferChan # << >> /\ work[Deferred] = Free
  /\ work' = [work EXCEPT ![Deferred] = Head(deferChan)] /\ deferChan' = Tail(deferChan)
  /\ UNCHANGED <<people, tables, today, events, crossed>>

-----------------------------------------------------------------------------
(* Writes.  h is a goroutine, t its task. *)

Extend(f, x, y) == [z \in DOMAIN f \cup {x} |-> IF z = x THEN y ELSE f[z]]

Turn(h, does) == work[h].does = does /\ UNCHANGED <<people, deferChan, today, events, crossed>>
Then(h, task) == work' = [work EXCEPT ![h] = task]

(* The first row of a person in users. *)
Acquaint(p) == known' = IF p \in DOMAIN users THEN known ELSE [known EXCEPT ![p] = today]

ReadName(h) ==
  /\ Turn(h, "read")
  /\ LET p == work[h].person
     IN Then(h, [does |-> "write", task |-> work[h], person |-> p, guild |-> work[h].guild,
                 old |-> IF p \in DOMAIN users THEN users[p] ELSE NoName])
  /\ UNCHANGED tables

(* Faulty: the time that was counted is not marked as counted. *)
EndOldKeepingStamp(p, old) ==
  IF old = NoName THEN aliases
  ELSE IF <<p, old>> \in DOMAIN aliases
       THEN [aliases EXCEPT ![<<p, old>>].duration = @ + (today - aliases[p, old].stamp)]
       ELSE Extend(aliases, <<p, old>>, [duration |-> 0, stamp |-> today])

(* The aliases after AddUser: the time of the old name ends, that of the name begins. *)
EndOld(p, old) ==
  IF old = NoName THEN aliases
  ELSE Extend(aliases, <<p, old>>,
         [duration |-> IF <<p, old>> \in DOMAIN aliases
                       THEN aliases[p, old].duration + (today - aliases[p, old].stamp) ELSE 0,
          stamp |-> today])
Renamed(p, old, name) ==
  LET ended == EndOld(p, old)
  IN IF name = old THEN ended
     ELSE Extend(ended, <<p, name>>,
            [duration |-> IF <<p, name>> \in DOMAIN ended THEN ended[p, name].duration ELSE 0,
             stamp |-> today])

AddUser(h) ==
  /\ Turn(h, "write")
  /\ LET p == work[h].person  t == work[h].task
     IN /\ Acquaint(p)
        /\ users' = Extend(users, p, t.name)
        /\ aliases' = Renamed(p, work[h].old, t.name)
        /\ Then(h, IF t.guild = NoGuild THEN Free ELSE [t EXCEPT !.does = "member"])
  /\ UNCHANGED <<members, chatlog>>

GetMinDate(a, b) ==
  IF a = NoDate THEN b ELSE IF b = NoDate THEN a ELSE Min({a, b})

(* The foreign key refuses the row of a person who is not in users. *)
AddMember(h) ==
  /\ Turn(h, "member") /\ Then(h, Free)
  /\ LET t == work[h]  place == <<t.person, t.guild>>
     IN members' =
          IF t.person \notin DOMAIN users THEN members
          ELSE IF place \in DOMAIN members
               THEN [members EXCEPT ![place].firstSeen = GetMinDate(t.date, @)]
               ELSE Extend(members, place, [firstSeen |-> t.date, firstMessage |-> NoDate])
  /\ UNCHANGED <<users, aliases, chatlog, known>>

(* Faulty: the guild is forgotten. *)
RemoveMemberEverywhere(h) ==
  /\ Turn(h, "remove") /\ Then(h, Free)
  /\ members' = [x \in {y \in DOMAIN members : y[1] # work[h].person} |-> members[x]]
  /\ UNCHANGED <<users, aliases, chatlog, known>>

RemoveMember(h) ==
  /\ Turn(h, "remove") /\ Then(h, Free)
  /\ members' = Restrict(members, DOMAIN members \ {<<work[h].person, work[h].guild>>})
  /\ UNCHANGED <<users, aliases, chatlog, known>>

(* AddChat inserts the alias under the message's ID, which the foreign key refuses. *)
AddMessage(h) ==
  /\ Turn(h, "chat") /\ Then(h, Free)
  /\ LET t == work[h]
     IN /\ Acquaint(t.person)
        /\ users' = IF t.person \in DOMAIN users THEN users ELSE Extend(users, t.person, t.name)
        /\ chatlog' = chatlog \cup {t.person}
  /\ UNCHANGED <<members, aliases>>

SentMessage(h) ==
  /\ Turn(h, "sent") /\ Then(h, [work[h] EXCEPT !.does = "saw"])
  /\ LET place == <<work[h].person, work[h].guild>>
     IN members' = IF place \notin DOMAIN members \/ members[place].firstMessage # NoDate THEN members
                   ELSE [members EXCEPT ![place].firstMessage = today]
  /\ UNCHANGED <<users, aliases, chatlog, known>>

SawUser(h) ==
  /\ Turn(h, "saw") /\ Then(h, Free)
  /\ LET t == work[h]  alias == <<t.person, t.name>>
     IN aliases' = IF t.person \notin DOMAIN users \/ alias \in DOMAIN aliases THEN aliases
                   ELSE Extend(aliases, alias, [duration |-> 0, stamp |-> today])
  /\ UNCHANGED <<users, members, chatlog, known>>

(* The daily event: old messages go, then who is neither a member nor an author. *)
CleanAliases(kept) ==
  /\ events < MaxEvents /\ events' = events + 1
  /\ chatlog' = kept
  /\ LET stay == {p \in DOMAIN users : p \in kept \/ \E g \in Guild : <<p, g>> \in DOMAIN members}
     IN /\ users' = Restrict(users, stay)
        /\ aliases' = Restrict(aliases, {a \in DOMAIN aliases : a[1] \in stay})
        /\ known' = [p \in Person |-> IF p \in stay THEN known[p] ELSE NoDate]
  /\ crossed' = [rows |-> crossed.rows \cup {<<t.person, t.guild>> : t \in Pending},
                 names |-> crossed.names \cup {t.person : t \in Pending}]
  /\ UNCHANGED <<people, members, deferChan, work, today>>

NextDay ==
  /\ today < MaxDay /\ today' = today + 1
  /\ UNCHANGED <<people, tables, deferChan, work, events, crossed>>

MRNext ==
  \/ \E h \in Hand, g \in Guild :
       \/ BanNewcomers(h, g) \/ BanRaid(h, g)
       \/ \E p \in Person : GuildMemberAdd(h, p, g) \/ MemberLeaves(h, p, g)
  \/ \E p \in Person :
       \/ \E n \in Username : UserUpdate(p, n)
       \/ \E g \in Guild : \/ \E logged \in BOOLEAN : MessageSent(p, g, logged)
                           \/ \E date \in {NoDate, since[p, g]} : MemberUpdate(p, g, date)
  \/ ReceiveTask
  \/ \E h \in Hand \cup {Deferred} :
       ReadName(h) \/ AddUser(h) \/ AddMember(h) \/ RemoveMember(h) \/ AddMessage(h) \/ SentMessage(h) \/ SawUser(h)
  \/ \E kept \in SUBSET chatlog : CleanAliases(kept)
  \/ NextDay

MRSpec == MRInit /\ [][MRNext]_rvars

-----------------------------------------------------------------------------
(* Once everything about a member is written, in turn, the members table tells *)
(* where they are, since when (if Discord said so) and whether they have posted *)
(* there since; it may lack only who was there before the bot.  A row that      *)
(* stays behind is banned by !banraid, one that is missing is never found       *)
(* (GuildMemberAdd, GuildMemberRemove, deferProcessing, AddMember).             *)
RecordsFollowMembers ==
  \A p \in Person, g \in Guild : ~At(Pending, p, g) /\ <<p, g>> \notin crossed.rows =>
    /\ <<p, g>> \in DOMAIN members =>
         /\ since[p, g] # NoDate /\ members[p, g].firstSeen \in {NoDate, since[p, g]}
         /\ members[p, g].firstMessage # NoDate =>
              <<p, g>> \in spoke /\ members[p, g].firstMessage >= since[p, g]
    /\ since[p, g] > LongAgo =>
         /\ <<p, g>> \in DOMAIN members /\ members[p, g].firstSeen = since[p, g]
         /\ <<p, g>> \in spoke => members[p, g].firstMessage # NoDate

NamesOf(a, p) == {n \in Username : <<p, n>> \in DOMAIN a}
TimeOf(a, p) == MapThenSumSet(LAMBDA n : a[<<p, n>>].duration, NamesOf(a, p))

(* Once everything about a person is written, in turn, the name they bear is    *)
(* the one on record and listed by !aka, and no time was counted for two names: *)
(* !aka and the cleaning keep the names worn longest (AddUser, AddChat,         *)
(* SawUser).                                                                    *)
NamesKeepTime ==
  \A p \in DOMAIN users : p \notin crossed.names /\ (\A t \in Pending : t.person # p) =>
    /\ users[p] = account[p] /\ <<p, users[p]>> \in DOMAIN aliases
    /\ TimeOf(aliases, p) <= today - known[p]
==============================================================================
