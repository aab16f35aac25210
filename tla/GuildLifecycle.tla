--------------------------- MODULE GuildLifecycle ---------------------------
(***************************************************************************)
(* The bot as a process (sweetiebot.go): guilds are attached and removed,   *)
(* messages are served, members and database writes go through two          *)
(* channels with one reader each, and !update or the console ends it all,   *)
(* after the raids have calmed down.                                        *)
(*                                                                          *)
(* Every event runs in a goroutine of its own.  GuildsLock protects         *)
(* sb.Guilds, except in Connect, which ranges over it without; nothing      *)
(* protects the commands and hooks of a guild while they are registered.    *)
(***************************************************************************)
EXTENDS Integers, Sequences, FiniteSets

CONSTANTS Guild,          (* servers the bot is in                           *)
          EventHandler,   (* goroutines of events                            *)
          MemberCap,      (* capacity of memberChan: 2500                    *)
          DeferCap,       (* capacity of deferChan: 2000                     *)
          UpdateGrace,    (* 120                                             *)
          MaxUpdateGrace, (* 600                                             *)
          Starts          (* the instances explored: the guilds attached to
                             begin with, whether !update has been given, and
                             a bound on the events that start a handler      *)

ASSUME LifecycleAssumption ==
  /\ MemberCap \in Nat \ {0} /\ DeferCap \in Nat \ {0}
  /\ UpdateGrace \in Nat /\ MaxUpdateGrace \in Nat
  /\ Starts \subseteq [guilds : SUBSET Guild, events : Nat, quit : {"none", "raid"}]

Nobody == "nobody"
Nowhere == "nowhere"

VARIABLES
  quit,        (* SweetieBot.quit: "none", "raid" or "now"                   *)
  guilds,      (* the keys of SweetieBot.Guilds                              *)
  object,      (* the handler still registering the GuildInfo in sb.Guilds   *)
  since,       (* the time since its LastRaid, up to UpdateGrace             *)
  memberChan,  (* guilds whose members are to be fetched                     *)
  closed,      (* memberChan is closed                                       *)
  deferred,    (* entries in deferChan                                       *)
  stage, target,   (* where each handler stands, and its guild                   *)
  sends,       (* entries it has still to send to deferChan                  *)
  ingest,      (* memberIngestionLoop, and the guild it fetches              *)
  fetching,
  writer,      (* deferProcessing                                            *)
  conn,        (* Connect                                                    *)
  waited,      (* the time since the grace began, up to MaxUpdateGrace       *)
  todo,        (* the guilds a round has yet to see                          *)
  keep,        (* ~ "quit" of the round                                      *)
  fatal,       (* what ended the process other than Connect                  *)
  ingested,    (* history: guilds whose members were all fetched since they
                  were attached, and guilds a page of whose members failed   *)
  cutShort,
  fresh,       (* history: guilds in grace when the round began              *)
  events       (* bound: events to come                                      *)

chans == <<memberChan, closed, deferred>>
handlers == <<stage, target, sends>>
loops == <<ingest, fetching, writer>>
grace == <<waited, todo, keep, fresh>>
state == <<guilds, object, since>>
asked == <<ingested, cutShort>>
lvars == <<quit, state, chans, handlers, loops, conn, grace, fatal, asked, events>>

Alive == fatal = "none" /\ conn # "exited"

(* Connected: some guilds may be there for long. *)
LInit ==
  /\ \E start \in Starts : guilds = start.guilds /\ events = start.events /\ quit = start.quit
  /\ ingested = guilds /\ cutShort = {}
  /\ object = [g \in Guild |-> Nobody]
  /\ since = [g \in Guild |-> UpdateGrace]
  /\ memberChan = << >> /\ closed = FALSE /\ deferred = 0
  /\ stage = [h \in EventHandler |-> "idle"] /\ target = [h \in EventHandler |-> Nowhere]
  /\ sends = [h \in EventHandler |-> 0]
  /\ ingest = "test" /\ fetching = Nowhere /\ writer = "test"
  /\ conn = "running" /\ waited = 0 /\ todo = {} /\ keep = FALSE
  /\ fatal = "none" /\ fresh = {}

-----------------------------------------------------------------------------
(* Handlers. *)
Advance(h, where) == stage' = [stage EXCEPT ![h] = where] /\ UNCHANGED target

Return(h) ==
  /\ stage' = [stage EXCEPT ![h] = "idle"]
  /\ target' = [target EXCEPT ![h] = Nowhere]

At(h, where) == Alive /\ stage[h] = where

Event(h, g, where, n) ==
  /\ At(h, "idle") /\ events > 0
  /\ events' = events - 1
  /\ stage' = [stage EXCEPT ![h] = where]
  /\ target' = [target EXCEPT ![h] = g]
  /\ sends' = [sends EXCEPT ![h] = n]
  /\ UNCHANGED <<quit, state, chans, loops, conn, grace, fatal, asked>>

(* GuildCreate: AttachToGuild.  There is no handler of GUILD_DELETE. *)
GuildCreate(h, g) == Event(h, g, "lookup", 0)

(* A message is deferred, unless the database is gone or the channel is the log's,
   and so is its author. *)
MessageCreate(h, g) == g \in guilds /\ \E n \in {1, 2} : Event(h, g, "defer", n)

GuildMemberUpdate(h, g) == g \in guilds /\ Event(h, g, "deferMember", 1)

(* The bot itself is removed. *)
GuildMemberRemove(h, g) == g \in guilds /\ Event(h, g, "remove", 0)

(* A new member whose checkRaid finds a raid. *)
RaidStarts(g) ==
  /\ Alive /\ g \in guilds /\ since[g] > 0
  /\ since' = [since EXCEPT ![g] = 0]
  /\ UNCHANGED <<quit, guilds, object, chans, handlers, loops, conn, grace, fatal, asked, events>>

(***************************************************************************)
(* !update holds the read lock while it announces the update to every log   *)
(* channel, and then schedules the end.                                     *)
(***************************************************************************)
Announcing == \E h \in EventHandler : stage[h] = "announce"

UpdateCommand(h, g) ==
  /\ g \in guilds /\ quit = "none" /\ ~Announcing
  /\ Event(h, g, "announce", 0)

Announced(h) ==
  /\ At(h, "announce")
  /\ quit' = "raid"
  /\ Return(h)
  /\ UNCHANGED <<state, chans, sends, loops, conn, grace, fatal, asked, events>>

Lookup(h) ==
  /\ At(h, "lookup")
  /\ Advance(h, IF target[h] \in guilds THEN "again" ELSE "publish")
  /\ UNCHANGED <<quit, state, chans, sends, loops, conn, grace, fatal, asked, events>>

(* Faulty variant: the guild is sent on under the lock that published it. *)
LockFreeSending == ~Announcing /\ \A h \in EventHandler : stage[h] # "member"

(* The other critical sections of GuildsLock wait for nothing. *)
LockFree == ~Announcing

(* Go ends the process when a map is written during a range over it; whether
   it notices is up to the schedule. *)
WritesGuilds ==
  /\ LockFree
  /\ \/ UNCHANGED fatal
     \/ conn = "round" /\ fatal' = "guilds"

(* A new GuildInfo, its configuration read, takes the place of one that another
   handler may have published since. *)
Publish(h) ==
  LET g == target[h] IN
  /\ At(h, "publish") /\ WritesGuilds
  /\ guilds' = guilds \cup {g} /\ object' = [object EXCEPT ![g] = h]
  /\ since' = [since EXCEPT ![g] = UpdateGrace] /\ fresh' = fresh \ {g}
  /\ ingested' = ingested \ {g} /\ cutShort' = cutShort \ {g}
  /\ Advance(h, "check")
  /\ UNCHANGED <<quit, chans, sends, loops, conn, waited, todo, keep, events>>

CheckQuit(h) ==
  /\ At(h, "check")
  /\ Advance(h, IF quit = "none" THEN "member" ELSE "register")
  /\ UNCHANGED <<quit, state, chans, sends, loops, conn, grace, fatal, asked, events>>

(* A send to a closed channel panics; no handler recovers from it. *)
SendMember(h) ==
  /\ At(h, "member") \/ At(h, "again")
  /\ IF closed THEN /\ fatal' = "closed"
                    /\ UNCHANGED <<memberChan, stage, target>>
     ELSE /\ Len(memberChan) < MemberCap
          /\ memberChan' = Append(memberChan, target[h])
          /\ IF stage[h] = "again" THEN Return(h) ELSE Advance(h, "register")
          /\ UNCHANGED fatal
  /\ UNCHANGED <<quit, state, closed, deferred, sends, loops, conn, grace, asked, events>>

(* Modules and commands are added to a guild that others can see already. *)
Registering(g) == object[g] # Nobody

Registered(h) ==
  /\ At(h, "register")
  /\ object' = [object EXCEPT ![target[h]] = IF @ = h THEN Nobody ELSE @]
  /\ Return(h)
  /\ UNCHANGED <<quit, guilds, since, chans, sends, loops, conn, grace, fatal, asked, events>>

Defer(h) ==
  /\ At(h, "defer") /\ deferred < DeferCap
  /\ deferred' = deferred + 1
  /\ sends' = [sends EXCEPT ![h] = @ - 1]
  /\ Advance(h, IF sends[h] > 1 THEN "defer" ELSE "serve")
  /\ UNCHANGED <<quit, state, memberChan, closed, loops, conn, grace, fatal, asked, events>>

DeferMember(h) ==
  /\ At(h, "deferMember") /\ deferred < DeferCap
  /\ deferred' = deferred + 1
  /\ sends' = [sends EXCEPT ![h] = @ - 1]
  /\ Return(h)
  /\ UNCHANGED <<quit, state, memberChan, closed, loops, conn, grace, fatal, asked, events>>

(* ProcessCommand looks for the command in a map that may still be written. *)
Serve(h) ==
  /\ At(h, "serve")
  /\ \/ UNCHANGED fatal
     \/ Registering(target[h]) /\ fatal' = "commands"
  /\ Return(h)
  /\ UNCHANGED <<quit, state, chans, sends, loops, conn, grace, asked, events>>

RemoveGuild(h) ==
  LET g == target[h] IN
  /\ At(h, "remove") /\ WritesGuilds
  /\ guilds' = guilds \ {g} /\ fresh' = fresh \ {g}
  /\ since' = [since EXCEPT ![g] = UpdateGrace]
  /\ object' = [object EXCEPT ![g] = Nobody]
  /\ Return(h)
  /\ UNCHANGED <<quit, chans, sends, loops, conn, waited, todo, keep, asked, events>>

-----------------------------------------------------------------------------
(* memberIngestionLoop: quit is looked at before each receive. *)
TestIngest ==
  /\ Alive /\ ingest = "test"
  /\ ingest' = IF quit # "now" THEN "receive" ELSE "stopped"
  /\ UNCHANGED <<quit, state, chans, handlers, fetching, writer, conn, grace, fatal, asked, events>>

Ingest ==
  /\ Alive /\ ingest = "receive"
  /\ \/ /\ memberChan # << >>
        /\ fetching' = Head(memberChan) /\ memberChan' = Tail(memberChan) /\ ingest' = "fetch"
     \/ /\ memberChan = << >> /\ closed
        /\ ingest' = "stopped" /\ UNCHANGED <<fetching, memberChan>>
  /\ UNCHANGED <<quit, state, closed, deferred, handlers, writer, conn, grace, fatal, asked, events>>

(* Pages of 999 members until one is empty; they go to the State. *)
AllPages == ingested' = ingested \cup {fetching} /\ UNCHANGED cutShort

(* The pages before one that fails go there as well, the rest is not asked for again. *)
PageFails == cutShort' = cutShort \cup {fetching} /\ UNCHANGED ingested

(* Faulty variant: a page that fails ends the loop over the guilds. *)
FetchOrLeave ==
  /\ Alive /\ ingest = "fetch"
  /\ fetching' = Nowhere
  /\ \/ AllPages /\ ingest' = "test"
     \/ PageFails /\ ingest' = "stopped"
  /\ UNCHANGED <<quit, state, chans, handlers, writer, conn, grace, fatal, events>>

Fetch ==
  /\ Alive /\ ingest = "fetch"
  /\ fetching' = Nowhere /\ ingest' = "test"
  /\ AllPages \/ PageFails
  /\ UNCHANGED <<quit, state, chans, handlers, writer, conn, grace, fatal, events>>

(* Faulty variant: the loop ends when the database is not there. *)
TestDatabase ==
  /\ Alive /\ writer = "test"
  /\ writer' \in {IF quit # "now" THEN "receive" ELSE "stopped", "stopped"}
  /\ UNCHANGED <<quit, state, chans, handlers, ingest, fetching, conn, grace, fatal, asked, events>>

(* deferProcessing *)
TestWriter ==
  /\ Alive /\ writer = "test"
  /\ writer' = IF quit # "now" THEN "receive" ELSE "stopped"
  /\ UNCHANGED <<quit, state, chans, handlers, ingest, fetching, conn, grace, fatal, asked, events>>

ReceiveDeferred ==
  /\ Alive /\ writer = "receive" /\ deferred > 0
  /\ deferred' = deferred - 1 /\ writer' = "write"
  /\ UNCHANGED <<quit, state, memberChan, closed, handlers, ingest, fetching, conn, grace, fatal, asked, events>>

(* Close sets db.db to nil, and a failing statement pings it. *)
WriteDeferred ==
  /\ Alive /\ writer = "write"
  /\ writer' = "test"
  /\ \/ UNCHANGED fatal
     \/ conn \in {"closing", "exiting"} /\ fatal' = "database"
  /\ UNCHANGED <<quit, state, chans, handlers, ingest, fetching, conn, grace, asked, events>>

-----------------------------------------------------------------------------
(* Connect *)
(* A line on standard input, at any time. *)
Console ==
  /\ Alive /\ quit # "now"
  /\ quit' = "now"
  /\ UNCHANGED <<state, chans, handlers, loops, conn, grace, fatal, asked, events>>

Poll ==
  /\ Alive /\ conn = "running" /\ quit # "none"
  /\ conn' = "grace" /\ waited' = 0
  /\ UNCHANGED <<quit, state, chans, handlers, loops, todo, keep, fresh, fatal, asked, events>>

InGrace(g) == since[g] < UpdateGrace

(* Faulty variant: nobody counts how long the raids go on. *)
RoundForever ==
  /\ Alive /\ conn = "grace"
  /\ IF quit = "raid"
     THEN /\ conn' = "round" /\ todo' = guilds /\ keep' = FALSE
          /\ fresh' = {g \in guilds : InGrace(g)}
     ELSE conn' = "closing" /\ UNCHANGED <<todo, keep, fresh>>
  /\ UNCHANGED <<quit, state, chans, handlers, loops, waited, fatal, asked, events>>

Round ==
  /\ Alive /\ conn = "grace"
  /\ IF waited < MaxUpdateGrace /\ quit = "raid"
     THEN /\ conn' = "round" /\ todo' = guilds /\ keep' = FALSE
          /\ fresh' = {g \in guilds : InGrace(g)}
     ELSE conn' = "closing" /\ UNCHANGED <<todo, keep, fresh>>
  /\ UNCHANGED <<quit, state, chans, handlers, loops, waited, fatal, asked, events>>

(* Faulty variant: the last guild of the range decides. *)
LookGoingOn(g) ==
  /\ Alive /\ conn = "round" /\ g \in todo
  /\ keep' = InGrace(g) /\ todo' = todo \ {g}
  /\ UNCHANGED <<quit, state, chans, handlers, loops, conn, waited, fresh, fatal, asked, events>>

(* A guild that was removed meanwhile may or may not come up in the range. *)
Look(g) ==
  /\ Alive /\ conn = "round" /\ g \in todo
  /\ keep' = InGrace(g)
  /\ todo' = IF InGrace(g) THEN {} ELSE todo \ {g}
  /\ UNCHANGED <<quit, state, chans, handlers, loops, conn, waited, fresh, fatal, asked, events>>

SkipRemoved(g) ==
  /\ Alive /\ conn = "round" /\ g \in todo \ guilds
  /\ todo' = todo \ {g}
  /\ UNCHANGED <<quit, state, chans, handlers, loops, conn, waited, keep, fresh, fatal, asked, events>>

RoundEnds ==
  /\ Alive /\ conn = "round" /\ todo = {}
  /\ conn' = IF keep THEN "sleep" ELSE "grace"
  /\ quit' = IF keep THEN quit ELSE "now"
  /\ keep' = FALSE /\ fresh' = {}
  /\ UNCHANGED <<state, chans, handlers, loops, waited, todo, fatal, asked, events>>

(* DG.Close and DB.Close are over; the channel is closed under the lock. *)
CloseMembers ==
  /\ Alive /\ conn = "closing" /\ LockFree
  /\ closed' = TRUE /\ conn' = "exiting"
  /\ UNCHANGED <<quit, state, memberChan, deferred, handlers, loops, grace, fatal, asked, events>>

Exit ==
  /\ Alive /\ conn = "exiting" /\ conn' = "exited"
  /\ UNCHANGED <<quit, state, chans, handlers, loops, grace, fatal, asked, events>>

(* Connect looks more often than the unit of time passes. *)
TimePasses ==
  /\ Alive
  /\ (conn = "running" /\ quit = "none") \/ conn = "sleep"
  /\ since' = [g \in Guild |-> IF InGrace(g) THEN since[g] + 1 ELSE UpdateGrace]
  /\ waited' = IF conn = "sleep" /\ waited < MaxUpdateGrace THEN waited + 1 ELSE waited
  /\ conn' = IF conn = "sleep" THEN "grace" ELSE conn
  /\ UNCHANGED <<quit, guilds, object, chans, handlers, loops, todo, keep, fresh, fatal, asked, events>>

Step(h) ==
  \/ Lookup(h) \/ Publish(h) \/ CheckQuit(h) \/ SendMember(h) \/ Registered(h)
  \/ Defer(h) \/ DeferMember(h) \/ Serve(h) \/ RemoveGuild(h) \/ Announced(h)

Closing == Poll \/ Round \/ RoundEnds \/ CloseMembers \/ Exit \/ \E g \in Guild : Look(g) \/ SkipRemoved(g)

Reading == TestIngest \/ Ingest \/ Fetch

Writing == TestWriter \/ ReceiveDeferred \/ WriteDeferred

LNext ==
  \/ \E h \in EventHandler, g \in Guild :
       GuildCreate(h, g) \/ MessageCreate(h, g) \/ GuildMemberUpdate(h, g) \/ GuildMemberRemove(h, g) \/ UpdateCommand(h, g)
  \/ \E g \in Guild : RaidStarts(g)
  \/ \E h \in EventHandler : Step(h)
  \/ Reading \/ Writing \/ Console \/ Closing \/ TimePasses

LSpec == LInit /\ [][LNext]_lvars

(* Goroutines run, Discord and the database answer, senders to a channel wait in
   line, time passes. *)
LFairSpec ==
  /\ LSpec
  /\ \A h \in EventHandler : WF_lvars(Step(h))
  /\ WF_lvars(Reading) /\ WF_lvars(Writing) /\ WF_lvars(Closing) /\ WF_lvars(TimePasses)

-----------------------------------------------------------------------------
(* The types of the process: the channels stay within their capacity.  *)
LTypeOK ==
  /\ quit \in {"none", "raid", "now"} /\ guilds \subseteq Guild
  /\ object \in [Guild -> EventHandler \cup {Nobody}]
  /\ memberChan \in Seq(Guild) /\ Len(memberChan) <= MemberCap /\ closed \in BOOLEAN
  /\ deferred \in 0..DeferCap
  /\ conn \in {"running", "grace", "round", "sleep", "closing", "exiting", "exited"}
  /\ fatal \in {"none", "closed", "guilds", "commands", "database"}
  /\ todo \subseteq Guild /\ fresh \subseteq Guild /\ ingested \subseteq Guild /\ cutShort \subseteq Guild

(***************************************************************************)
(* "QuitRaid means to wait until no raids have occurred before quitting":   *)
(* no round of Connect ends the wait while a guild that was there all along *)
(* was in its grace when the round began.  A line on standard input may.    *)
(***************************************************************************)
GraceRespected == [][conn = "round" /\ conn' # "round" /\ quit' # quit => fresh = {}]_lvars

(* No handler waits for ever on a full channel or a lock: it returns, or the
   process ends.  *)
HandlersReturn == \A h \in EventHandler : stage[h] # "idle" ~> stage[h] = "idle" \/ ~Alive

(* A guild that is attached "just has to happen eventually" (sweetiebot.go:259): its
   members are asked for after that, to the last page or to one that fails, whichever
   other guilds wait for theirs or have had a page fail, unless the bot quits.  *)
AttachedIsAskedFor ==
  \A g \in Guild : g \in guilds ~> g \in ingested \/ g \in cutShort \/ quit # "none" \/ ~Alive

(* A bot that is told to quit does, however long the raids go on and whoever
   waits on the channel or the lock it closes.  *)
ShutdownCompletes == quit # "none" ~> ~Alive
=============================================================================
