------------------------------ MODULE MCProcess ------------------------------
(* Instances of GuildLifecycle, Watchdog and DatabaseStatus for TLC.  They share
   little but the end of the process: a behaviour explores one of them. *)
EXTENDS GuildLifecycle, Watchdog, DatabaseStatus

CONSTANTS a, b, g1, g2

TwoHandlers == {a, b}
TwoGuilds == {g1, g2}
(* Guilds are attached, served and removed; or !update was given while there is
   one, which may be removed or served, or the other attached, meanwhile. *)
FewEvents == {[guilds |-> {}, events |-> 2, quit |-> "none"],
              [guilds |-> {g1}, events |-> 1, quit |-> "raid"]}
Nothing == {}

VARIABLE part

InGuilds(A) == part = "guilds" /\ A /\ UNCHANGED <<part, wvars, vars>>
InHeartbeat(A) == part = "heartbeat" /\ A /\ UNCHANGED <<part, lvars, vars>>
InDatabase(A) == part = "database" /\ A /\ UNCHANGED <<part, lvars, wvars>>

(* The parts that are not explored begin, and stay, in one state. *)
ProcessInit ==
  /\ part \in {"guilds", "heartbeat", "database"}
  /\ part = "guilds" \/ guilds = {}
  /\ part = "heartbeat" \/ (heartbeat = 0 /\ prefix = "!")
  /\ part = "database" \/ up = FALSE
  /\ LInit /\ WInit /\ Init

ProcessNext ==
  \/ \E h \in EventHandler, g \in Guild :
       \/ InGuilds(GuildCreate(h, g)) \/ InGuilds(MessageCreate(h, g)) \/ InGuilds(GuildMemberUpdate(h, g))
       \/ InGuilds(GuildMemberRemove(h, g)) \/ InGuilds(UpdateCommand(h, g))
  \/ \E h \in EventHandler :
       \/ InGuilds(Lookup(h)) \/ InGuilds(Publish(h)) \/ InGuilds(CheckQuit(h))
       \/ InGuilds(SendMember(h)) \/ InGuilds(Registered(h)) \/ InGuilds(Defer(h)) \/ InGuilds(DeferMember(h))
       \/ InGuilds(Serve(h)) \/ InGuilds(RemoveGuild(h)) \/ InGuilds(Announced(h))
  \/ \E g \in Guild : InGuilds(RaidStarts(g)) \/ InGuilds(Look(g)) \/ InGuilds(SkipRemoved(g))
  \/ InGuilds(TestIngest) \/ InGuilds(Ingest) \/ InGuilds(Fetch)
  \/ InGuilds(TestWriter) \/ InGuilds(ReceiveDeferred) \/ InGuilds(WriteDeferred)
  \/ InGuilds(Console) \/ InGuilds(Poll) \/ InGuilds(Round) \/ InGuilds(RoundEnds)
  \/ InGuilds(CloseMembers) \/ InGuilds(Exit) \/ InGuilds(TimePasses)
  \/ InHeartbeat(AddMain) \/ InHeartbeat(RemoveMain) \/ InHeartbeat(FindMain)
  \/ InHeartbeat(Send) \/ InHeartbeat(Answer) \/ InHeartbeat(Check) \/ InHeartbeat(Stop)
  \/ InHeartbeat(Deadlock) \/ \E p \in Prefix : InHeartbeat(SetPrefix(p))
  \/ InDatabase(Boot) \/ InDatabase(Booted) \/ InDatabase(Drop) \/ InDatabase(ComeBack) \/ InDatabase(Second)
  \/ \E who \in Actor :
       \/ InDatabase(Begin(who)) \/ InDatabase(Ask(who)) \/ InDatabase(Lock(who)) \/ InDatabase(Recheck(who))
       \/ InDatabase(Attempt(who)) \/ InDatabase(Ping(who)) \/ InDatabase(Load(who)) \/ InDatabase(Enable(who))
       \/ InDatabase(Execute(who)) \/ InDatabase(CheckError(who)) \/ InDatabase(DisableDB(who))

allvars == <<part, lvars, wvars, vars>>

(* LFairSpec, WFairSpec and FairSpec, each for its part. *)
ProcessSpec ==
  /\ ProcessInit /\ [][ProcessNext]_allvars
  /\ \A h \in EventHandler : WF_allvars(InGuilds(Step(h)))
  /\ WF_allvars(InGuilds(Reading)) /\ WF_allvars(InGuilds(Writing))
  /\ WF_allvars(InGuilds(Closing)) /\ WF_allvars(InGuilds(TimePasses))
  /\ WF_allvars(InHeartbeat(Send)) /\ WF_allvars(InHeartbeat(Check))
  /\ WF_allvars(InDatabase(Boot \/ Booted)) /\ WF_allvars(InDatabase(Begin(Idle)))
  /\ WF_allvars(InDatabase(Second)) /\ \A who \in Actor : WF_allvars(InDatabase(Work(who)))
==============================================================================
