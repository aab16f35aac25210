----------------------------- MODULE Process_proofs -----------------------------
(***************************************************************************)
(* What holds of the process for every number of guilds, handlers, strikes  *)
(* and late heartbeats: of Watchdog, and of GuildLifecycle.                 *)
(***************************************************************************)
EXTENDS GuildLifecycle, Watchdog, TLAPS

(***************************************************************************)
(* The detector.  The heartbeat is ahead of the counter by the answers of   *)
(* this interval, across the wrap; no answer comes from nowhere; and what   *)
(* was under way when the detector last looked has cost one strike of its   *)
(* two so far.                                                              *)
(***************************************************************************)
Ahead == \/ heartbeat = counter + answered
         \/ heartbeat = (counter + answered) - Width

Sent == IF at = "sleep" THEN 1 ELSE 0

(* Every answer belongs to a heartbeat that was under way, and there are too few
   of them to go round the counter.                                           *)
Answered ==
  /\ pending + answered <= before + Sent
  /\ ~dropped => pending + answered = before + Sent
  /\ before <= MaxLate \/ (stuck /\ answered = 0)

(* LateCostsTwo, with what is still to be paid. *)
Paid == ~dropped => missed + before <= 2 * late

LateInv == /\ WTypeOK /\ Ahead /\ Answered /\ Paid
           /\ at # "exited" => missed < MaxMissed

LEMMA FewAnswers == ASSUME LateInv PROVE answered < Width /\ answered \in Nat /\ pending \in Nat
BY WatchdogAssumption DEF LateInv, WTypeOK, Answered, Sent

(* The counter tells exactly one answer from none and from several. *)
LEMMA ExactlyOne == ASSUME LateInv PROVE heartbeat = Succ(counter) <=> answered = 1
<1>1. answered < Width /\ answered \in Nat
  BY FewAnswers
<1>2. heartbeat \in 0..(Width - 1) /\ counter \in 0..(Width - 1) /\ Width \in Nat /\ 1 < Width
  BY WatchdogAssumption DEF LateInv, WTypeOK
<1>3. CASE heartbeat = counter + answered
  BY <1>1, <1>2, <1>3 DEF Succ
<1>4. CASE heartbeat = (counter + answered) - Width
  BY <1>1, <1>2, <1>4 DEF Succ
<1> QED
  BY <1>3, <1>4 DEF LateInv, Ahead

LEMMA AnswerStep == ASSUME LateInv, Answer PROVE LateInv'
<1>1. /\ pending > 0 /\ ~stuck /\ heartbeat' = Succ(heartbeat) /\ pending' = pending - 1
      /\ answered' = answered + 1 /\ UNCHANGED <<counter, missed, at, prefix, main, before, late, dropped, stuck>>
  BY DEF Answer, detector, mainServer
<1>2. heartbeat \in 0..(Width - 1) /\ counter \in 0..(Width - 1) /\ Width \in Nat /\ 1 < Width
  BY WatchdogAssumption DEF LateInv, WTypeOK
<1>3. Ahead'
  BY <1>1, <1>2, FewAnswers DEF LateInv, Ahead, Succ
<1>4. Answered'
  BY <1>1, FewAnswers DEF LateInv, Answered, Sent, WTypeOK
<1>5. WTypeOK'
  BY <1>1, <1>2 DEF LateInv, WTypeOK, Succ
<1> QED
  BY <1>1, <1>3, <1>4, <1>5 DEF LateInv, Paid

(* One answer, none, or more than one: a strike more is paid for by a heartbeat
   that is late, or by one that has come.                                      *)
LEMMA CheckStep == ASSUME LateInv, Check PROVE LateInv'
<1>0. /\ at = "sleep" /\ (pending <= MaxLate \/ stuck)
      /\ at' \in {"exited", "send"} /\ (at' # "exited" => missed' < MaxMissed)
      /\ answered' = 0 /\ before' = pending
      /\ late' = IF missed' = 0 THEN pending
                 ELSE IF pending > before THEN late + (pending - before) ELSE late
      /\ UNCHANGED <<heartbeat, prefix, main, pending, dropped, stuck>>
  <2>1. missed' \in Int
    BY DEF Check, Compare, Miss, LateInv, WTypeOK
  <2> QED
    BY <2>1, WatchdogAssumption DEF Check, mainServer
<1>1. counter' = heartbeat /\ missed' = IF answered = 1 THEN 0 ELSE missed + 1
  BY ExactlyOne DEF Check, Compare, Miss
<1>2. /\ heartbeat \in 0..(Width - 1) /\ missed \in 0..(MaxMissed - 1) /\ MaxMissed \in Nat \ {0}
      /\ pending \in Nat /\ before \in Nat /\ answered \in Nat /\ late \in Nat /\ Width \in Nat /\ MaxLate \in Nat
  BY <1>0, WatchdogAssumption DEF LateInv, WTypeOK
<1>3. late' \in Nat /\ missed' \in 0..MaxMissed
  BY <1>0, <1>1, <1>2
<1>4. WTypeOK'
  BY <1>0, <1>1, <1>2, <1>3 DEF LateInv, WTypeOK
<1>5. Ahead' /\ Answered'
  BY <1>0, <1>1, <1>2 DEF Ahead, Answered, Sent
<1>6. ASSUME ~dropped PROVE missed' + pending <= 2 * late'
  <2>1. pending + answered = before + 1 /\ missed + before <= 2 * late
    BY <1>0, <1>6 DEF LateInv, Answered, Sent, Paid
  <2>2. CASE answered = 0
    <3>1. missed' = missed + 1 /\ late' = late + 1
      BY <1>0, <1>1, <1>2, <2>1, <2>2
    <3> QED
      BY <1>2, <2>1, <2>2, <3>1
  <2>3. CASE answered = 1
    BY <1>0, <1>1, <1>2, <2>3
  <2>4. CASE answered > 1
    <3>1. missed' = missed + 1 /\ late' = late
      BY <1>0, <1>1, <1>2, <2>1, <2>4
    <3> QED
      BY <1>2, <2>1, <2>4, <3>1
  <2> QED
    BY <1>2, <2>2, <2>3, <2>4
<1> QED
  BY <1>0, <1>4, <1>5, <1>6 DEF LateInv, Paid

LEMMA LateStep == ASSUME LateInv, [WNext]_wvars PROVE LateInv'
<1> USE DEF detector, mainServer, history
<1>1. CASE Send
  <2>1. /\ at = "sleep" => FALSE
        /\ at' = "sleep" /\ pending' \in {pending, pending + 1} /\ (dropped' \/ pending' = pending + 1)
        /\ dropped' \in BOOLEAN /\ (~dropped' => ~dropped)
        /\ UNCHANGED <<heartbeat, counter, missed, prefix, main, answered, before, late, stuck>>
    BY <1>1 DEF Send, LateInv, WTypeOK
  <2>2. pending \in Nat /\ answered \in Nat /\ before \in Nat
    BY DEF LateInv, WTypeOK
  <2>3. WTypeOK'
    BY <2>1, <2>2 DEF LateInv, WTypeOK
  <2>4. Answered'
    <3>1. Sent = 0 /\ Sent' = 1
      BY <2>1 DEF Sent
    <3>0. /\ pending + answered <= before + 0
          /\ ~dropped => pending + answered = before + 0
      BY <3>1 DEF LateInv, Answered
    <3>2. pending' + answered <= before + 1
      <4>1. pending' = pending \/ pending' = pending + 1
        BY <2>1
      <4> QED
        BY <2>2, <3>0, <4>1
    <3>3. ASSUME ~dropped' PROVE pending' + answered = before + 1
      <4>1. ~dropped /\ pending' = pending + 1
        BY <2>1, <3>3
      <4> QED
        BY <2>2, <3>0, <4>1
    <3> QED
      BY <2>1, <3>1, <3>2, <3>3 DEF LateInv, Answered
  <2>5. at # "exited"
    BY <1>1 DEF Send
  <2> QED
    BY <2>1, <2>3, <2>4, <2>5 DEF LateInv, Ahead, Paid
<1>2. CASE AddMain \/ RemoveMain \/ Deadlock \/ \E p \in Prefix : SetPrefix(p)
  <2>1. /\ UNCHANGED <<heartbeat, counter, missed, at, pending, answered, before, late, dropped>>
        /\ stuck \in BOOLEAN /\ (stuck => stuck') /\ stuck' \in BOOLEAN /\ main' \in BOOLEAN /\ prefix' \in Prefix
    BY <1>2 DEF AddMain, RemoveMain, Deadlock, SetPrefix, LateInv, WTypeOK
  <2> QED
    BY <2>1 DEF LateInv, WTypeOK, Ahead, Answered, Sent, Paid
<1>3. CASE FindMain \/ Stop
  <2>1. /\ UNCHANGED <<heartbeat, counter, missed, prefix, main, pending, answered, before, late, dropped, stuck>>
        /\ at \notin {"sleep", "exited"} /\ at' \in {"send", "stopped"}
    BY <1>3 DEF FindMain, Stop
  <2> QED
    BY <2>1 DEF LateInv, WTypeOK, Ahead, Answered, Sent, Paid
<1>4. CASE UNCHANGED wvars
  BY <1>4 DEF wvars, LateInv, WTypeOK, Ahead, Answered, Sent, Paid
<1> QED
  BY <1>1, <1>2, <1>3, <1>4, AnswerStep, CheckStep DEF WNext

LEMMA LateInit == WInit => LateInv
<1> SUFFICES ASSUME WInit PROVE LateInv
  OBVIOUS
<1>1. heartbeat \in 0..(Width - 1) /\ counter = heartbeat /\ Width \in Nat /\ MaxLate \in Nat /\ MaxMissed \in Nat \ {0}
  BY WatchdogAssumption DEF WInit
<1>2. WTypeOK
  <2>1. missed \in 0..MaxMissed /\ prefix \in Prefix /\ counter \in 0..(Width - 1)
    BY <1>1 DEF WInit
  <2> QED
    BY <1>1, <2>1 DEF WInit, WTypeOK
<1>3. Ahead /\ Answered /\ Paid /\ missed < MaxMissed
  BY <1>1 DEF WInit, Ahead, Answered, Sent, Paid
<1> QED
  BY <1>2, <1>3 DEF LateInv

(* The count of answers stays a uint32, and the strikes below their limit until
   the process is ended.                                                       *)
THEOREM WatchdogTypeCorrect == WSpec => []WTypeOK
<1>1. LateInv => WTypeOK
  BY DEF LateInv
<1> QED
  BY <1>1, LateInit, LateStep, PTL DEF WSpec

(* However many strikes there are and heartbeats under way, an answer that comes
   late costs two strikes and no more, also when the count wraps.              *)
THEOREM LateAlwaysCostsTwo == WSpec => []LateCostsTwo
<1>1. LateInv => LateCostsTwo
  BY DEF LateInv, WTypeOK, Paid, LateCostsTwo
<1> QED
  BY <1>1, LateInit, LateStep, PTL DEF WSpec
-----------------------------------------------------------------------------
(***************************************************************************)
(* The life of the process.  What LTypeOK needs besides: a handler that is  *)
(* at work has a guild, and what is in the channels came from one.          *)
(***************************************************************************)
Working == {"lookup", "publish", "check", "member", "again", "register", "defer", "deferMember",
            "serve", "remove", "announce"}

HandlersTyped ==
  /\ stage \in [EventHandler -> Working \cup {"idle"}]
  /\ target \in [EventHandler -> Guild \cup {Nowhere}]
  /\ \A h \in EventHandler : stage[h] # "idle" => target[h] \in Guild

(* A guild in grace is still to be looked at in a round, until one was found. *)
RoundInv == conn = "round" =>
  /\ keep \in BOOLEAN
  /\ fresh \subseteq {g \in guilds : InGrace(g)}
  /\ IF keep THEN todo = {} ELSE fresh \subseteq todo

LifeInv == /\ LTypeOK /\ HandlersTyped /\ since \in [Guild -> 0..UpdateGrace]
           /\ ingest = "fetch" => fetching \in Guild

(* A handler that begins, goes on, returns. *)
LEMMA EventTyped ==
  ASSUME LifeInv, NEW h \in EventHandler, NEW g \in Guild, NEW where \in Working, NEW n, Event(h, g, where, n)
  PROVE  LifeInv'
<1>1. HandlersTyped'
  BY DEF LifeInv, HandlersTyped, Event
<1> QED
  BY <1>1 DEF Event, LifeInv, LTypeOK, state, chans, loops, grace, asked

LEMMA AdvanceTyped ==
  ASSUME HandlersTyped, NEW h \in EventHandler, stage[h] # "idle", NEW where \in Working, Advance(h, where)
  PROVE  HandlersTyped'
BY DEF HandlersTyped, Advance

LEMMA ReturnTyped ==
  ASSUME HandlersTyped, NEW h \in EventHandler, Return(h) PROVE HandlersTyped'
BY DEF HandlersTyped, Return

LEMMA StepTyped == ASSUME LifeInv, NEW h \in EventHandler, Step(h) PROVE LifeInv'
<1> USE DEF state, chans, loops, grace, asked
<1>0. LTypeOK /\ HandlersTyped /\ since \in [Guild -> 0..UpdateGrace] /\ UpdateGrace \in Nat
      /\ (stage[h] # "idle" => target[h] \in Guild) /\ (ingest = "fetch" => fetching \in Guild)
  BY LifecycleAssumption DEF LifeInv, HandlersTyped
<1>1. CASE Lookup(h)
  <2>1. HandlersTyped'
    BY <1>0, <1>1, AdvanceTyped DEF Lookup, At, Working
  <2> QED
    BY <1>0, <1>1, <2>1 DEF Lookup, LifeInv, LTypeOK
<1>2. CASE Publish(h)
  <2>1. HandlersTyped'
    BY <1>0, <1>2, AdvanceTyped DEF Publish, At, Working
  <2>2. guilds' \subseteq Guild /\ object' \in [Guild -> EventHandler \cup {Nobody}]
        /\ since' \in [Guild -> 0..UpdateGrace] /\ fresh' \subseteq Guild
        /\ ingested' \subseteq Guild /\ cutShort' \subseteq Guild
    <3>1. target[h] \in Guild
      BY <1>0, <1>2 DEF Publish, At
    <3> QED
      BY <1>0, <1>2, <3>1 DEF Publish, LTypeOK
  <2>3. fatal' \in {fatal, "guilds"}
    BY <1>2 DEF Publish, WritesGuilds
  <2> QED
    BY <1>0, <1>2, <2>1, <2>2, <2>3 DEF Publish, LifeInv, LTypeOK
<1>3. CASE CheckQuit(h)
  <2>1. HandlersTyped'
    BY <1>0, <1>3, AdvanceTyped DEF CheckQuit, At, Working
  <2> QED
    BY <1>0, <1>3, <2>1 DEF CheckQuit, LifeInv, LTypeOK
<1>4. CASE SendMember(h)
  <2>0. stage[h] \in {"member", "again"} /\ target[h] \in Guild
    BY <1>0, <1>4 DEF SendMember, At
  <2>1. CASE closed
    <3>1. UNCHANGED <<stage, target, memberChan>> /\ fatal' = "closed"
      BY <1>4, <2>1 DEF SendMember
    <3> QED
      BY <1>0, <1>4, <3>1 DEF SendMember, LifeInv, LTypeOK, HandlersTyped
  <2>2. CASE ~closed
    <3>1. HandlersTyped'
      BY <1>0, <1>4, <2>0, <2>2, AdvanceTyped, ReturnTyped DEF SendMember, Working
    <3>2. memberChan' \in Seq(Guild) /\ Len(memberChan') <= MemberCap
      <4>1. memberChan \in Seq(Guild) /\ Len(memberChan) < MemberCap /\ memberChan' = Append(memberChan, target[h])
        BY <1>0, <1>4, <2>2 DEF SendMember, LTypeOK
      <4>2. MemberCap \in Nat
        BY LifecycleAssumption
      <4> QED
        BY <2>0, <4>1, <4>2
    <3> QED
      BY <1>0, <1>4, <2>2, <3>1, <3>2 DEF SendMember, LifeInv, LTypeOK
  <2> QED
    BY <2>1, <2>2
<1>5. CASE Registered(h)
  <2>1. HandlersTyped'
    BY <1>0, <1>5, ReturnTyped DEF Registered
  <2>2. object' \in [Guild -> EventHandler \cup {Nobody}]
    BY <1>0, <1>5 DEF Registered, LTypeOK
  <2> QED
    BY <1>0, <1>5, <2>1, <2>2 DEF Registered, LifeInv, LTypeOK
<1>6. CASE Defer(h) \/ DeferMember(h)
  <2>1. HandlersTyped'
    BY <1>0, <1>6, AdvanceTyped, ReturnTyped DEF Defer, DeferMember, At, Working
  <2>2. deferred' \in 0..DeferCap
    BY <1>0, <1>6, LifecycleAssumption DEF Defer, DeferMember, LTypeOK
  <2> QED
    BY <1>0, <1>6, <2>1, <2>2 DEF Defer, DeferMember, LifeInv, LTypeOK
<1>7. CASE Serve(h)
  <2>1. HandlersTyped'
    BY <1>0, <1>7, ReturnTyped DEF Serve
  <2>2. fatal' \in {fatal, "commands"}
    BY <1>7 DEF Serve
  <2> QED
    BY <1>0, <1>7, <2>1, <2>2 DEF Serve, LifeInv, LTypeOK
<1>8. CASE RemoveGuild(h)
  <2>1. HandlersTyped'
    BY <1>0, <1>8, ReturnTyped DEF RemoveGuild
  <2>2. guilds' \subseteq Guild /\ object' \in [Guild -> EventHandler \cup {Nobody}]
        /\ since' \in [Guild -> 0..UpdateGrace] /\ fresh' \subseteq Guild
    <3>1. /\ guilds' = guilds \ {target[h]} /\ object' = [object EXCEPT ![target[h]] = Nobody]
          /\ since' = [since EXCEPT ![target[h]] = UpdateGrace] /\ fresh' = fresh \ {target[h]}
      BY <1>8 DEF RemoveGuild
    <3>2. target[h] \in Guild
      BY <1>0, <1>8 DEF RemoveGuild, At
    <3> QED
      BY <1>0, <3>1, <3>2 DEF LTypeOK
  <2>3. fatal' \in {fatal, "guilds"}
    BY <1>8 DEF RemoveGuild, WritesGuilds
  <2> QED
    BY <1>0, <1>8, <2>1, <2>2, <2>3 DEF RemoveGuild, LifeInv, LTypeOK
<1>9. CASE Announced(h)
  <2>1. HandlersTyped'
    BY <1>0, <1>9, ReturnTyped DEF Announced
  <2> QED
    BY <1>0, <1>9, <2>1 DEF Announced, LifeInv, LTypeOK
<1> QED
  BY <1>1, <1>2, <1>3, <1>4, <1>5, <1>6, <1>7, <1>8, <1>9 DEF Step

LEMMA LifeStep == ASSUME LifeInv, [LNext]_lvars PROVE LifeInv'
<1> USE DEF state, chans, handlers, loops, grace, asked
<1>0. LTypeOK /\ HandlersTyped /\ since \in [Guild -> 0..UpdateGrace] /\ UpdateGrace \in Nat
      /\ (ingest = "fetch" => fetching \in Guild) /\ memberChan \in Seq(Guild)
      /\ deferred \in 0..DeferCap /\ DeferCap \in Nat
  BY LifecycleAssumption DEF LifeInv, LTypeOK
<1>1. ASSUME NEW h \in EventHandler, NEW g \in Guild,
             \/ GuildCreate(h, g) \/ MessageCreate(h, g) \/ GuildMemberUpdate(h, g)
             \/ GuildMemberRemove(h, g) \/ UpdateCommand(h, g)
      PROVE  LifeInv'
  <2>1. \E where \in Working, n \in {0, 1, 2} : Event(h, g, where, n)
    BY <1>1 DEF GuildCreate, MessageCreate, GuildMemberUpdate, GuildMemberRemove, UpdateCommand, Working
  <2> QED
    BY <2>1, EventTyped
<1>2. ASSUME NEW g \in Guild, RaidStarts(g) PROVE LifeInv'
  <2>1. since' \in [Guild -> 0..UpdateGrace]
    BY <1>0, <1>2 DEF RaidStarts
  <2> QED
    BY <1>0, <1>2, <2>1 DEF RaidStarts, LifeInv, LTypeOK, HandlersTyped
<1>3. CASE TestIngest \/ Fetch \/ TestWriter \/ WriteDeferred \/ Console \/ Poll
  BY <1>0, <1>3 DEF TestIngest, Fetch, AllPages, PageFails, TestWriter, WriteDeferred, Console, Poll, LifeInv, LTypeOK, HandlersTyped
<1>4. CASE Ingest
  <2>1. CASE memberChan # << >> /\ fetching' = Head(memberChan) /\ memberChan' = Tail(memberChan)
    <3>1. fetching' \in Guild /\ memberChan' \in Seq(Guild) /\ Len(memberChan') <= Len(memberChan) /\ Len(memberChan') \in Nat
      BY <1>0, <2>1
    <3>2. Len(memberChan') <= MemberCap
      BY <1>0, <3>1, LifecycleAssumption DEF LTypeOK
    <3> QED
      BY <1>0, <1>4, <3>1, <3>2 DEF Ingest, LifeInv, LTypeOK, HandlersTyped
  <2>2. CASE ingest' = "stopped" /\ UNCHANGED <<fetching, memberChan>>
    BY <1>0, <1>4, <2>2 DEF Ingest, LifeInv, LTypeOK, HandlersTyped
  <2> QED
    BY <1>4, <2>1, <2>2 DEF Ingest
<1>5. CASE ReceiveDeferred
  <2>1. deferred' \in 0..DeferCap
    BY <1>0, <1>5 DEF ReceiveDeferred
  <2> QED
    BY <1>0, <1>5, <2>1 DEF ReceiveDeferred, LifeInv, LTypeOK, HandlersTyped
<1>6. CASE Round \/ RoundEnds \/ \E g \in Guild : Look(g) \/ SkipRemoved(g)
  <2>1. todo' \subseteq Guild /\ fresh' \subseteq Guild /\ quit' \in {quit, "now"}
        /\ conn' \in {"grace", "round", "sleep", "closing"}
    BY <1>0, <1>6 DEF Round, RoundEnds, Look, SkipRemoved, LTypeOK
  <2> QED
    BY <1>0, <1>6, <2>1 DEF Round, RoundEnds, Look, SkipRemoved, LifeInv, LTypeOK, HandlersTyped
<1>7. CASE CloseMembers \/ Exit
  BY <1>0, <1>7 DEF CloseMembers, Exit, LifeInv, LTypeOK, HandlersTyped
<1>8. CASE TimePasses
  <2>1. since' \in [Guild -> 0..UpdateGrace]
    BY <1>0, <1>8 DEF TimePasses, InGrace
  <2> QED
    BY <1>0, <1>8, <2>1 DEF TimePasses, LifeInv, LTypeOK, HandlersTyped
<1>9. CASE UNCHANGED lvars
  BY <1>0, <1>9 DEF lvars, LifeInv, LTypeOK, HandlersTyped
<1> HIDE DEF state, chans, handlers, loops, grace, asked
<1> QED
  BY <1>1, <1>2, <1>3, <1>4, <1>5, <1>6, <1>7, <1>8, <1>9, StepTyped DEF LNext, Reading, Writing, Closing

LEMMA LifeInit == LInit => LifeInv
<1> SUFFICES ASSUME LInit PROVE LifeInv
  OBVIOUS
<1>1. guilds \subseteq Guild /\ quit \in {"none", "raid"} /\ ingested \subseteq Guild /\ cutShort \subseteq Guild
  BY LifecycleAssumption DEF LInit
<1>2. memberChan \in Seq(Guild) /\ Len(memberChan) <= MemberCap /\ deferred \in 0..DeferCap
  BY LifecycleAssumption DEF LInit
<1>3. since \in [Guild -> 0..UpdateGrace] /\ HandlersTyped
  BY LifecycleAssumption DEF LInit, HandlersTyped
<1> QED
  BY <1>1, <1>2, <1>3 DEF LInit, LifeInv, LTypeOK

(* The channels stay within their capacity, whichever handlers send to them, and
   carry guilds only.                                                         *)
THEOREM LifecycleTypeCorrect == LSpec => []LTypeOK
<1>1. LifeInv => LTypeOK
  BY DEF LifeInv
<1> QED
  BY <1>1, LifeInit, LifeStep, PTL DEF LSpec

LEMMA RoundStep == ASSUME LifeInv, RoundInv, [LNext]_lvars PROVE RoundInv'
<1> USE DEF state, chans, handlers, loops, grace, asked
<1>0. /\ since \in [Guild -> 0..UpdateGrace] /\ UpdateGrace \in Nat
      /\ guilds \subseteq Guild /\ todo \subseteq Guild /\ fresh \subseteq Guild
      /\ conn = "round" => /\ keep \in BOOLEAN
                           /\ fresh \subseteq {g \in guilds : InGrace(g)}
                           /\ IF keep THEN todo = {} ELSE fresh \subseteq todo
      /\ conn # "round" \/ \A g \in fresh : g \in guilds
  BY LifecycleAssumption DEF LifeInv, LTypeOK, RoundInv
<1>S. ASSUME UNCHANGED <<conn, todo, keep, fresh, since, guilds>> PROVE RoundInv'
  BY <1>S DEF RoundInv, InGrace
<1>1. ASSUME NEW h \in EventHandler, NEW g \in Guild,
             \/ GuildCreate(h, g) \/ MessageCreate(h, g) \/ GuildMemberUpdate(h, g)
             \/ GuildMemberRemove(h, g) \/ UpdateCommand(h, g)
      PROVE  RoundInv'
  BY <1>S, <1>1 DEF GuildCreate, MessageCreate, GuildMemberUpdate, GuildMemberRemove, UpdateCommand, Event
<1>2. ASSUME NEW h \in EventHandler,
             \/ Lookup(h) \/ CheckQuit(h) \/ SendMember(h) \/ Registered(h)
             \/ Defer(h) \/ DeferMember(h) \/ Serve(h)
      PROVE  RoundInv'
  BY <1>S, <1>2 DEF Lookup, CheckQuit, SendMember, Registered, Defer, DeferMember, Serve
<1>3. ASSUME NEW h \in EventHandler, Announced(h) PROVE RoundInv'
  BY <1>0, <1>S, <1>3 DEF Announced
<1>4. ASSUME NEW h \in EventHandler, Publish(h) PROVE RoundInv'
  <2>1. /\ guilds' = guilds \cup {target[h]} /\ since' = [since EXCEPT ![target[h]] = UpdateGrace]
        /\ fresh' = fresh \ {target[h]} /\ UNCHANGED <<conn, todo, keep>>
    BY <1>4 DEF Publish
  <2> QED
    BY <1>0, <2>1 DEF RoundInv, InGrace
<1>5. ASSUME NEW h \in EventHandler, RemoveGuild(h) PROVE RoundInv'
  <2>1. /\ guilds' = guilds \ {target[h]} /\ since' = [since EXCEPT ![target[h]] = UpdateGrace]
        /\ fresh' = fresh \ {target[h]} /\ UNCHANGED <<conn, todo, keep>>
    BY <1>5 DEF RemoveGuild
  <2> QED
    BY <1>0, <2>1 DEF RoundInv, InGrace
<1>6. ASSUME NEW g \in Guild, RaidStarts(g) PROVE RoundInv'
  <2>1. since' = [since EXCEPT ![g] = 0] /\ since[g] > 0 /\ UNCHANGED <<conn, todo, keep, fresh, guilds>>
    BY <1>6 DEF RaidStarts
  <2> QED
    BY <1>0, <2>1 DEF RoundInv, InGrace
<1>7. CASE Reading \/ Writing \/ Console
  BY <1>S, <1>7 DEF Reading, Writing, Console, TestIngest, Ingest, Fetch, TestWriter, ReceiveDeferred, WriteDeferred
<1>8. CASE Poll \/ RoundEnds \/ CloseMembers \/ Exit \/ TimePasses
  BY <1>8 DEF Poll, RoundEnds, CloseMembers, Exit, TimePasses, RoundInv
<1>9. CASE Round
  BY <1>9 DEF Round, RoundInv, InGrace
<1>10. ASSUME NEW g \in Guild, Look(g) PROVE RoundInv'
  <2>1. /\ conn = "round" /\ g \in todo /\ keep' = InGrace(g)
        /\ todo' = IF InGrace(g) THEN {} ELSE todo \ {g}
        /\ UNCHANGED <<conn, fresh, guilds, since>>
    BY <1>10 DEF Look
  <2>2. fresh \subseteq todo
    BY <1>0, <2>1
  <2>3. CASE InGrace(g)
    BY <1>0, <2>1, <2>3 DEF RoundInv, InGrace
  <2>4. CASE ~InGrace(g)
    <3>1. fresh \subseteq todo'
      BY <1>0, <2>1, <2>2, <2>4
    <3> QED
      BY <1>0, <2>1, <2>4, <3>1 DEF RoundInv, InGrace
  <2> QED
    BY <2>3, <2>4
<1>11. ASSUME NEW g \in Guild, SkipRemoved(g) PROVE RoundInv'
  <2>1. /\ conn = "round" /\ g \in todo \ guilds /\ todo' = todo \ {g}
        /\ UNCHANGED <<conn, fresh, guilds, since, keep>>
    BY <1>11 DEF SkipRemoved
  <2> QED
    BY <1>0, <2>1 DEF RoundInv, InGrace
<1>12. CASE UNCHANGED lvars
  BY <1>S, <1>12 DEF lvars
<1>13. CASE \E h \in EventHandler : Step(h)
  BY <1>2, <1>3, <1>4, <1>5, <1>13 DEF Step
<1> HIDE DEF state, chans, handlers, loops, grace, asked
<1> QED
  BY <1>1, <1>6, <1>7, <1>8, <1>9, <1>10, <1>11, <1>12, <1>13 DEF LNext, Closing

(* No step of a round ends the wait while a guild that was there all along was in
   its grace when the round began, for any number of guilds, raids and handlers
   that attach or remove guilds while Connect ranges over them.               *)
THEOREM GraceAlwaysRespected == LSpec => GraceRespected
<1>1. LInit => RoundInv
  BY DEF LInit, RoundInv
<1>2. LifeInv /\ RoundInv /\ [LNext]_lvars => [conn = "round" /\ conn' # "round" /\ quit' # quit => fresh = {}]_lvars
  <2> USE DEF state, chans, handlers, loops, grace, asked
  <2> SUFFICES ASSUME LifeInv, RoundInv, LNext, conn = "round", conn' # "round", quit' # quit PROVE fresh = {}
    OBVIOUS
  <2>1. keep \in BOOLEAN /\ (IF keep THEN todo = {} ELSE fresh \subseteq todo)
    BY DEF RoundInv
  <2>2. ASSUME NEW h \in EventHandler, NEW g \in Guild,
               \/ GuildCreate(h, g) \/ MessageCreate(h, g) \/ GuildMemberUpdate(h, g)
               \/ GuildMemberRemove(h, g) \/ UpdateCommand(h, g)
        PROVE  FALSE
    BY <2>2 DEF GuildCreate, MessageCreate, GuildMemberUpdate, GuildMemberRemove, UpdateCommand, Event
  <2>3. ASSUME NEW h \in EventHandler, Step(h) PROVE FALSE
    BY <2>1, <2>3 DEF Step, Lookup, Publish, CheckQuit, SendMember, Registered, Defer, DeferMember, Serve,
                      RemoveGuild, Announced
  <2>4. ASSUME \/ \E g \in Guild : RaidStarts(g) \/ Look(g) \/ SkipRemoved(g)
               \/ Reading \/ Writing \/ Console \/ Poll \/ Round \/ CloseMembers \/ Exit \/ TimePasses
        PROVE  FALSE
    BY <2>4 DEF RaidStarts, Look, SkipRemoved, Reading, Writing, TestIngest, Ingest, Fetch, TestWriter,
                ReceiveDeferred, WriteDeferred, Console, Poll, Round, CloseMembers, Exit, TimePasses
  <2>5. RoundEnds
    <3> HIDE DEF state, chans, handlers, loops, grace, asked
    <3> QED
      BY <2>2, <2>3, <2>4 DEF LNext, Closing
  <2> QED
    BY <2>1, <2>5 DEF RoundEnds
<1> QED
  BY <1>1, <1>2, LifeInit, LifeStep, RoundStep, PTL DEF LSpec, GraceRespected
=============================================================================
