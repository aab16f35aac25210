---------------------------- MODULE SpamPressure ----------------------------
(***************************************************************************)
(* The pressure of one member (spammodule/SpamModule.go): every message     *)
(* adds to it, time takes from it, and above the limit the member is        *)
(* silenced by a Discord timeout and the moderators are told, once.         *)
(*                                                                          *)
(* Each message is handled in a goroutine of its own.  The tracker is       *)
(* shared without a lock; the map of the silenced has one.  The filter      *)
(* module adds pressure too, moderators silence and unsilence by hand.      *)
(*                                                                          *)
(* One member stands for all: nothing here is shared between two of them.   *)
(***************************************************************************)
EXTENDS Integers, Sequences, FiniteSetsExt

CONSTANTS Poster,          (* goroutines that handle a message                *)
          Text,            (* contents a message may have                     *)
          Weight,          (* their files, pings, length and lines            *)
          BasePressure, RepeatPressure, FilterPressure, MaxPressure,
          PressureDecay,   (* seconds to lose BasePressure                    *)
          Brief,           (* 50 s                                            *)
          SpamScopes       (* the instances explored; each gives
                              inTurn: whether messages come one after the other,
                              silenceTimeout: Spam.SilenceTimeout,
                              scales: MaxPressure by the limits the channels have
                              of their own, 1 for one that has none; and bounds:
                              posts, byHand: messages, and what else happens,
                              time: of the clock, late: the age of messages
                              that are delivered again                        *)

ASSUME SpamAssumption ==
  /\ Weight \in [Text -> Nat]
  /\ {BasePressure, RepeatPressure, FilterPressure, MaxPressure} \subseteq Nat
  /\ PressureDecay \in Nat \ {0} /\ BasePressure % PressureDecay = 0
  /\ Brief \in Nat \ {0}
  /\ SpamScopes \subseteq [inTurn : BOOLEAN, silenceTimeout : Nat, scales : SUBSET (Nat \ {0}),
                            posts : Nat, byHand : Nat, time : Nat, late : 0..1]

Never == -1
NoText == "nothing"
Repeated == -1             (* the pressure of a repeated text, if it is one     *)

VARIABLES
  allowed,         (* the instance this behaviour belongs to                  *)
  second,          (* the clock                                               *)
  track,           (* userPressure: pressure, lastmessage, lastcache          *)
  silenced,        (* SpamModule.silenced of the member, or Never             *)
  timeout,         (* Discord: until when the member cannot write, or Never   *)
  post,            (* where each goroutine stands, with its locals            *)
  posts, byHand,   (* bounds used up                                          *)
  charged,         (* history, in turn: what was added, at which lastmessage  *)
  marks, stay,     (* history: silencings so far, times the member has left   *)
  alerts           (* history: the alerts sent to the moderators              *)

svars == <<allowed, second, track, silenced, timeout, post, posts, byHand,
           charged, marks, stay, alerts>>
shistory == <<charged, marks, stay, alerts>>

Idle == [at |-> "idle", sent |-> 0, text |-> NoText, scale |-> 1, last |-> 0, due |-> << >>,
         read |-> 0, called |-> Never, wasSilenced |-> Never, mark |-> [nth |-> 0, set |-> 0, stay |-> 0]]

SInit ==
  /\ allowed \in SpamScopes
  /\ second = 1
  /\ track = [pressure |-> 0, last |-> Never, cache |-> NoText]
  /\ silenced = Never /\ timeout = Never
  /\ post = [h \in Poster |-> Idle]
  /\ posts = 0 /\ byHand = 0
  /\ charged = << >> /\ marks = 0 /\ stay = 0 /\ alerts = {}

inTurn == allowed.inTurn
silenceTimeout == allowed.silenceTimeout

AllIdle == \A h \in Poster : post[h].at = "idle"
MayBegin(h) == post[h].at = "idle" /\ (inTurn => AllIdle) /\ posts < allowed.posts
Becomes(h, r) == post' = [post EXCEPT ![h] = r]
ByHand == (inTurn => AllIdle) /\ byHand < allowed.byHand /\ byHand' = byHand + 1

(* TimeoutMember: without a timeout Discord is given none, and lifts what there is. *)
Timeout == IF silenceTimeout > 0 THEN second + silenceTimeout ELSE Never

-----------------------------------------------------------------------------
(* Discord delivers a message, or again one it has changed, with its old time. *)
Post(h, text, sent) ==
  /\ MayBegin(h) /\ posts' = posts + 1
  /\ \E scale \in allowed.scales :
       Becomes(h, [Idle EXCEPT !.at = "known", !.sent = sent, !.text = text, !.scale = scale])
  /\ UNCHANGED <<allowed, second, track, silenced, timeout, byHand, shistory>>

(* checkSpam: what a silenced member writes is deleted and not counted. *)
Known(h) ==
  /\ post[h].at = "known"
  /\ Becomes(h, IF silenced # Never /\ second < silenced THEN Idle
                ELSE [post[h] EXCEPT !.at = "track", !.wasSilenced = silenced])
  /\ UNCHANGED <<allowed, second, track, silenced, timeout, posts, byHand, shistory>>

(* TrackUser begins with the time of the first message. *)
Track(h) ==
  /\ post[h].at = "track"
  /\ track' = IF track.last = Never THEN [track EXCEPT !.last = post[h].sent] ELSE track
  /\ Becomes(h, [post[h] EXCEPT !.at = "stamp", !.last = track'.last])
  /\ UNCHANGED <<allowed, second, silenced, timeout, posts, byHand, shistory>>

Lost(interval) == (BasePressure \div PressureDecay) * interval

(* Faulty variant: an old time is not put right again. *)
StampKeeping(h) ==
  /\ post[h].at = "stamp"
  /\ LET p == post[h] IN
       IF p.sent < p.last
       THEN Becomes(h, Idle) /\ track' = [track EXCEPT !.last = p.sent]
       ELSE /\ track' = [track EXCEPT !.last = p.sent, !.pressure = Max({0, @ - Lost(p.sent - p.last)})]
            /\ Becomes(h, [p EXCEPT !.at = "load", !.due = <<BasePressure, Weight[p.text], Repeated>>])
  /\ UNCHANGED <<allowed, second, silenced, timeout, posts, byHand, shistory>>

(* "An invalid timestamp is never spam"; otherwise the time since the last message counts. *)
Stamp(h) ==
  /\ post[h].at = "stamp"
  /\ LET p == post[h] IN
       IF p.sent < p.last
       THEN Becomes(h, Idle) /\ track' = [track EXCEPT !.last = p.last]
       ELSE /\ track' = [track EXCEPT !.last = p.sent, !.pressure = Max({0, @ - Lost(p.sent - p.last)})]
            /\ Becomes(h, [p EXCEPT !.at = "load", !.due = <<BasePressure, Weight[p.text], Repeated>>])
  /\ UNCHANGED <<allowed, second, silenced, timeout, posts, byHand, shistory>>

(* matchFilter: TrackUser, then AddPressure, whoever is silenced. *)
Filtered(h) ==
  /\ MayBegin(h) /\ posts' = posts + 1
  /\ track' = IF track.last = Never THEN [track EXCEPT !.last = second] ELSE track
  /\ \E scale \in allowed.scales : Becomes(h, [Idle EXCEPT !.at = "load", !.scale = scale, !.due = <<FilterPressure>>])
  /\ UNCHANGED <<allowed, second, silenced, timeout, byHand, shistory>>

(***************************************************************************)
(* AddPressure, once per kind of pressure: track.pressure += p is a load    *)
(* and a store.  A repeated text adds to it last.  A channel with a limit   *)
(* of its own (MaxChannelPressure) weighs more, or less.                    *)
(***************************************************************************)
Pressure(h) == LET d == Head(post[h].due)
               IN IF d # Repeated THEN d ELSE IF post[h].text = track.cache THEN RepeatPressure ELSE 0
Amount(h) == Pressure(h) * post[h].scale

LoadPressure(h) ==
  /\ post[h].at = "load" /\ post[h].due # << >>
  /\ Becomes(h, [post[h] EXCEPT !.at = "store", !.read = track.pressure + Amount(h)])
  /\ charged' = IF ~inTurn \/ Amount(h) = 0 THEN charged ELSE Append(charged, [at |-> track.last, amount |-> Amount(h)])
  /\ UNCHANGED <<allowed, second, track, silenced, timeout, posts, byHand, marks, stay, alerts>>

StorePressure(h) ==
  /\ post[h].at = "store"
  /\ track' = [track EXCEPT !.pressure = post[h].read]
  /\ Becomes(h, [post[h] EXCEPT !.at = IF post[h].read > MaxPressure THEN "kill" ELSE "load",
                                !.due = Tail(@)])
  /\ UNCHANGED <<allowed, second, silenced, timeout, posts, byHand, shistory>>

(* Not spam. *)
Counted(h) ==
  /\ post[h].at = "load" /\ post[h].due = << >>
  /\ track' = IF post[h].text = NoText THEN track ELSE [track EXCEPT !.cache = post[h].text]
  /\ Becomes(h, Idle)
  /\ UNCHANGED <<allowed, second, silenced, timeout, posts, byHand, shistory>>

(* killSpammer, timeoutMember: Discord first, which may refuse. *)
Kill(h) ==
  /\ post[h].at = "kill"
  /\ \/ /\ timeout' = Timeout /\ UNCHANGED byHand
        /\ Becomes(h, [post[h] EXCEPT !.at = "mark", !.called = second])
     \/ /\ byHand < allowed.byHand /\ byHand' = byHand + 1 /\ UNCHANGED timeout
        /\ Becomes(h, [post[h] EXCEPT !.at = "mark"])
  /\ UNCHANGED <<allowed, second, track, silenced, posts, shistory>>

Marked(p) == [p EXCEPT !.at = "judge", !.wasSilenced = silenced,
                       !.mark = [nth |-> marks + 1, set |-> second, stay |-> stay]]
Silence == IF silenceTimeout > 0 THEN silenceTimeout ELSE Brief

(* Faulty variant: whether the member is known is what checkSpam had read. *)
MarkByOldRead(h) ==
  /\ post[h].at = "mark"
  /\ Becomes(h, [Marked(post[h]) EXCEPT !.wasSilenced = post[h].wasSilenced])
  /\ silenced' = second + Silence
  /\ marks' = marks + 1
  /\ UNCHANGED <<allowed, second, track, timeout, posts, byHand, charged, stay, alerts>>

(* Under silenceLock: look whether the member is known, and make it so. *)
Mark(h) ==
  /\ post[h].at = "mark"
  /\ Becomes(h, Marked(post[h]))
  /\ silenced' = second + Silence
  /\ marks' = marks + 1
  /\ UNCHANGED <<allowed, second, track, timeout, posts, byHand, charged, stay, alerts>>

(* After the lock; then older messages are deleted and, unless known, an alert is sent. *)
Judge(h) ==
  /\ post[h].at = "judge"
  /\ LET p == post[h] IN
       alerts' = IF p.wasSilenced # Never /\ second < p.wasSilenced THEN alerts
                 ELSE alerts \cup {[mark |-> p.mark, decided |-> second]}
  /\ Becomes(h, Idle)
  /\ UNCHANGED <<allowed, second, track, silenced, timeout, posts, byHand, charged, marks, stay>>

-----------------------------------------------------------------------------
(* OnGuildMemberRemove, and the member comes back: only the map forgets. *)
Leave ==
  /\ ByHand
  /\ silenced' = Never /\ stay' = stay + 1
  /\ UNCHANGED <<allowed, second, track, timeout, post, posts, charged, marks, alerts>>

(* !silence, and !raidsilence to everyone of a recent raid: the map is not told. *)
SilenceByHand ==
  /\ ByHand
  /\ timeout' = Timeout
  /\ UNCHANGED <<allowed, second, track, silenced, post, posts, shistory>>

(* A moderator lifts the timeout in Discord. *)
Lift ==
  /\ ByHand
  /\ timeout' = Never
  /\ post' = [h \in Poster |-> [post[h] EXCEPT !.called = Never]]
  /\ UNCHANGED <<allowed, second, track, silenced, posts, shistory>>

SecondPasses ==
  /\ second < allowed.time /\ second' = second + 1
  /\ UNCHANGED <<allowed, track, silenced, timeout, post, posts, byHand, shistory>>

Handle(h) == Known(h) \/ Track(h) \/ Stamp(h) \/ LoadPressure(h) \/ StorePressure(h) \/ Counted(h) \/ Kill(h) \/ Mark(h) \/ Judge(h)

SNext ==
  \/ \E h \in Poster : Handle(h) \/ Filtered(h) \/ \E text \in Text, sent \in second - allowed.late .. second : Post(h, text, sent)
  \/ Leave \/ SilenceByHand \/ Lift \/ SecondPasses

SSpec == SInit /\ [][SNext]_svars

-----------------------------------------------------------------------------
(***************************************************************************)
(* The pressure is that of a bucket that leaks BasePressure every           *)
(* PressureDecay seconds (BotConfig.go "pressuredecay"): the most that any  *)
(* run of additions up to the last one has left in it.  Messages delivered  *)
(* again with an old time do not drain it.                                  *)
(***************************************************************************)
LeftOf(i) == LET n == Len(charged)
             IN MapThenSumSet(LAMBDA j : charged[j].amount, i..n) - Lost(charged[n].at - charged[i].at)

PressureIsLeakyBucket ==
  inTurn /\ AllIdle => track.pressure = Max({0} \cup {LeftOf(i) : i \in 1..Len(charged)})

(***************************************************************************)
(* "Tracking users we know we've silenced so we only send the message once" *)
(* (SpamModule.go): however many messages are judged at a time, of two      *)
(* alerts about a member who has not left in between the later one comes    *)
(* after the earlier silence is over.                                       *)
(***************************************************************************)
AlertOnce ==
  \A x, y \in alerts : x.mark.nth < y.mark.nth /\ x.mark.stay = y.mark.stay => y.decided >= x.mark.set + Silence

(***************************************************************************)
(* "If a user's pressure exceeds this amount, they will be silenced"        *)
(* (BotConfig.go:161): when the call that silences has succeeded the member *)
(* cannot write, unless somebody has lifted the timeout meanwhile.          *)
(***************************************************************************)
SpammerIsSilenced == \A h \in Poster : post[h].at = "mark" /\ post[h].called = second => timeout > second
=============================================================================
