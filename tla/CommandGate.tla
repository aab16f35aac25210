----------------------------- MODULE CommandGate -----------------------------
(***************************************************************************)
(* The two limits a command passes on its way to Process (sweetiebot.go     *)
(* ProcessCommand): at most perDuration commands in Period seconds on one   *)
(* server, kept in a ring of timestamps (limiters.go SaturationLimit), and  *)
(* one use of a command per Interval seconds in a channel (commandLast).    *)
(*                                                                          *)
(* discordgo runs every event handler in a goroutine of its own: handlers   *)
(* interleave between the steps below, each of which is atomic in the code  *)
(* (under the ring's spinlock, under commandLock, or one assignment).       *)
(*                                                                          *)
(* Only commands that are subject to a limit are modelled: those of         *)
(* administrators, the bot itself and free channels touch neither.          *)
(***************************************************************************)
EXTENDS Integers, Sequences, FiniteSets

CONSTANTS Handler,       (* goroutines running ProcessCommand                *)
          Key,           (* cmdhash: a channel and a command in it           *)
          Settings,      (* values CommandPerDuration may be given; 0: no limit *)
          Throttled,     (* those whose command has an entry in CommandLimits *)
          Interval,      (* that entry                                       *)
          Scopes         (* the instances explored; each gives
                              period: CommandMaxDuration,
                              handlers: which goroutines take part,
                              keys: which commands are sent, and bounds:
                              lag: how late a message may be handled,
                              seconds, commands and changes (of the setting)
                              of the behaviour                               *)

ASSUME GateAssumption ==
  /\ Settings \subseteq Nat /\ Interval \in Nat \ {0} /\ Throttled \subseteq Key
  /\ Scopes \subseteq [period : Nat, handlers : SUBSET Handler, keys : SUBSET Key, lag : Nat,
                       seconds : Nat, commands : Nat, changes : Nat]

VARIABLES
  scope,        (* which of the instances this behaviour belongs to          *)
  clock,        (* seconds                                                   *)
  perDuration,  (* Config.Modules.CommandPerDuration                         *)
  changes,      (* how often it was changed                                  *)
  times,        (* SaturationLimit.times, a function on 0..size-1            *)
  index,        (* SaturationLimit.index                                     *)
  jammed,       (* SaturationLimit.lock was left set by a panic              *)
  last,         (* commandLast; 0 where the map has no entry                 *)
  pc,           (* where each handler stands                                 *)
  request,      (* the command each handler processes                        *)
  arrived,      (* how many commands arrived                                 *)
  overlapped,   (* history: two handlers were under way at once               *)
  accepted,     (* history: timestamps that passed the saturation limit      *)
  ran           (* history: throttled commands that passed both limits       *)

Period == scope.period
Lag == scope.lag

ring == <<times, index, jammed>>
config == <<perDuration, changes>>
traffic == <<request, arrived, overlapped>>
history == <<accepted, ran>>
vars == <<scope, clock, config, ring, last, pc, traffic, history>>

(* The epoch is far in the past: an unused slot never blocks a command. *)
Start == Period + Interval + Lag + 1

Request == [t : Nat, key : Key]

SlotCount == Cardinality(DOMAIN times)

(* realmod: Go's % made non-negative. *)
Slot(i) == i % SlotCount

(* Faulty variant: slots counted from one. *)
EmptyRingFromOne(n) == [i \in 1..n |-> 0]

EmptyRing(n) == [i \in 0..(n - 1) |-> 0]

Goto(h, label) == pc' = [pc EXCEPT ![h] = label]

Init ==
  /\ scope \in Scopes
  /\ clock = Start
  /\ perDuration \in Settings
  /\ changes = 0
  /\ times = << >>
  /\ index = 0
  /\ jammed = FALSE
  /\ last = [k \in Key |-> 0]
  /\ pc = [h \in Handler |-> "idle"]
  /\ request \in [Handler -> {[t |-> Start, key |-> k] : k \in scope.keys}]
  /\ arrived = 0
  /\ overlapped = FALSE
  /\ accepted = << >>
  /\ ran = << >>

(* cmdlimit > 0: the command has a limit of its own, else it runs at once. *)
OwnLimit(k) == IF k \in Throttled THEN "readLast" ELSE "idle"

(***************************************************************************)
(* A command arrives.  Its timestamp is the message's, so handlers may be   *)
(* out of order with respect to it.  In a debug channel only the second     *)
(* limit applies.                                                           *)
(***************************************************************************)
Arrive(h) ==
  /\ pc[h] = "idle"
  /\ arrived < scope.commands
  /\ arrived' = arrived + 1
  /\ overlapped' = (overlapped \/ \E g \in Handler \ {h} : pc[g] # "idle")
  /\ \E t \in (clock - Lag)..clock, k \in scope.keys, debug \in BOOLEAN :
       /\ request' = [request EXCEPT ![h] = [t |-> t, key |-> k]]
       /\ Goto(h, IF debug THEN OwnLimit(k) ELSE "size")
  /\ UNCHANGED <<scope, clock, config, ring, last, history>>

(* SendError for the missing permission, or on to the command's own limit, if any. *)
Permit(h) == \E permitted \in BOOLEAN : Goto(h, IF permitted THEN OwnLimit(request[h].key) ELSE "idle")

(* Faulty variant: the ring is taken as it is. *)
CheckSizeNever(h) ==
  /\ pc[h] = "size"
  /\ IF perDuration = 0 THEN Permit(h) ELSE Goto(h, "check")
  /\ UNCHANGED <<scope, clock, config, ring, last, traffic, history>>

(* len(times) < CommandPerDuration*2: decided without the ring's lock. *)
CheckSize(h) ==
  /\ pc[h] = "size"
  /\ IF perDuration = 0 THEN Permit(h)
     ELSE Goto(h, IF SlotCount < 2 * perDuration THEN "allocate" ELSE "check")
  /\ UNCHANGED <<scope, clock, config, ring, last, traffic, history>>

(* A new ring of zeros in place of the old one, again without the lock; the
   index stays. *)
Allocate(h) ==
  /\ pc[h] = "allocate"
  /\ times' = EmptyRing(2 * perDuration)
  /\ Goto(h, "check")
  /\ UNCHANGED <<scope, clock, config, index, jammed, last, traffic, history>>

(* Faulty variant: num in place of num-1. *)
OldestOffByOne == times[Slot(index - perDuration)]

(***************************************************************************)
(* SaturationLimit.check: would one more command be too many?  It looks at  *)
(* the perDuration-th most recent entry.                                    *)
(***************************************************************************)
Oldest == times[Slot(index - (perDuration - 1))]

(* Faulty variant: the period is not scaled to what the entry measures. *)
SaturatedTooLong(t) == t - Oldest <= 2 * Period

Saturated(t) == t - Oldest <= Period

Check(h) ==
  /\ pc[h] = "check"
  /\ SlotCount > 0
  /\ ~jammed
  /\ Goto(h, IF Saturated(request[h].t) THEN "idle" ELSE "append")
  /\ UNCHANGED <<scope, clock, config, ring, last, traffic, history>>

(***************************************************************************)
(* SaturationLimit.append, a step of its own.  Only then is the user's      *)
(* permission looked at: a command without it has used up its slot.         *)
(***************************************************************************)
Record(t) == /\ index' = Slot(index + 1)
             /\ times' = [times EXCEPT ![index'] = t]

AppendTime(h) ==
  /\ pc[h] = "append"
  /\ SlotCount > 0
  /\ ~jammed
  /\ Record(request[h].t)
  /\ accepted' = Append(accepted, request[h].t)
  /\ Permit(h)
  /\ UNCHANGED <<scope, clock, config, jammed, last, traffic, ran>>

(***************************************************************************)
(* realmod by the length of an empty ring panics inside the spinlock.       *)
(* ProcessCommand recovers, so the handler ends and the lock stays set: the *)
(* handlers that come to it later spin.  It takes a CommandPerDuration that *)
(* becomes 0 between two reads of it.                                       *)
(***************************************************************************)
Panic(h) ==
  /\ pc[h] \in {"check", "append"}
  /\ SlotCount = 0
  /\ ~jammed
  /\ jammed' = TRUE
  /\ Goto(h, "idle")
  /\ UNCHANGED <<scope, clock, config, times, index, last, traffic, history>>

(* RateLimit on a copy of commandLast's entry, read under the read lock. *)
ReadLast(h) ==
  /\ pc[h] = "readLast"
  /\ Goto(h, IF request[h].t - last[request[h].key] > Interval THEN "writeLast" ELSE "idle")
  /\ UNCHANGED <<scope, clock, config, ring, last, traffic, history>>

(* The entry is written under the write lock, taken anew; the command runs. *)
WriteLast(h) ==
  /\ pc[h] = "writeLast"
  /\ last' = [last EXCEPT ![request[h].key] = request[h].t]
  /\ ran' = Append(ran, request[h])
  /\ Goto(h, "idle")
  /\ UNCHANGED <<scope, clock, config, ring, traffic, accepted>>

(* !setconfig modules.commandperduration *)
SetConfig(n) ==
  /\ changes < scope.changes
  /\ n # perDuration
  /\ perDuration' = n
  /\ changes' = changes + 1
  /\ UNCHANGED <<scope, clock, ring, last, pc, traffic, history>>

Tick ==
  /\ clock < Start + scope.seconds
  /\ clock' = clock + 1
  /\ UNCHANGED <<scope, config, ring, last, pc, traffic, history>>

Step(h) == \/ Arrive(h) \/ CheckSize(h) \/ Allocate(h) \/ Check(h)
           \/ AppendTime(h) \/ Panic(h) \/ ReadLast(h) \/ WriteLast(h)

Next ==
  \/ \E h \in scope.handlers : Step(h)
  \/ \E n \in Settings : SetConfig(n)
  \/ Tick

Spec == Init /\ [][Next]_vars

-----------------------------------------------------------------------------
(* The types of the limiter: the ring is a slice counted from zero, its index
   and timestamps are never negative (realmod), and ProcessCommand stands at
   one of its steps.                                                         *)
TypeOK ==
  /\ scope \in Scopes /\ clock \in Nat /\ perDuration \in Settings /\ changes \in Nat
  /\ DOMAIN times = 0..(SlotCount - 1)
  /\ \A i \in DOMAIN times : times[i] \in Nat
  /\ index \in Nat /\ jammed \in BOOLEAN
  /\ last \in [Key -> Nat]
  /\ pc \in [Handler -> {"idle", "size", "allocate", "check", "append", "readLast", "writeLast"}]
  /\ request \in [Handler -> Request]
  /\ accepted \in Seq(Nat) /\ ran \in Seq(Request)

(***************************************************************************)
(* The ring holds the latest accepted timestamps, newest at index, and      *)
(* zeros behind them: concurrent appends lose nothing, whatever reallocates *)
(* the ring and wherever that leaves the index.                             *)
(***************************************************************************)
HoldsLatest(k) ==
  \A j \in 0..(SlotCount - 1) :
    times[Slot(index - j)] = IF j < k THEN accepted[Len(accepted) - j] ELSE 0

RingHoldsLatest ==
  SlotCount > 0 => \E k \in 0..SlotCount : k <= Len(accepted) /\ HoldsLatest(k)

(***************************************************************************)
(* Nothing but a change of the setting can make a handler consult a ring    *)
(* without slots and leave its spinlock set: whichever handler allocates    *)
(* the ring, the others do not get ahead of it.                             *)
(***************************************************************************)
JamsOnlyAfterChange == jammed => changes > 0

(***************************************************************************)
(* "At most 3 commands can be run every 20 seconds" (BotConfig.go), for the *)
(* configured numbers, while these do not change: no Period seconds contain *)
(* more than perDuration accepted timestamps, in whatever order the         *)
(* messages were handled.                                                   *)
(***************************************************************************)
InWindow(from) == {i \in 1..Len(accepted) : accepted[i] \in from..(from + Period)}

AtMostPerDuration ==
  changes = 0 => \A i \in 1..Len(accepted) : Cardinality(InWindow(accepted[i])) <= perDuration

(* The same as long as handlers do not overlap: between Check and AppendTime
   another handler may pass Check.                                           *)
AtMostPerDurationInTurn == ~overlapped => AtMostPerDuration

(***************************************************************************)
(* Messages handled in order are never refused without cause, however       *)
(* handlers overlap and after perDuration was raised or lowered: when a     *)
(* handler is refused, perDuration commands were accepted in the Period     *)
(* seconds before, unless an accepted message is later than this one or     *)
(* than one accepted after it, or the setting was raised beyond the ring    *)
(* after the handler had measured it: the entry it then looks at is not the *)
(* perDuration-th.                                                          *)
(***************************************************************************)
Refuses(h) == pc[h] = "check" /\ pc'[h] = "idle"

InOrder(t) == LET all == Append(accepted, t)
              IN  \A i, j \in 1..Len(all) : i < j => all[i] <= all[j]

RefusedForCause ==
  [][\A h \in Handler :
       Refuses(h) /\ InOrder(request[h].t) /\ ~jammed' /\ perDuration <= SlotCount
         => Cardinality(InWindow(request[h].t - Period)) >= perDuration]_vars

(***************************************************************************)
(* "The command can't be used more than once every 30 seconds"              *)
(* (BotConfig.go): two runs of a command in a channel are further apart,    *)
(* if handlers do not overlap; a second handler may read before the first   *)
(* has written, RateLimit's compare-and-swap being on a copy.               *)
(***************************************************************************)
OncePerInterval ==
  ~overlapped =>
  \A i, j \in 1..Len(ran) :
    i < j /\ ran[i].key = ran[j].key => ran[j].t - ran[i].t > Interval

(* What a server is promised while its commands come one at a time, from a ring *)
(* that is sound whatever happens (ProcessCommand, SaturationLimit).            *)
LimitsHold == AtMostPerDurationInTurn /\ OncePerInterval /\ RingHoldsLatest
=============================================================================
