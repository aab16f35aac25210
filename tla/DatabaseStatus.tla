--------------------------- MODULE DatabaseStatus ---------------------------
(***************************************************************************)
(* The database connection (sweetiebot/db.go) with its "No Database mode":  *)
(* Status says whether the prepared statements may be used; a failing       *)
(* statement clears it (CheckError), CheckStatus brings the connection and  *)
(* the statements back, at most once a while.                               *)
(*                                                                          *)
(* Every goroutine of the bot calls CheckStatus or Status.Get and then a    *)
(* statement; the idle loop calls CheckStatus for ever.  A ping, a Prepare, *)
(* an Exec and a log message (sent to Discord) separate the steps.          *)
(***************************************************************************)
EXTENDS Integers

CONSTANTS Handler,        (* goroutines that use the database               *)
          Statements,     (* how many statements LoadStatements prepares    *)
          Timeout,        (* DBReconnectTimeout                             *)
          Broken,         (* statements the database's schema does not have *)
          DropsLoading,   (* whether the server may be lost while its       *)
                          (* statements are being prepared                  *)
          MaxDrops        (* bound: times the database server is lost       *)

ASSUME DatabaseAssumption == /\ Statements \in Nat \ {0} /\ Timeout \in Nat
                             /\ Broken \subseteq 1..Statements
                             /\ DropsLoading \in BOOLEAN /\ MaxDrops \in Nat

Main == "main"            (* New: dbLoad and the first LoadStatements       *)
Idle == "idleCheckLoop"
Actor == Handler \cup {Main, Idle}
Stmt == 1..Statements

VARIABLES
  up,          (* whether the database server can be reached                *)
  drops,       (* how often it was lost                                     *)
  status,      (* BotDB.Status                                              *)
  statuslock,  (* BotDB.statuslock                                          *)
  age,         (* seconds since lastattempt, up to Timeout + 1              *)
  prepared,    (* which of the statements are not nil                       *)
  pc,          (* where each actor stands                                   *)
  next,        (* LoadStatements: the statement an actor prepares next      *)
  err          (* LoadStatements: whether its variable err is set           *)

server == <<up, drops>>
loading == <<prepared, next, err>>
vars == <<server, status, statuslock, age, loading, pc>>

Goto(a, label) == pc' = [pc EXCEPT ![a] = label]

Init ==
  /\ up \in BOOLEAN /\ drops = 0
  /\ status = FALSE /\ statuslock = FALSE /\ age = 0
  /\ prepared = [s \in Stmt |-> FALSE]
  /\ pc = [a \in Actor |-> IF a = Main THEN "boot" ELSE "idle"]
  /\ next = [a \in Actor |-> 1]
  /\ err = [a \in Actor |-> FALSE]

Running == pc[Main] = "running"

-----------------------------------------------------------------------------
(* dbLoad: Status is the outcome of the first ping. *)
Boot ==
  /\ pc[Main] = "boot"
  /\ status' = up
  /\ Goto(Main, IF up THEN "load" ELSE "running")
  /\ UNCHANGED <<server, statuslock, age, loading>>

(* Whether Prepare succeeds. *)
Prepares(s) == up /\ s \notin Broken

(***************************************************************************)
(* LoadStatements: db.sqlX, err = db.Prepare(...) for one statement after   *)
(* the other.  A Prepare that fails leaves nil; err is overwritten.         *)
(***************************************************************************)
Load(a) ==
  /\ pc[a] = "load"
  /\ next[a] \in Stmt
  /\ prepared' = [prepared EXCEPT ![next[a]] = Prepares(next[a])]
  /\ err' = [err EXCEPT ![a] = ~Prepares(next[a])]
  /\ next' = [next EXCEPT ![a] = @ + 1]
  /\ UNCHANGED <<server, status, statuslock, age, pc>>

(* "Finished loading database statements", or the bot is terminated. *)
Booted ==
  /\ pc[Main] = "load"
  /\ next[Main] \notin Stmt
  /\ Goto(Main, IF err[Main] THEN "terminated" ELSE "running")
  /\ UNCHANGED <<server, status, statuslock, age, loading>>

-----------------------------------------------------------------------------
(* A goroutine is about to use the database. *)
Begin(a) ==
  /\ Running
  /\ pc[a] = "idle" /\ a # Main
  /\ Goto(a, "ask")
  /\ UNCHANGED <<server, status, statuslock, age, loading>>

(* Callers of Status.Get alone give up where CheckStatus goes on. *)
Ask(a) ==
  /\ pc[a] = "ask"
  /\ IF status THEN Goto(a, IF a = Idle THEN "idle" ELSE "use")
     ELSE \/ a # Idle /\ Goto(a, "idle")
          \/ Goto(a, "lock")
  /\ UNCHANGED <<server, status, statuslock, age, loading>>

(* statuslock.TestAndSet *)
Lock(a) ==
  /\ pc[a] = "lock"
  /\ statuslock' = TRUE
  /\ Goto(a, IF statuslock THEN "idle" ELSE "recheck")
  /\ UNCHANGED <<server, status, age, loading>>

(* Another actor repaired it, or it is too early, or an attempt begins with
   a message to the log channel. *)
Recheck(a) ==
  /\ pc[a] = "recheck"
  /\ IF status \/ age <= Timeout
     THEN /\ statuslock' = FALSE
          /\ Goto(a, IF status /\ a # Idle THEN "use" ELSE "idle")
     ELSE UNCHANGED statuslock /\ Goto(a, "attempt")
  /\ UNCHANGED <<server, status, age, loading>>

Attempt(a) ==
  /\ pc[a] = "attempt"
  /\ age' = 0
  /\ Goto(a, "ping")
  /\ UNCHANGED <<server, status, statuslock, loading>>

(* Faulty variant: the early return leaves the lock set. *)
PingKeepingLock(a) ==
  /\ pc[a] = "ping"
  /\ IF up THEN /\ next' = [next EXCEPT ![a] = 1]
                /\ Goto(a, "load")
     ELSE Goto(a, "idle") /\ UNCHANGED next
  /\ UNCHANGED <<server, status, statuslock, age, prepared, err>>

(* Faulty variant: statements are not loaded again. *)
PingWithoutLoading(a) ==
  /\ pc[a] = "ping"
  /\ IF up THEN /\ next' = [next EXCEPT ![a] = Statements + 1]
                /\ Goto(a, "load") /\ UNCHANGED statuslock
     ELSE /\ statuslock' = FALSE
          /\ Goto(a, "idle") /\ UNCHANGED next
  /\ UNCHANGED <<server, status, age, prepared, err>>

Ping(a) ==
  /\ pc[a] = "ping"
  /\ IF up THEN /\ next' = [next EXCEPT ![a] = 1]
                /\ Goto(a, "load") /\ UNCHANGED statuslock
     ELSE /\ statuslock' = FALSE
          /\ Goto(a, "idle") /\ UNCHANGED next
  /\ UNCHANGED <<server, status, age, prepared, err>>

(* Whatever LoadStatements returned: Status is set, the lock is cleared. *)
Enable(a) ==
  /\ pc[a] = "load" /\ a # Main
  /\ next[a] \notin Stmt
  /\ status' = TRUE /\ statuslock' = FALSE
  /\ Goto(a, IF a = Idle THEN "idle" ELSE "use")
  /\ UNCHANGED <<server, age, loading>>

-----------------------------------------------------------------------------
(* Exec or Query of some statement: nil crashes, an error is looked into. *)
Execute(a) ==
  /\ pc[a] = "use"
  /\ \E s \in Stmt : Goto(a, IF ~prepared[s] THEN "crashed" ELSE IF up THEN "idle" ELSE "failed")
  /\ UNCHANGED <<server, status, statuslock, age, loading>>

(* CheckError: a second ping decides; Status is cleared in a step of its own. *)
CheckError(a) ==
  /\ pc[a] = "failed"
  /\ Goto(a, IF up THEN "idle" ELSE "disable")
  /\ UNCHANGED <<server, status, statuslock, age, loading>>

DisableDB(a) ==
  /\ pc[a] = "disable"
  /\ status' = FALSE
  /\ Goto(a, "idle")
  /\ UNCHANGED <<server, statuslock, age, loading>>

-----------------------------------------------------------------------------
(* The database server and the clock. *)
Drop ==
  /\ up /\ drops < MaxDrops
  /\ DropsLoading \/ \A a \in Actor : pc[a] # "load"
  /\ up' = FALSE /\ drops' = drops + 1
  /\ UNCHANGED <<status, statuslock, age, loading, pc>>

ComeBack ==
  /\ ~up /\ up' = TRUE
  /\ UNCHANGED <<drops, status, statuslock, age, loading, pc>>

Second ==
  /\ age <= Timeout
  /\ age' = age + 1
  /\ UNCHANGED <<server, status, statuslock, loading, pc>>

CheckStatus(a) == \/ Ask(a) \/ Lock(a) \/ Recheck(a) \/ Attempt(a) \/ Ping(a)
                  \/ Load(a) \/ Enable(a)

Work(a) == CheckStatus(a) \/ Execute(a) \/ CheckError(a) \/ DisableDB(a)

Next == \/ Boot \/ Booted
        \/ \E a \in Actor : Begin(a) \/ Work(a)
        \/ Drop \/ ComeBack \/ Second

Spec == Init /\ [][Next]_vars

(* Goroutines run on, the idle loop begins anew, time passes. *)
FairSpec == /\ Spec
            /\ WF_vars(Boot \/ Booted) /\ WF_vars(Begin(Idle)) /\ WF_vars(Second)
            /\ \A a \in Actor : WF_vars(Work(a))

-----------------------------------------------------------------------------
(* The types of the connection: LoadStatements never goes past the last
   statement, and Status and its lock are flags.                             *)
TypeOK ==
  /\ up \in BOOLEAN /\ drops \in 0..MaxDrops
  /\ status \in BOOLEAN /\ statuslock \in BOOLEAN
  /\ age \in 0..(Timeout + 1)
  /\ prepared \in [Stmt -> BOOLEAN]
  /\ pc \in [Actor -> {"boot", "running", "terminated", "idle", "ask", "lock",
                       "recheck", "attempt", "ping", "load", "use", "failed", "disable",
                       "crashed"}]
  /\ next \in [Actor -> 1..(Statements + 1)]
  /\ err \in [Actor -> BOOLEAN]

(***************************************************************************)
(* statuslock: one actor at a time reconnects and loads statements, the     *)
(* lock is set while it does and cleared on every way out (CheckStatus).    *)
(***************************************************************************)
Reconnecting == {a \in Actor \ {Main} : pc[a] \in {"recheck", "attempt", "ping", "load"}}

OneReconnects == /\ \A a, b \in Reconnecting : a = b
                 /\ statuslock <=> Reconnecting # {}

(***************************************************************************)
(* "Only after loading the statements do we set status to true" (db.go):    *)
(* a goroutine that was let through finds every statement, as long as the   *)
(* server is not lost while they are prepared; also one that was let        *)
(* through before another outage, with Status cleared and set meanwhile.    *)
(***************************************************************************)
UsesPrepared == \A a \in Actor : pc[a] \in {"use", "failed"} => \A s \in Stmt : prepared[s]

(***************************************************************************)
(* "Another attempt will be made in" Timeout (db.go): two reconnections     *)
(* are further apart than that, whoever makes them.                         *)
(***************************************************************************)
AttemptsApart == [][\A a \in Actor : pc[a] = "attempt" /\ pc'[a] = "ping" => age > Timeout]_vars

(***************************************************************************)
(* Once the server stays reachable the bot leaves No Database mode for      *)
(* good, though an old error may still clear Status (idleCheckLoop).        *)
(***************************************************************************)
Recovers == <>[]up /\ <>Running => <>[]status

(* Reconnections: not too many, and enough (CheckStatus, idleCheckLoop).        *)
ReconnectsInTime == AttemptsApart /\ Recovers

(***************************************************************************)
(* "Finished loading database statements", or "DATABASE IS BADLY FORMATTED  *)
(* OR CORRUPT - TERMINATING" (sweetiebot.go New): the bot does not start    *)
(* with Status set unless every statement was prepared.                     *)
(***************************************************************************)
StartsComplete ==
  [][pc[Main] = "load" /\ pc'[Main] = "running" => \A s \in Stmt : prepared[s]]_vars
=============================================================================
