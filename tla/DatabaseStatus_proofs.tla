----------------------- MODULE DatabaseStatus_proofs -----------------------
(***************************************************************************)
(* What holds of DatabaseStatus for every number of goroutines and          *)
(* statements.                                                              *)
(***************************************************************************)
EXTENDS DatabaseStatus, TLAPS

Labels == {"boot", "running", "terminated", "idle", "ask", "lock", "recheck", "attempt",
           "ping", "load", "use", "failed", "disable", "crashed"}

(* The connection starts well typed. *)
LEMMA InitTyped == Init => TypeOK
<1> SUFFICES ASSUME Init PROVE TypeOK
  OBVIOUS
<1>1. drops \in 0..MaxDrops /\ age \in 0..(Timeout + 1)
  BY DatabaseAssumption DEF Init
<1>2. next \in [Actor -> 1..(Statements + 1)]
  BY DatabaseAssumption DEF Init
<1>3. prepared \in [Stmt -> BOOLEAN] /\ err \in [Actor -> BOOLEAN]
  BY Zenon DEF Init
<1>4. up \in BOOLEAN /\ status \in BOOLEAN /\ statuslock \in BOOLEAN
  BY DEF Init
<1> QED
  BY <1>1, <1>2, <1>3, <1>4 DEF Init, TypeOK

(* Every step of the bot, the server and the clock keeps the types. *)
LEMMA Typed == ASSUME TypeOK, [Next]_vars PROVE TypeOK'
<1> USE DatabaseAssumption DEF TypeOK, server, loading, Goto, Actor, Stmt
<1>1. ASSUME Boot PROVE TypeOK'
  BY <1>1 DEF Boot
<1>2. ASSUME Booted PROVE TypeOK'
  BY <1>2 DEF Booted
<1>3. ASSUME NEW a \in Actor, Begin(a) PROVE TypeOK'
  BY <1>3 DEF Begin
<1>4. ASSUME NEW a \in Actor, Ask(a) PROVE TypeOK'
  BY <1>4 DEF Ask
<1>5. ASSUME NEW a \in Actor, Lock(a) PROVE TypeOK'
  BY <1>5 DEF Lock
<1>6. ASSUME NEW a \in Actor, Recheck(a) PROVE TypeOK'
  BY <1>6 DEF Recheck
<1>7. ASSUME NEW a \in Actor, Attempt(a) PROVE TypeOK'
  BY <1>7 DEF Attempt
<1>8. ASSUME NEW a \in Actor, Ping(a) PROVE TypeOK'
  <2>1. next' \in [Actor -> 1..(Statements + 1)]
    BY <1>8 DEF Ping
  <2>2. statuslock' \in BOOLEAN /\ pc' \in [Actor -> Labels]
    BY <1>8, Zenon DEF Ping, Labels
  <2> QED
    BY <1>8, <2>1, <2>2 DEF Ping, Labels
<1>9. ASSUME NEW a \in Actor, Load(a) PROVE TypeOK'
  BY <1>9 DEF Load, Prepares
<1>10. ASSUME NEW a \in Actor, Enable(a) PROVE TypeOK'
  BY <1>10 DEF Enable
<1>11. ASSUME NEW a \in Actor, Execute(a) PROVE TypeOK'
  BY <1>11 DEF Execute
<1>12. ASSUME NEW a \in Actor, CheckError(a) PROVE TypeOK'
  BY <1>12 DEF CheckError
<1>13. ASSUME NEW a \in Actor, DisableDB(a) PROVE TypeOK'
  BY <1>13 DEF DisableDB
<1>14. ASSUME Drop PROVE TypeOK'
  <2>1. drops' \in 0..MaxDrops
    BY <1>14 DEF Drop
  <2> QED
    BY <1>14, <2>1 DEF Drop
<1>15. ASSUME ComeBack PROVE TypeOK'
  BY <1>15 DEF ComeBack
<1>16. ASSUME Second PROVE TypeOK'
  BY <1>16 DEF Second
<1>17. CASE UNCHANGED vars
  BY <1>17 DEF vars
<1> QED
  BY <1>1, <1>2, <1>3, <1>4, <1>5, <1>6, <1>7, <1>8, <1>9, <1>10, <1>11, <1>12, <1>13,
     <1>14, <1>15, <1>16, <1>17 DEF Next, Work, CheckStatus

(* The connection's state is well typed in every reachable state. *)
THEOREM DatabaseTypeCorrect == Spec => []TypeOK
<1> QED
  BY InitTyped, Typed, PTL DEF Spec

-----------------------------------------------------------------------------
(***************************************************************************)
(* statuslock.  Main loads statements without it, and only before anybody   *)
(* else is at work: MainApart is what keeps OneReconnects inductive.        *)
(***************************************************************************)
MainApart == pc[Main] \in {"boot", "load", "running", "terminated"}
LockInv == OneReconnects /\ MainApart

(* No step breaks the correspondence of statuslock with who reconnects. *)
LEMMA LockStep == ASSUME TypeOK, LockInv, [Next]_vars PROVE LockInv'
<1> USE DEF TypeOK, LockInv, OneReconnects, MainApart, Reconnecting, Goto
<1>0. Main \in Actor
  BY DEF Actor
<1>1. ASSUME Boot \/ Booted PROVE LockInv'
  BY <1>0, <1>1 DEF Boot, Booted
<1>2. ASSUME NEW a \in Actor, Begin(a) \/ Ask(a) PROVE LockInv'
  BY <1>0, <1>2 DEF Begin, Ask
<1>3. ASSUME NEW a \in Actor, Lock(a) PROVE LockInv'
  BY <1>0, <1>3 DEF Lock
<1>4. ASSUME NEW a \in Actor, Recheck(a) PROVE LockInv'
  BY <1>0, <1>4 DEF Recheck
<1>5. ASSUME NEW a \in Actor, Attempt(a) PROVE LockInv'
  BY <1>0, <1>5 DEF Attempt
<1>6. ASSUME NEW a \in Actor, Ping(a) PROVE LockInv'
  BY <1>0, <1>6 DEF Ping
<1>7. ASSUME NEW a \in Actor, Load(a) PROVE LockInv'
  BY <1>0, <1>7 DEF Load
<1>8. ASSUME NEW a \in Actor, Enable(a) PROVE LockInv'
  BY <1>0, <1>8 DEF Enable
<1>9. ASSUME NEW a \in Actor, Execute(a) \/ CheckError(a) \/ DisableDB(a) PROVE LockInv'
  BY <1>0, <1>9 DEF Execute, CheckError, DisableDB
<1>10. ASSUME Drop \/ ComeBack \/ Second \/ UNCHANGED vars PROVE LockInv'
  BY <1>10 DEF Drop, ComeBack, Second, vars
<1> QED
  BY <1>1, <1>2, <1>3, <1>4, <1>5, <1>6, <1>7, <1>8, <1>9, <1>10 DEF Next, Work, CheckStatus

(* However many goroutines find the database gone, one of them reconnects,
   and it holds statuslock exactly while it does. *)
THEOREM OneReconnectsAlways == Spec => []OneReconnects
<1>1. Init => LockInv
  BY DEF Init, LockInv, OneReconnects, MainApart, Reconnecting, Actor
<1>2. LockInv => OneReconnects
  BY DEF LockInv
<1>4. TypeOK /\ LockInv /\ [Next]_vars => TypeOK' /\ LockInv'
  BY Typed, LockStep
<1> QED
  BY InitTyped, <1>1, <1>2, <1>4, PTL DEF Spec

-----------------------------------------------------------------------------
(***************************************************************************)
(* Statements.  As long as the server is not lost while they are prepared,  *)
(* a loading actor has prepared all those before next; whoever was let      *)
(* through, and Status itself, implies that all are there.                  *)
(***************************************************************************)
AllPrepared == \A s \in Stmt : prepared[s]
PassedPrepared == \A a \in Actor : pc[a] \in {"use", "failed", "disable"} => AllPrepared
StatusPrepared == Running /\ status => AllPrepared
LoadedSoFar ==
  \A a \in Actor : pc[a] = "load" => up /\ \A s \in Stmt : s < next[a] => prepared[s]
MainFirst == /\ ~Running => \A a \in Actor \ {Main} : pc[a] = "idle"
             /\ pc[Main] = "boot" => next[Main] = 1
PreparedInv == MainApart /\ MainFirst /\ PassedPrepared /\ StatusPrepared /\ LoadedSoFar

(* An actor past its last statement has loaded them all. *)
LEMMA LoadedAll ==
  ASSUME TypeOK, PreparedInv, NEW a \in Actor, pc[a] = "load", next[a] \notin Stmt
  PROVE  AllPrepared
<1>1. next[a] = Statements + 1
  BY DatabaseAssumption DEF TypeOK, Stmt
<1> QED
  BY <1>1, DatabaseAssumption DEF PreparedInv, LoadedSoFar, AllPrepared, Stmt

(* A successful Prepare never loses a statement. *)
LEMMA LoadStep ==
  ASSUME TypeOK, PreparedInv, Broken = {}, NEW a \in Actor, Load(a)
  PROVE  PreparedInv'
<1> USE DEF PreparedInv
<1>1. pc[a] = "load" /\ next[a] \in Stmt /\ up /\ UNCHANGED <<up, status, pc>>
  BY DEF Load, LoadedSoFar, server
<1>2. Prepares(next[a]) = TRUE
  BY <1>1 DEF Prepares
<1>3. prepared' = [prepared EXCEPT ![next[a]] = TRUE]
  BY <1>2 DEF Load
<1>4. \A s \in Stmt : prepared[s] => prepared'[s]
  BY <1>1, <1>3, Zenon DEF TypeOK
<1>5. prepared'[next[a]]
  BY <1>1, <1>3, Zenon DEF TypeOK
<1>6. AllPrepared => AllPrepared'
  BY <1>4 DEF AllPrepared
<1>7. LoadedSoFar'
  <2> SUFFICES ASSUME NEW b \in Actor, pc'[b] = "load", NEW s \in Stmt, s < next'[b]
               PROVE  prepared'[s]
    BY <1>1 DEF LoadedSoFar
  <2>1. CASE b = a
    <3>1. next'[a] = next[a] + 1
      BY DEF Load, TypeOK
    <3>2. s < next[a] \/ s = next[a]
      BY <1>1, <2>1, <3>1, DatabaseAssumption DEF Stmt
    <3>3. s < next[a] => prepared[s]
      BY <1>1 DEF LoadedSoFar
    <3> QED
      BY <1>4, <1>5, <3>2, <3>3
  <2>2. CASE b # a
    <3>1. next'[b] = next[b]
      BY <2>2 DEF Load, TypeOK
    <3>2. prepared[s]
      BY <1>1, <3>1 DEF LoadedSoFar
    <3> QED
      BY <1>4, <3>2
  <2> QED
    BY <2>1, <2>2
<1>8. MainApart' /\ MainFirst' /\ PassedPrepared' /\ StatusPrepared'
  BY <1>1, <1>6 DEF MainApart, MainFirst, PassedPrepared, StatusPrepared, Running
<1> QED
  BY <1>7, <1>8

(* No step breaks what PreparedInv says of the statements. *)
LEMMA PreparedStep ==
  ASSUME TypeOK, PreparedInv, Broken = {}, DropsLoading = FALSE, [Next]_vars
  PROVE  PreparedInv'
<1> USE DEF PreparedInv, MainApart, MainFirst, PassedPrepared, StatusPrepared, LoadedSoFar,
            Running, TypeOK, AllPrepared, Goto, server, loading
<1>0. Main \in Actor /\ Idle \in Actor /\ Main # Idle
  BY DEF Actor, Main, Idle
<1>1. ASSUME Boot PROVE PreparedInv'
  <2>1. next[Main] = 1 /\ \A s \in Stmt : ~(s < 1)
    BY <1>1 DEF Boot, Stmt
  <2>2. \A a \in Actor \ {Main} : pc[a] = "idle" /\ pc'[a] = "idle"
    BY <1>1 DEF Boot
  <2>3. next[Main] = next'[Main] /\ prepared' = prepared /\ up' = up
    BY <1>1 DEF Boot
  <2> QED
    BY <1>0, <1>1, <2>1, <2>2, <2>3 DEF Boot
<1>2. ASSUME Booted PROVE PreparedInv'
  <2>1. AllPrepared
    BY <1>0, <1>2, LoadedAll DEF Booted
  <2> QED
    BY <1>0, <1>2, <2>1 DEF Booted
<1>3. ASSUME NEW a \in Actor, Begin(a) PROVE PreparedInv'
  BY <1>0, <1>3 DEF Begin
<1>4. ASSUME NEW a \in Actor, Ask(a) PROVE PreparedInv'
  BY <1>0, <1>4 DEF Ask
<1>5. ASSUME NEW a \in Actor, Lock(a) PROVE PreparedInv'
  BY <1>0, <1>5 DEF Lock
<1>6. ASSUME NEW a \in Actor, Recheck(a) PROVE PreparedInv'
  BY <1>0, <1>6 DEF Recheck
<1>7. ASSUME NEW a \in Actor, Attempt(a) PROVE PreparedInv'
  BY <1>0, <1>7 DEF Attempt
<1>8. ASSUME NEW a \in Actor, Ping(a) PROVE PreparedInv'
  <2>1. \A s \in Stmt : ~(s < 1)
    BY DEF Stmt
  <2> QED
    BY <1>0, <1>8, <2>1 DEF Ping
<1>9. ASSUME NEW a \in Actor, Load(a) PROVE PreparedInv'
  BY <1>9, LoadStep
<1>10. ASSUME NEW a \in Actor, Enable(a) PROVE PreparedInv'
  <2>1. AllPrepared
    BY <1>10, LoadedAll DEF Enable
  <2> QED
    BY <1>0, <1>10, <2>1 DEF Enable
<1>11. ASSUME NEW a \in Actor, Execute(a) PROVE PreparedInv'
  BY <1>0, <1>11 DEF Execute
<1>12. ASSUME NEW a \in Actor, CheckError(a) \/ DisableDB(a) PROVE PreparedInv'
  BY <1>0, <1>12 DEF CheckError, DisableDB
<1>13. ASSUME Drop \/ ComeBack \/ Second \/ UNCHANGED vars PROVE PreparedInv'
  BY <1>13 DEF Drop, ComeBack, Second, vars
<1> QED
  BY <1>1, <1>2, <1>3, <1>4, <1>5, <1>6, <1>7, <1>8, <1>9, <1>10, <1>11, <1>12, <1>13
     DEF Next, Work, CheckStatus

(* A goroutine that was let through finds its statement prepared, for every
   interleaving of outages, errors and reconnections in which the server is
   not lost while its statements are being prepared. *)
THEOREM AlwaysUsesPrepared ==
  ASSUME Broken = {}, DropsLoading = FALSE PROVE Spec => []UsesPrepared
<1>1. Init => PreparedInv
  BY DatabaseAssumption
     DEF Init, PreparedInv, MainApart, MainFirst, PassedPrepared, StatusPrepared, LoadedSoFar,
         Running, Actor
<1>2. TypeOK /\ PreparedInv /\ [Next]_vars => TypeOK' /\ PreparedInv'
  BY Typed, PreparedStep
<1>3. PreparedInv => UsesPrepared
  BY DEF PreparedInv, PassedPrepared, AllPrepared, UsesPrepared
<1> QED
  BY InitTyped, <1>1, <1>2, <1>3, PTL DEF Spec
(***************************************************************************)
(* What terminates a bot whose database is badly formatted looks at the     *)
(* last statement alone; it is enough when every statement can be prepared  *)
(* and the server stays: the bot starts with all of them.                   *)
(***************************************************************************)
THEOREM StartsCompleteWhenPrepared ==
  ASSUME Broken = {}, DropsLoading = FALSE PROVE Spec => StartsComplete
<1> DEFINE Complete == pc[Main] = "load" /\ pc'[Main] = "running" => \A s \in Stmt : prepared[s]
<1>1. Init => PreparedInv
  BY DatabaseAssumption
     DEF Init, PreparedInv, MainApart, MainFirst, PassedPrepared, StatusPrepared, LoadedSoFar,
         Running, Actor
<1>2. TypeOK /\ PreparedInv /\ [Next]_vars => TypeOK' /\ PreparedInv'
  BY Typed, PreparedStep
<1>3. ASSUME TypeOK, PreparedInv, [Next]_vars PROVE [Complete]_vars
  <2> SUFFICES ASSUME pc[Main] = "load", pc'[Main] = "running" PROVE AllPrepared
    BY DEF AllPrepared
  <2>1. Main \in Actor
    BY DEF Actor
  <2>2. CASE Booted
    BY <1>3, <2>1, <2>2, LoadedAll DEF Booted
  <2>3. CASE Boot
    BY <2>3 DEF Boot
  <2>4. ASSUME NEW a \in Actor, Begin(a) \/ Work(a) PROVE FALSE
    <3>1. CASE Load(a)
      BY <3>1 DEF Load
    <3>2. CASE Begin(a) \/ Ask(a) \/ Lock(a) \/ Recheck(a)
      <4>1. \E l : pc' = [pc EXCEPT ![a] = l]
        BY <3>2 DEF Begin, Ask, Lock, Recheck, Goto
      <4>2. a # Main
        BY <3>2 DEF Begin, Ask, Lock, Recheck
      <4> QED
        BY <1>3, <2>1, <4>1, <4>2 DEF TypeOK
    <3>3. CASE Attempt(a) \/ Ping(a) \/ Enable(a)
      <4>1. \E l : pc' = [pc EXCEPT ![a] = l]
        BY <3>3 DEF Attempt, Ping, Enable, Goto
      <4>2. a # Main
        BY <3>3 DEF Attempt, Ping, Enable
      <4> QED
        BY <1>3, <2>1, <4>1, <4>2 DEF TypeOK
    <3>4. CASE Execute(a) \/ CheckError(a) \/ DisableDB(a)
      <4>1. \E l : pc' = [pc EXCEPT ![a] = l]
        BY <3>4 DEF Execute, CheckError, DisableDB, Goto
      <4>2. a # Main
        BY <3>4 DEF Execute, CheckError, DisableDB
      <4> QED
        BY <1>3, <2>1, <4>1, <4>2 DEF TypeOK
    <3> QED
      BY <2>4, <3>1, <3>2, <3>3, <3>4 DEF Work, CheckStatus
  <2>5. CASE Drop \/ ComeBack \/ Second \/ UNCHANGED vars
    BY <2>5 DEF Drop, ComeBack, Second, vars
  <2> QED
    BY <1>3, <2>2, <2>3, <2>4, <2>5 DEF Next
<1> QED
  BY InitTyped, <1>1, <1>2, <1>3, PTL DEF Spec, StartsComplete

-----------------------------------------------------------------------------
(***************************************************************************)
(* The clock.  Whoever is about to reconnect found lastattempt longer ago   *)
(* than Timeout; only it could have set lastattempt since, as it holds      *)
(* statuslock.                                                              *)
(***************************************************************************)
LongAgo == \A a \in Actor : pc[a] = "attempt" => age > Timeout

(* No step makes an attempt that was begun come too early: the others do not
   touch lastattempt, time only adds to its age. *)
LEMMA LongAgoStep == ASSUME TypeOK, LockInv, LongAgo, [Next]_vars PROVE LongAgo'
<1> USE DatabaseAssumption DEF TypeOK, LongAgo, Goto
<1>1. ASSUME Boot \/ Booted PROVE LongAgo'
  BY <1>1 DEF Boot, Booted
<1>2. ASSUME NEW a \in Actor, Begin(a) \/ Ask(a) \/ Lock(a) PROVE LongAgo'
  BY <1>2 DEF Begin, Ask, Lock
<1>3. ASSUME NEW a \in Actor, Recheck(a) PROVE LongAgo'
  BY <1>3 DEF Recheck
<1>4. ASSUME NEW a \in Actor, Attempt(a) PROVE LongAgo'
  <2> SUFFICES ASSUME NEW b \in Actor, pc'[b] = "attempt" PROVE FALSE
    OBVIOUS
  <2>1. pc[a] = "attempt" /\ pc'[a] = "ping" /\ \A c \in Actor : c # a => pc'[c] = pc[c]
    BY <1>4 DEF Attempt
  <2>2. b # a /\ pc[b] = "attempt"
    BY <2>1
  <2>3. a # Main /\ b # Main
    BY <2>1, <2>2 DEF LockInv, MainApart
  <2>4. a \in Reconnecting /\ b \in Reconnecting
    BY <2>1, <2>2, <2>3 DEF Reconnecting
  <2> QED
    BY <2>2, <2>4 DEF LockInv, OneReconnects
<1>5. ASSUME NEW a \in Actor, Ping(a) \/ Load(a) \/ Enable(a) PROVE LongAgo'
  BY <1>5 DEF Ping, Load, Enable
<1>6. ASSUME NEW a \in Actor, Execute(a) \/ CheckError(a) \/ DisableDB(a) PROVE LongAgo'
  BY <1>6 DEF Execute, CheckError, DisableDB
<1>7. ASSUME Drop \/ ComeBack \/ Second \/ UNCHANGED vars PROVE LongAgo'
  BY <1>7 DEF Drop, ComeBack, Second, vars
<1> QED
  BY <1>1, <1>2, <1>3, <1>4, <1>5, <1>6, <1>7 DEF Next, Work, CheckStatus

(* Two attempts to reconnect are further apart than Timeout, whichever
   goroutines make them and however their checks of lastattempt interleave. *)
THEOREM AttemptsStayApart == Spec => AttemptsApart
<1> DEFINE Apart == \A a \in Actor : pc[a] = "attempt" /\ pc'[a] = "ping" => age > Timeout
<1>1. Init => LockInv
  BY DEF Init, LockInv, OneReconnects, MainApart, Reconnecting, Actor
<1>2. Init => LongAgo
  BY DEF Init, LongAgo
<1>3. TypeOK /\ LockInv /\ LongAgo /\ [Next]_vars => TypeOK' /\ LockInv' /\ LongAgo'
  BY Typed, LockStep, LongAgoStep
<1>4. LongAgo => [Apart]_vars
  BY DEF LongAgo
<1> QED
  BY InitTyped, <1>1, <1>2, <1>3, <1>4, PTL DEF Spec, AttemptsApart
=============================================================================
