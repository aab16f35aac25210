--------------------------- MODULE Scheduler_proofs ---------------------------
(***************************************************************************)
(* What holds of Scheduler for every number of handlers, members and rows,  *)
(* whatever is lost or restarted in between.                                *)
(***************************************************************************)
EXTENDS Scheduler, FiniteSetTheorems, TLAPS

Places == {"idle", "count", "insert", "find", "impose"}

(* A command that starts. *)
LEMMA BeginTyped ==
  ASSUME TypeOK, NEW h \in Handler, NEW label \in Places,
         NEW what \in {"sanction", "join", "event", "birthday"}, NEW kind \in {"say", "give", "take"},
         NEW x \in Subject, NEW date \in Nat, NEW repeat \in Nat,
         Begin(h, what, kind, x, date, repeat, label)
  PROVE  /\ pc' \in [Handler -> Places]
         /\ job' \in [Handler -> Job \cup {NoJob}] /\ \A g \in Handler : pc'[g] # "idle" => job'[g] \in Job
<1>1. [what |-> what, id |-> 0, kind |-> kind, subject |-> x, date |-> date, repeat |-> repeat] \in Job
  BY DEF Job
<1> QED
  BY <1>1 DEF TypeOK, Begin, Places

(* A command that ends, or moves to another of its steps. *)
LEMMA EndTyped ==
  ASSUME TypeOK, NEW h \in Handler, End(h)
  PROVE  /\ pc' \in [Handler -> Places]
         /\ job' \in [Handler -> Job \cup {NoJob}] /\ \A g \in Handler : pc'[g] # "idle" => job'[g] \in Job
BY DEF TypeOK, End, Places

LEMMA GotoTyped ==
  ASSUME TypeOK, NEW h \in Handler, NEW label \in Places, pc[h] # "idle", Goto(h, label)
  PROVE  /\ pc' \in [Handler -> Places]
         /\ job' \in [Handler -> Job \cup {NoJob}] /\ \A g \in Handler : pc'[g] # "idle" => job'[g] \in Job
BY DEF TypeOK, Goto, Places

(* Using up a bound. *)
LEMMA UseTyped ==
  ASSUME TypeOK, NEW w \in Bounded, NEW max, Use(w, max) PROVE used' \in [Bounded -> Nat]
BY DEF TypeOK, Use

(* Counting one more time, for any argument. *)
LEMMA OneMore ==
  ASSUME NEW D, NEW f \in [D -> Nat], NEW d PROVE [f EXCEPT ![d] = @ + 1] \in [D -> Nat]
<1> DEFINE g == [f EXCEPT ![d] = @ + 1]
<1>1. g = [x \in D |-> IF x = d THEN f[d] + 1 ELSE f[x]]
  OBVIOUS
<1>2. \A x \in D : g[x] \in Nat
  BY <1>1
<1> QED
  BY <1>1, <1>2

(* Every step of the commands, of OnTick and of what surrounds them keeps the
   types.                                                                   *)
LEMMA Typed == ASSUME TypeOK, [Next]_vars PROVE TypeOK'
<1> USE ScheduleAssumption
<1> USE DEF table, loop, commands, discord, history
<1> DEFINE CommandsTyped == /\ pc' \in [Handler -> Places]
                            /\ job' \in [Handler -> Job \cup {NoJob}]
                            /\ \A g \in Handler : pc'[g] # "idle" => job'[g] \in Job
<1>1. ASSUME NEW h \in Handler, Sanction(h) PROVE TypeOK'
  <2>1. used' \in [Bounded -> Nat]
    BY <1>1, UseTyped DEF Sanction, Bounded
  <2>2. CommandsTyped
    <3>1. PICK x \in Sanctioned :
            \/ \E d \in Durations : Begin(h, "sanction", "take", x, clock + d, 0, "count")
            \/ Begin(h, "sanction", "take", x, 0, 0, "impose")
      BY <1>1 DEF Sanction
    <3>2. \A d \in Durations : clock + d \in Nat
      BY DEF TypeOK
    <3> QED
      BY <3>1, <3>2, BeginTyped DEF Subject, Places
  <2> QED
    BY <1>1, <2>1, <2>2 DEF Sanction, TypeOK, Places
<1>2. ASSUME NEW h \in Handler, Join(h) PROVE TypeOK'
  <2>1. used' \in [Bounded -> Nat]
    BY <1>2, UseTyped DEF Join, Bounded
  <2>2. PICK x \in Sanctioned, d \in Durations :
          /\ IF db THEN Begin(h, "join", "take", x, clock + d, 0, "count")
                   ELSE pc[h] = "idle" /\ UNCHANGED commands
          /\ promise' = [promise EXCEPT ![x] = 0]
          /\ held' \in {held, [held EXCEPT ![x] = TRUE]}
    BY <1>2 DEF Join
  <2>3. CommandsTyped
    <3>1. clock + d \in Nat
      BY DEF TypeOK
    <3>2. CASE db
      BY <2>2, <3>1, <3>2, BeginTyped DEF Subject, Places
    <3>3. CASE ~db
      BY <2>2, <3>3 DEF TypeOK, Places
    <3> QED
      BY <3>2, <3>3
  <2>4. promise' \in [Subject -> Nat] /\ held' \in [Subject -> BOOLEAN]
    BY <2>2 DEF TypeOK, Subject
  <2> QED
    BY <1>2, <2>1, <2>3, <2>4 DEF Join, TypeOK, Places
<1>3. ASSUME NEW h \in Handler, AddEvent(h) PROVE TypeOK'
  <2>1. used' \in [Bounded -> Nat]
    BY <1>3, UseTyped DEF AddEvent, Bounded
  <2>2. CommandsTyped
    <3>1. PICK x \in Sanctioned, kind \in {"say", "take"}, d \in {0} \cup Durations, r \in Repeats :
            Begin(h, "event", kind, x, clock + d, r, "count")
      BY <1>3 DEF AddEvent
    <3>2. clock + d \in Nat /\ r \in Nat
      BY DEF TypeOK
    <3> QED
      BY <3>1, <3>2, BeginTyped DEF Subject, Places
  <2> QED
    BY <1>3, <2>1, <2>2 DEF AddEvent, TypeOK, Places
<1>4. ASSUME NEW h \in Handler, RemindMe(h) PROVE TypeOK'
  <2>1. used' \in [Bounded -> Nat]
    BY <1>4, UseTyped DEF RemindMe, Bounded
  <2>2. CommandsTyped
    <3>1. PICK x \in Sanctioned, d \in {0} \cup Durations : Begin(h, "event", "say", x, clock + d, 0, "count")
      BY <1>4 DEF RemindMe
    <3>2. clock + d \in Nat
      BY DEF TypeOK
    <3> QED
      BY <3>1, <3>2, BeginTyped DEF Subject, Places
  <2> QED
    BY <1>4, <2>1, <2>2 DEF RemindMe, TypeOK, Places
<1>5. ASSUME NEW h \in Handler, AddBirthday(h) PROVE TypeOK'
  <2>1. used' \in [Bounded -> Nat]
    BY <1>5, UseTyped DEF AddBirthday, Bounded
  <2>2. CommandsTyped
    <3>1. PICK x \in Celebrated, d \in {-Day, 0} :
            Begin(h, "birthday", "give", x, clock + d, Year, "count")
      BY <1>5 DEF AddBirthday
    <3>2. clock + d \in Nat /\ Year \in Nat
      BY DEF TypeOK
    <3> QED
      BY <3>1, <3>2, BeginTyped DEF Subject, Places
  <2> QED
    BY <1>5, <2>1, <2>2 DEF AddBirthday, TypeOK, Places
<1>6. ASSUME NEW h \in Handler, Count(h) PROVE TypeOK'
  <2>1. CommandsTyped
    BY <1>6, GotoTyped, EndTyped DEF Count, Places
  <2> QED
    BY <1>6, <2>1 DEF Count, TypeOK, Places
<1>7. ASSUME NEW h \in Handler, Insert(h) PROVE TypeOK'
  <2>1. job[h] \in Job
    BY <1>7 DEF Insert, TypeOK
  <2>2. Row(h) \in Event
    BY <2>1 DEF Row, Job, Event
  <2>3. NextId \in Nat /\ NextId = Len(added) + 1
    BY DEF NextId, TypeOK
  <2>4. CommandsTyped /\ promise' \in [Subject -> Nat]
    <3>1. CASE End(h)
      <4>1. promise' \in [Subject -> Nat]
        BY <1>7, <2>3 DEF Insert, AfterInsert, TypeOK
      <4> QED
        BY <3>1, <4>1, EndTyped
    <3>2. CASE /\ pc' = [pc EXCEPT ![h] = "find"]
               /\ job' = [job EXCEPT ![h].id = NextId]
               /\ UNCHANGED promise
      <4>1. [job[h] EXCEPT !.id = NextId] \in Job
        BY <2>1, <2>3 DEF Job
      <4> QED
        BY <3>2, <4>1 DEF TypeOK, Places
    <3>3. CASE /\ pc' = [pc EXCEPT ![h] = "count"]
               /\ job' = [job EXCEPT ![h] = DayAfter(job[h])]
               /\ UNCHANGED promise
      <4>1. DayAfter(job[h]) \in Job
        BY <2>1 DEF Job, DayAfter
      <4> QED
        BY <3>3, <4>1 DEF TypeOK, Places
    <3> QED
      BY <1>7, <3>1, <3>2, <3>3 DEF Insert, AfterInsert
  <2>5. /\ added' \in Seq(Event) /\ Len(added') = NextId
        /\ rows' \in [DOMAIN rows' -> Nat] /\ DOMAIN rows' \subseteq 1..Len(added')
    BY <1>7, <2>1, <2>2, <2>3 DEF Insert, TypeOK, Job
  <2>6. Len(added) \in Nat /\ 1..Len(added) \subseteq 1..Len(added')
    BY <2>3, <2>5 DEF TypeOK
  <2> QED
    BY <1>7, <2>4, <2>5, <2>6 DEF Insert, TypeOK, Places
<1>8. ASSUME NEW h \in Handler, InsertFails(h) PROVE TypeOK'
  <2>1. CommandsTyped
    BY <1>8, EndTyped DEF InsertFails
  <2> QED
    BY <1>8, <2>1 DEF InsertFails, TypeOK, Places
<1>9. ASSUME NEW h \in Handler, Find(h) PROVE TypeOK'
  <2>1. CommandsTyped
    BY <1>9, GotoTyped, EndTyped DEF Find, Places
  <2> QED
    BY <1>9, <2>1 DEF Find, TypeOK, Places
<1>10. ASSUME NEW h \in Handler, Impose(h) PROVE TypeOK'
  <2>1. CommandsTyped
    BY <1>10, EndTyped DEF Impose
  <2>2. used' \in [Bounded -> Nat]
    BY <1>10, UseTyped DEF Impose, Fails, Bounded, TypeOK
  <2>3. promise' \in [Subject -> Nat] /\ held' \in [Subject -> BOOLEAN]
    <3>1. job[h] \in Job
      BY <1>10 DEF Impose, TypeOK
    <3> QED
      BY <1>10, <3>1 DEF Impose, TypeOK, Job
  <2> QED
    BY <1>10, <2>1, <2>2, <2>3 DEF Impose, TypeOK, Places
<1>11. ASSUME NEW id \in Id, RemoveEvent(id) PROVE TypeOK'
  <2>1. used' \in [Bounded -> Nat]
    BY <1>11, UseTyped DEF RemoveEvent, Bounded
  <2> QED
    BY <1>11, <2>1 DEF RemoveEvent, TypeOK
<1>12. CASE GetSchedule
  BY <1>12 DEF GetSchedule, Due, TypeOK
<1>13. CASE Fire
  <2>1. PICK id \in DOMAIN due : /\ Effect(id) /\ current' = id
                                 /\ times' = [times EXCEPT ![id][due[id]] = @ + 1]
    BY <1>13 DEF Fire
  <2>2. added[id] \in Event
    BY DEF TypeOK
  <2>3. used' \in [Bounded -> Nat] /\ held' \in [Subject -> BOOLEAN] /\ forgone' \subseteq 1..Len(added)
    <3>1. CASE UNCHANGED <<held, forgone, used>>
      BY <3>1 DEF TypeOK
    <3>2. CASE held' = [held EXCEPT ![added[id].subject] = added[id].kind = "give"] /\ UNCHANGED <<forgone, used>>
      BY <2>2, <3>2 DEF TypeOK, Event
    <3>3. CASE Fails /\ forgone' = forgone \cup {id} /\ UNCHANGED held
      BY <3>3, UseTyped DEF TypeOK, Fails, Bounded
    <3> QED
      BY <2>1, <3>1, <3>2, <3>3 DEF Effect
  <2>4. times' \in [Id -> [0..LastTime -> Nat]]
    <3>1. ASSUME id \in Id PROVE [times[id] EXCEPT ![due[id]] = @ + 1] \in [0..LastTime -> Nat]
      <4>1. times[id] \in [0..LastTime -> Nat]
        BY <3>1 DEF TypeOK
      <4> QED
        BY <4>1, OneMore
    <3>2. times' = [times EXCEPT ![id] = [times[id] EXCEPT ![due[id]] = @ + 1]]
      BY <2>1
    <3>3. CASE id \in Id
      BY <3>1, <3>2, <3>3 DEF TypeOK
    <3>4. CASE id \notin Id
      BY <2>1, <3>4 DEF TypeOK
    <3> QED
      BY <3>3, <3>4
  <2> QED
    BY <1>13, <2>1, <2>3, <2>4 DEF Fire, TypeOK
<1>14. CASE Remove
  <2>1. current \in 1..Len(added) /\ added[current] \in Event
    BY <1>14 DEF Remove, TypeOK
  <2>2. rows' \in [DOMAIN rows' -> Nat] /\ DOMAIN rows' \subseteq DOMAIN rows
    <3>1. rows \in [DOMAIN rows -> Nat] /\ added[current].repeat \in Nat
      BY <2>1 DEF TypeOK, Event
    <3>2. CASE UNCHANGED rows
      BY <3>1, <3>2
    <3>3. CASE rows' = [i \in DOMAIN rows \ {current} |-> rows[i]]
      BY <3>1, <3>3
    <3>4. CASE current \in DOMAIN rows /\ rows' = [rows EXCEPT ![current] = @ + added[current].repeat]
      BY <3>1, <3>4
    <3> QED
      BY <1>14, <3>2, <3>3, <3>4 DEF Remove, RemoveSchedule
  <2> QED
    BY <1>14, <2>2 DEF Remove, TypeOK
<1>15. CASE Outage
  <2>1. used' \in [Bounded -> Nat]
    BY <1>15, UseTyped DEF Outage, Bounded
  <2> QED
    BY <1>15, <2>1 DEF Outage, TypeOK
<1>16. CASE Recover
  BY <1>16 DEF Recover, TypeOK
<1>17. CASE SetChannel
  <2>1. used' \in [Bounded -> Nat]
    BY <1>17, UseTyped DEF SetChannel, Bounded, TypeOK
  <2> QED
    BY <1>17, <2>1 DEF SetChannel, TypeOK
<1>18. CASE Restart
  <2>1. used' \in [Bounded -> Nat]
    BY <1>18, UseTyped DEF Restart, Bounded
  <2> QED
    BY <1>18, <2>1 DEF Restart, TypeOK, Nothing
<1>19. CASE TimePasses
  BY <1>19 DEF TimePasses, TypeOK
<1>20. CASE UNCHANGED vars
  BY <1>20 DEF vars, TypeOK
<1> QED
  BY <1>1, <1>2, <1>3, <1>4, <1>5, <1>6, <1>7, <1>8, <1>9, <1>10, <1>11, <1>12, <1>13,
     <1>14, <1>15, <1>16, <1>17, <1>18, <1>19, <1>20 DEF Next, Start, Ban, AssignRole, Proceed, OnTick

(* Rows, jobs and what OnTick holds are well typed in every reachable state:
   OnTick never holds an event before its date.                             *)
THEOREM ScheduleTypeCorrect == Spec => []TypeOK
<1>1. Init => TypeOK
  BY ScheduleAssumption DEF Init, TypeOK, Nothing, Bounded
<1> QED
  BY <1>1, Typed, PTL DEF Spec

-----------------------------------------------------------------------------
(***************************************************************************)
(* The number of rows.  Every handler that is about to insert has counted   *)
(* fewer than MaxRows, and all of them may have counted before any inserts. *)
(***************************************************************************)
(* The table and the handlers are finite sets, whose sizes are numbers. *)
LEMMA SizesAreNumbers ==
  ASSUME TypeOK
  PROVE  /\ IsFiniteSet(DOMAIN rows) /\ Cardinality(DOMAIN rows) \in Nat
         /\ IsFiniteSet(Inserting) /\ Cardinality(Inserting) \in Nat
         /\ Cardinality(Inserting) <= Cardinality(Handler)
         /\ Cardinality(Handler) \in Nat \ {0} /\ MaxRows \in Nat \ {0}
<1>1. IsFiniteSet(1..Len(added))
  <2>1. Len(added) \in Int /\ 1 \in Int
    BY DEF TypeOK
  <2> QED
    BY <2>1, FS_Interval
<1>2. IsFiniteSet(DOMAIN rows)
  BY <1>1, FS_Subset DEF TypeOK
<1>3. IsFiniteSet(Handler) /\ Inserting \subseteq Handler /\ Handler # {}
  BY ScheduleAssumption DEF Inserting
<1> QED
  BY <1>2, <1>3, FS_Subset, FS_CardinalityType, FS_EmptySet, ScheduleAssumption

(* A step that neither inserts a row nor lets a handler pass the count. *)
LEMMA NoMoreRows ==
  ASSUME TypeOK, TypeOK', RowsBounded, DOMAIN rows' \subseteq DOMAIN rows, Inserting' \subseteq Inserting
  PROVE  RowsBounded'
<1>1. Cardinality(DOMAIN rows') <= Cardinality(DOMAIN rows) /\ Cardinality(DOMAIN rows') \in Nat
  BY SizesAreNumbers, FS_Subset, FS_CardinalityType
<1>2. Cardinality(Inserting') <= Cardinality(Inserting) /\ Cardinality(Inserting') \in Nat
  BY SizesAreNumbers, FS_Subset, FS_CardinalityType
<1> QED
  BY <1>1, <1>2, SizesAreNumbers DEF RowsBounded

(* Count: there was room, whatever the other handlers are about to do. *)
LEMMA CountStep ==
  ASSUME TypeOK, TypeOK', RowsBounded, NEW h \in Handler, Count(h) PROVE RowsBounded'
<1>1. CASE db /\ HasRoom
  <2>1. UNCHANGED rows /\ Cardinality(DOMAIN rows) < MaxRows
    BY <1>1 DEF Count, HasRoom, table
  <2>2. Inserting' \subseteq Handler
    BY DEF Inserting
  <2>3. Cardinality(Inserting') <= Cardinality(Handler) /\ Cardinality(Inserting') \in Nat
    BY <2>2, FS_Subset, FS_CardinalityType, ScheduleAssumption
  <2> QED
    BY <2>1, <2>3, SizesAreNumbers DEF RowsBounded
<1>2. CASE ~(db /\ HasRoom)
  <2>1. UNCHANGED rows /\ Inserting' \subseteq Inserting
    BY <1>2 DEF Count, End, table, Inserting, TypeOK
  <2> QED
    BY <2>1, NoMoreRows
<1> QED
  BY <1>1, <1>2

(* Insert: one row more, one handler less that is about to. *)
LEMMA InsertStep ==
  ASSUME TypeOK, TypeOK', RowsBounded, NEW h \in Handler, Insert(h) PROVE RowsBounded'
<1>1. DOMAIN rows' = DOMAIN rows \cup {NextId}
  BY DEF Insert
<1>2. Cardinality(DOMAIN rows') <= Cardinality(DOMAIN rows) + 1 /\ Cardinality(DOMAIN rows') \in Nat
  <2>1. IsFiniteSet(DOMAIN rows) /\ Cardinality(DOMAIN rows) \in Nat
    BY SizesAreNumbers
  <2>2. CASE NextId \in DOMAIN rows
    <3>1. DOMAIN rows' = DOMAIN rows
      BY <1>1, <2>2
    <3> QED
      BY <2>1, <3>1
  <2>3. CASE NextId \notin DOMAIN rows
    <3>1. Cardinality(DOMAIN rows \cup {NextId}) = Cardinality(DOMAIN rows) + 1
      BY <2>1, <2>3, FS_AddElement
    <3> QED
      BY <1>1, <2>1, <3>1
  <2> QED
    BY <2>2, <2>3
<1>3. h \in Inserting /\ Inserting' = Inserting \ {h}
  BY DEF Insert, AfterInsert, End, Inserting, TypeOK
<1>4. Cardinality(Inserting') = Cardinality(Inserting) - 1
  BY <1>3, SizesAreNumbers, FS_RemoveElement
<1> QED
  BY <1>2, <1>4, SizesAreNumbers DEF RowsBounded

(* A handler that goes anywhere but to the insertion. *)
LEMMA NotInserting ==
  ASSUME TypeOK, NEW h \in Handler, NEW label \in Places \ {"insert"}, pc' = [pc EXCEPT ![h] = label]
  PROVE  Inserting' \subseteq Inserting
BY DEF Inserting, TypeOK, Places

(* "Can't have more than MaxRows events": at most one more for every handler
   but one, whichever of them count at the same time.                       *)
THEOREM RowsAlwaysBounded == Spec => []RowsBounded
<1>1. Init => TypeOK /\ RowsBounded
  <2> SUFFICES ASSUME Init PROVE TypeOK /\ RowsBounded
    OBVIOUS
  <2>1. TypeOK
    BY ScheduleAssumption DEF Init, TypeOK, Nothing, Bounded
  <2>2. DOMAIN rows = {} /\ Inserting = {}
    BY DEF Init, Nothing, Inserting
  <2> QED
    BY <2>1, <2>2, SizesAreNumbers, FS_EmptySet DEF RowsBounded
<1>2. TypeOK /\ RowsBounded /\ [Next]_vars => TypeOK' /\ RowsBounded'
  <2> SUFFICES ASSUME TypeOK, RowsBounded, [Next]_vars PROVE RowsBounded'
    BY Typed
  <2>0. TypeOK'
    BY Typed
  <2> USE DEF table, loop, commands, discord, history
  <2>1. ASSUME NEW h \in Handler, Start(h) PROVE RowsBounded'
    <3>1. UNCHANGED rows
      BY <2>1 DEF Start, Ban, AssignRole, Sanction, Join, AddEvent, RemindMe, AddBirthday
    <3>2. UNCHANGED pc \/ \E label \in Places \ {"insert"} : pc' = [pc EXCEPT ![h] = label]
      BY <2>1 DEF Start, Ban, AssignRole, Sanction, Join, AddEvent, RemindMe, AddBirthday, Begin, Places
    <3> QED
      BY <2>0, <3>1, <3>2, NotInserting, NoMoreRows DEF Inserting
  <2>2. ASSUME NEW h \in Handler, Count(h) \/ Insert(h) PROVE RowsBounded'
    BY <2>0, <2>2, CountStep, InsertStep
  <2>3. ASSUME NEW h \in Handler, InsertFails(h) \/ Find(h) \/ Impose(h) PROVE RowsBounded'
    <3>1. UNCHANGED rows
      BY <2>3 DEF InsertFails, Find, Impose
    <3>2. \E label \in Places \ {"insert"} : pc' = [pc EXCEPT ![h] = label]
      BY <2>3 DEF InsertFails, Find, Impose, End, Goto, Places
    <3> QED
      BY <2>0, <3>1, <3>2, NotInserting, NoMoreRows
  <2>4. ASSUME \/ \E id \in Id : RemoveEvent(id)
               \/ GetSchedule \/ Fire \/ Remove
               \/ Outage \/ Recover \/ SetChannel \/ TimePasses \/ UNCHANGED vars
        PROVE  RowsBounded'
    <3>1. UNCHANGED pc
      BY <2>4 DEF RemoveEvent, GetSchedule, Fire, Remove, Outage, Recover, SetChannel, TimePasses, vars
    <3>2. DOMAIN rows' \subseteq DOMAIN rows
      BY <2>4 DEF RemoveEvent, GetSchedule, Fire, Remove, RemoveSchedule, Outage, Recover, SetChannel,
                  TimePasses, vars
    <3> QED
      BY <2>0, <3>1, <3>2, NoMoreRows DEF Inserting
  <2>5. CASE Restart
    <3>1. UNCHANGED rows /\ Inserting' = {}
      BY <2>5 DEF Restart, Inserting
    <3> QED
      BY <2>0, <3>1, NoMoreRows
  <2> QED
    BY <2>1, <2>2, <2>3, <2>4, <2>5 DEF Next, Proceed, OnTick
<1> QED
  BY <1>1, <1>2, PTL DEF Spec
-----------------------------------------------------------------------------
(***************************************************************************)
(* That a sanction keeps its end.  What has to be known besides HasEnd:     *)
(* which row belongs to which command and to which promise, that OnTick's   *)
(* copy of a row is the row, that a command whose row is in the table is    *)
(* done before the row is due, and that a row about to be removed has       *)
(* taken back what it was to take back.                                     *)
(***************************************************************************)
(* The rows: one that does not repeat keeps its date, one that does stays;
   what OnTick has read still stands in the table, unless it was deleted.   *)
RowDates == \A id \in DOMAIN rows : added[id].repeat = 0 => rows[id] = added[id].date
RepeatsStay == \A id \in 1..Len(added) : added[id].repeat # 0 => id \in DOMAIN rows \cup deleted
DueDates == \A id \in DOMAIN due : added[id].repeat = 0 => due[id] = added[id].date
DueCurrent == \A id \in DOMAIN due \cap DOMAIN rows : rows[id] = due[id]

TableInv == RowDates /\ RepeatsStay /\ DueDates /\ DueCurrent

(* The commands: what each is about, its row once it is inserted, and that it
   is in time.                                                               *)
Kinds(h) ==
  /\ job[h].what \in {"sanction", "join"} =>
       job[h].kind = "take" /\ job[h].repeat = 0 /\ job[h].subject \in Sanctioned
  /\ job[h].what = "birthday" => job[h].repeat = Year /\ job[h].subject \in Celebrated
  /\ job[h].kind = "give" => job[h].what = "birthday"

Linked(h) == pc[h] \in {"find", "impose"} =>
  /\ job[h].what = "sanction"
  /\ job[h].id # 0 => /\ job[h].id \in 1..Len(added) /\ added[job[h].id] = Row(h)
                      /\ job[h].id \in DOMAIN rows \cup deleted

Timely(h) == pc[h] # "idle" /\ job[h].what = "sanction" /\ (pc[h] # "impose" \/ job[h].id # 0) =>
  clock < job[h].date

JobInv == \A h \in Handler : pc[h] # "idle" => Kinds(h) /\ Linked(h) /\ Timely(h)

(* The promises: which rows they are, and what the row OnTick is about to
   remove has done.                                                          *)
OnlyBirthdaysGive == \A id \in 1..Len(added) : added[id].kind = "give" => added[id].subject \in Celebrated

Promised == \A x \in Subject : promise[x] # 0 =>
  /\ promise[x] \in 1..Len(added)
  /\ added[promise[x]].kind = "take" /\ added[promise[x]].subject = x
  /\ x \in Celebrated => added[promise[x]].repeat # 0

TakenBack == tick = "remove" => \A x \in Subject :
  promise[x] = current => \/ ~held[x] \/ added[current].repeat # 0
                          \/ current \in deleted \cup forgone

PromiseInv == OnlyBirthdaysGive /\ Promised /\ TakenBack /\ HasEnd

EndInv == TypeOK /\ TableInv /\ JobInv /\ PromiseInv

(* What is inserted is a row, and a new one. *)
LEMMA InsertedRow ==
  ASSUME TypeOK, NEW h \in Handler, Insert(h)
  PROVE  Row(h) \in Event
BY DEF TypeOK, Insert, Row, Event, Job

(* The rows and OnTick's copy, over every step. *)
LEMMA TableStep == ASSUME TypeOK, TableInv, [Next]_vars PROVE TableInv'
<1> USE DEF table, loop, commands, discord, history, TableInv
<1>0. TypeOK' /\ added \in Seq(Event) /\ Len(added) \in Nat
  BY Typed DEF TypeOK
<1>1. ASSUME UNCHANGED <<added, rows, due>>, deleted \subseteq deleted' PROVE TableInv'
  BY <1>1 DEF RowDates, RepeatsStay, DueDates, DueCurrent
<1>2. ASSUME NEW h \in Handler, Start(h) \/ Count(h) \/ InsertFails(h) \/ Find(h) \/ Impose(h) PROVE TableInv'
  BY <1>1, <1>2 DEF Start, Ban, AssignRole, Sanction, Join, AddEvent, RemindMe, AddBirthday,
                    Count, InsertFails, Find, Impose
<1>3. CASE Fire \/ Outage \/ Recover \/ SetChannel \/ TimePasses \/ UNCHANGED vars
  BY <1>1, <1>3 DEF Fire, Outage, Recover, SetChannel, TimePasses, vars
<1>4. ASSUME NEW h \in Handler, Insert(h) PROVE TableInv'
  <2>1. Row(h) \in Event /\ added' = Append(added, Row(h)) /\ UNCHANGED <<due, deleted>>
    BY <1>4, InsertedRow DEF Insert
  <2>2. /\ Len(added') = NextId /\ added'[NextId] = Row(h)
        /\ \A id \in 1..Len(added) : added'[id] = added[id]
    BY <1>0, <2>1 DEF NextId
  <2>3. rows' = [id \in DOMAIN rows \cup {NextId} |-> IF id = NextId THEN job[h].date ELSE rows[id]]
    BY <1>4 DEF Insert
  <2>4. DOMAIN rows \subseteq 1..Len(added) /\ DOMAIN due \subseteq 1..Len(added) /\ NextId \notin 1..Len(added)
    BY <1>0 DEF TypeOK, NextId
  <2>5. RowDates'
    BY <2>2, <2>3, <2>4 DEF RowDates, Row
  <2>6. RepeatsStay'
    <3> SUFFICES ASSUME NEW id \in 1..Len(added'), added'[id].repeat # 0
                 PROVE  id \in DOMAIN rows' \cup deleted'
      BY DEF RepeatsStay
    <3>1. CASE id = NextId
      BY <3>1, <2>3
    <3>2. CASE id # NextId
      <4>1. id \in 1..Len(added)
        BY <3>2, <2>2, <1>0 DEF NextId
      <4> QED
        BY <4>1, <2>1, <2>2, <2>3 DEF RepeatsStay
    <3> QED
      BY <3>1, <3>2
  <2>7. DueDates' /\ DueCurrent'
    BY <2>1, <2>2, <2>3, <2>4 DEF DueDates, DueCurrent
  <2> QED
    BY <2>5, <2>6, <2>7
<1>5. ASSUME NEW id \in Id, RemoveEvent(id) PROVE TableInv'
  BY <1>5 DEF RemoveEvent, RowDates, RepeatsStay, DueDates, DueCurrent
<1>6. CASE GetSchedule
  BY <1>6 DEF GetSchedule, Due, RowDates, RepeatsStay, DueDates, DueCurrent
<1>7. CASE Remove
  <2>1. current \in DOMAIN due /\ due[current] \in 0..clock /\ clock \in Nat /\ current \in 1..Len(added)
    BY <1>7 DEF Remove, TypeOK
  <2>2. UNCHANGED <<added, deleted>> /\ due' = [i \in DOMAIN due \ {current} |-> due[i]]
    BY <1>7 DEF Remove
  <2>3. CASE UNCHANGED rows
    BY <2>2, <2>3 DEF RowDates, RepeatsStay, DueDates, DueCurrent
  <2>4. CASE rows' = RemoveSchedule(current)
    <3>1. \A i \in DOMAIN rows \ {current} : i \in DOMAIN rows' /\ rows'[i] = rows[i]
      BY <2>4 DEF RemoveSchedule
    <3>2. DOMAIN rows' \subseteq DOMAIN rows
      BY <2>4 DEF RemoveSchedule
    <3>3. current \in DOMAIN rows /\ added[current].repeat # 0 => current \in DOMAIN rows'
      <4>1. current \in DOMAIN rows => rows[current] <= clock
        BY <2>1 DEF DueCurrent
      <4> QED
        BY <4>1, <2>4 DEF RemoveSchedule
    <3>4. current \in DOMAIN rows' => added[current].repeat # 0
      BY <2>4 DEF RemoveSchedule
    <3>5. RowDates'
      BY <2>2, <3>1, <3>2, <3>4 DEF RowDates
    <3>6. RepeatsStay'
      BY <2>2, <3>1, <3>3 DEF RepeatsStay
    <3>7. DueDates' /\ DueCurrent'
      BY <2>2, <3>1, <3>2 DEF DueDates, DueCurrent
    <3> QED
      BY <3>5, <3>6, <3>7
  <2> QED
    BY <1>7, <2>3, <2>4 DEF Remove
<1>8. CASE Restart
  BY <1>8 DEF Restart, Nothing, RowDates, RepeatsStay, DueDates, DueCurrent
<1> QED
  BY <1>2, <1>3, <1>4, <1>5, <1>6, <1>7, <1>8 DEF Next, Proceed, OnTick

(* One command, when the table and the clock stay. *)
LEMMA JobStays ==
  ASSUME EndInv, NEW h \in Handler, pc'[h] # "idle" => pc'[h] = pc[h] /\ job'[h] = job[h],
         UNCHANGED <<clock, added, rows>>, deleted \subseteq deleted'
  PROVE  (pc[h] # "idle" => Kinds(h) /\ Linked(h) /\ Timely(h))
           => (pc'[h] # "idle" => Kinds(h)' /\ Linked(h)' /\ Timely(h)')
BY DEF EndInv, JobInv, Kinds, Linked, Timely, Row

(* A command that begins: the others go on. *)
LEMMA BeginJob ==
  ASSUME EndInv, NEW h \in Handler, NEW label \in {"count", "impose"},
         NEW what \in {"sanction", "join", "event", "birthday"}, NEW kind \in {"say", "give", "take"},
         NEW x \in Subject, NEW date \in Nat, NEW repeat \in Nat,
         Begin(h, what, kind, x, date, repeat, label),
         what \in {"sanction", "join"} => kind = "take" /\ repeat = 0 /\ x \in Sanctioned,
         what = "birthday" => repeat = Year /\ x \in Celebrated,
         kind = "give" => what = "birthday",
         label = "impose" => what = "sanction",
         what = "sanction" /\ label # "impose" => clock < date,
         UNCHANGED <<clock, added, rows, deleted>>
  PROVE  JobInv'
<1> SUFFICES ASSUME NEW g \in Handler, pc'[g] # "idle" PROVE Kinds(g)' /\ Linked(g)' /\ Timely(g)'
  BY DEF JobInv
<1>1. CASE g = h
  <2>1. /\ pc'[g] = label
        /\ job'[g] = [what |-> what, id |-> 0, kind |-> kind, subject |-> x, date |-> date, repeat |-> repeat]
    BY <1>1 DEF Begin, EndInv, TypeOK
  <2> QED
    BY <2>1 DEF Kinds, Linked, Timely
<1>2. CASE g # h
  <2>1. pc'[g] = pc[g] /\ job'[g] = job[g]
    BY <1>2 DEF Begin, EndInv, TypeOK
  <2> QED
    BY <2>1, JobStays DEF EndInv, JobInv
<1> QED
  BY <1>1, <1>2

(* The commands, over every step. *)
LEMMA JobStep == ASSUME Prompt, EndInv, [Next]_vars PROVE JobInv'
<1> USE DEF table, loop, commands, discord, history
<1>0. TypeOK /\ TypeOK' /\ Len(added) \in Nat /\ clock \in Nat /\ clock >= Day
  BY Typed DEF EndInv, TypeOK
<1>1. ASSUME NEW h \in Handler, Sanction(h) PROVE JobInv'
  <2>1. UNCHANGED <<clock, added, rows, deleted>>
    BY <1>1 DEF Sanction
  <2>2. PICK x \in Sanctioned :
          \/ \E d \in Durations : Begin(h, "sanction", "take", x, clock + d, 0, "count")
          \/ Begin(h, "sanction", "take", x, 0, 0, "impose")
    BY <1>1 DEF Sanction
  <2>3. ASSUME NEW d \in Durations, Begin(h, "sanction", "take", x, clock + d, 0, "count") PROVE JobInv'
    <3>1. clock + d \in Nat /\ clock < clock + d
      BY <1>0, ScheduleAssumption
    <3> QED
      BY <2>1, <2>3, <3>1, BeginJob DEF Subject
  <2>4. CASE Begin(h, "sanction", "take", x, 0, 0, "impose")
    BY <2>1, <2>4, BeginJob DEF Subject
  <2> QED
    BY <2>2, <2>3, <2>4
<1>2. ASSUME NEW h \in Handler, Join(h) PROVE JobInv'
  <2>1. UNCHANGED <<clock, added, rows, deleted>>
    BY <1>2 DEF Join
  <2>2. PICK x \in Sanctioned, d \in Durations :
          IF db THEN Begin(h, "join", "take", x, clock + d, 0, "count") ELSE UNCHANGED <<pc, job>>
    BY <1>2 DEF Join
  <2>3. clock + d \in Nat
    BY <1>0, ScheduleAssumption
  <2>4. CASE Begin(h, "join", "take", x, clock + d, 0, "count")
    BY <2>1, <2>3, <2>4, BeginJob DEF Subject
  <2>5. CASE UNCHANGED <<pc, job>>
    BY <2>1, <2>5, JobStays DEF EndInv, JobInv
  <2> QED
    BY <2>2, <2>4, <2>5
<1>3. ASSUME NEW h \in Handler, AddEvent(h) PROVE JobInv'
  <2>1. UNCHANGED <<clock, added, rows, deleted>>
    BY <1>3 DEF AddEvent
  <2>2. PICK x \in Sanctioned, kind \in {"say", "take"}, d \in {0} \cup Durations, r \in Repeats :
          Begin(h, "event", kind, x, clock + d, r, "count")
    BY <1>3 DEF AddEvent
  <2>3. clock + d \in Nat /\ r \in Nat
    BY <1>0, ScheduleAssumption
  <2> QED
    BY <2>1, <2>2, <2>3, BeginJob DEF Subject
<1>4. ASSUME NEW h \in Handler, RemindMe(h) PROVE JobInv'
  <2>1. UNCHANGED <<clock, added, rows, deleted>>
    BY <1>4 DEF RemindMe
  <2>2. PICK x \in Sanctioned, d \in {0} \cup Durations : Begin(h, "event", "say", x, clock + d, 0, "count")
    BY <1>4 DEF RemindMe
  <2>3. clock + d \in Nat
    BY <1>0, ScheduleAssumption
  <2> QED
    BY <2>1, <2>2, <2>3, BeginJob DEF Subject
<1>5. ASSUME NEW h \in Handler, AddBirthday(h) PROVE JobInv'
  <2>1. UNCHANGED <<clock, added, rows, deleted>>
    BY <1>5 DEF AddBirthday
  <2>2. PICK x \in Celebrated, d \in {-Day, 0} : Begin(h, "birthday", "give", x, clock + d, Year, "count")
    BY <1>5 DEF AddBirthday
  <2>3. clock + d \in Nat /\ Year \in Nat
    BY <1>0, ScheduleAssumption
  <2> QED
    BY <2>1, <2>2, <2>3, BeginJob DEF Subject
<1>6. ASSUME NEW h \in Handler, Count(h) \/ InsertFails(h) \/ Find(h) \/ Impose(h) PROVE JobInv'
  <2>1. UNCHANGED <<clock, added, rows, deleted>>
    BY <1>6 DEF Count, InsertFails, Find, Impose
  <2>2. \A g \in Handler \ {h} : pc'[g] = pc[g] /\ job'[g] = job[g]
    BY <1>0, <1>6 DEF Count, InsertFails, Find, Impose, Goto, End, TypeOK
  <2>3. \/ pc'[h] = "idle"
        \/ job'[h] = job[h] /\ <<pc[h], pc'[h]>> \in {<<"count", "insert">>, <<"find", "impose">>}
    BY <1>0, <1>6 DEF Count, InsertFails, Find, Impose, Goto, End, TypeOK
  <2>4. pc'[h] # "idle" => Kinds(h)' /\ Linked(h)' /\ Timely(h)'
    BY <2>1, <2>3 DEF EndInv, JobInv, Kinds, Linked, Timely, Row
  <2> QED
    BY <2>1, <2>2, <2>4, JobStays DEF EndInv, JobInv
<1>7. ASSUME NEW h \in Handler, Insert(h) PROVE JobInv'
  <2>1. Row(h) \in Event /\ added' = Append(added, Row(h)) /\ UNCHANGED <<clock, deleted>>
    BY <1>0, <1>7, InsertedRow DEF Insert
  <2>2. /\ Len(added') = NextId /\ NextId \in Nat \ {0} /\ added'[NextId] = Row(h)
        /\ \A id \in 1..Len(added) : id \in 1..Len(added') /\ added'[id] = added[id]
    BY <1>0, <2>1 DEF NextId, TypeOK
  <2>3. DOMAIN rows' = DOMAIN rows \cup {NextId}
    BY <1>7 DEF Insert
  <2>4. \A g \in Handler \ {h} : pc'[g] = pc[g] /\ job'[g] = job[g]
    BY <1>0, <1>7 DEF Insert, AfterInsert, End, TypeOK
  <2>5. ASSUME NEW g \in Handler \ {h}, pc'[g] # "idle" PROVE Kinds(g)' /\ Linked(g)' /\ Timely(g)'
    BY <2>1, <2>2, <2>3, <2>4, <2>5 DEF EndInv, JobInv, Kinds, Linked, Timely, Row
  <2>6. pc[h] = "insert" /\ Kinds(h) /\ Timely(h) /\ job[h] \in Job
    BY <1>0, <1>7 DEF Insert, EndInv, JobInv, TypeOK
  <2>7. ASSUME pc'[h] # "idle" PROVE Kinds(h)' /\ Linked(h)' /\ Timely(h)'
    <3>1. CASE job[h].what = "sanction" /\ pc'[h] = "find" /\ job' = [job EXCEPT ![h].id = NextId]
      <4>1. /\ job'[h].id = NextId /\ job'[h].what = "sanction" /\ job'[h].kind = job[h].kind
            /\ job'[h].subject = job[h].subject /\ job'[h].date = job[h].date /\ job'[h].repeat = job[h].repeat
        BY <1>0, <2>6, <3>1 DEF TypeOK, Job
      <4> QED
        BY <2>1, <2>2, <2>3, <2>6, <3>1, <4>1 DEF Kinds, Linked, Timely, Row
    <3>2. CASE job[h].what = "birthday" /\ pc'[h] = "count" /\ job'[h] = DayAfter(job[h])
      BY <2>6, <3>2 DEF Kinds, Linked, Timely, DayAfter
    <3> QED
      BY <1>0, <1>7, <2>7, <3>1, <3>2 DEF Insert, AfterInsert, End, TypeOK
  <2> QED
    BY <2>5, <2>7 DEF JobInv
<1>8. ASSUME NEW id \in Id, RemoveEvent(id) PROVE JobInv'
  BY <1>8 DEF RemoveEvent, EndInv, JobInv, Kinds, Linked, Timely, Row
<1>9. CASE Remove
  <2>1. UNCHANGED <<clock, pc, job, added, deleted>>
    BY <1>9 DEF Remove
  <2>2. \A i \in DOMAIN rows \ {current} : i \in DOMAIN rows'
    BY <1>9 DEF Remove, RemoveSchedule
  <2>3. current \in DOMAIN due /\ due[current] <= clock
    BY <1>0, <1>9 DEF Remove, TypeOK
  <2>4. ASSUME NEW h \in Handler, pc[h] \in {"find", "impose"}, job[h].id # 0 PROVE job[h].id # current
    <3>1. added[job[h].id] = Row(h) /\ job[h].what = "sanction" /\ job[h].repeat = 0 /\ clock < job[h].date
      BY <2>4 DEF EndInv, JobInv, Kinds, Linked, Timely
    <3>2. SUFFICES ASSUME job[h].id = current PROVE FALSE
      OBVIOUS
    <3>3. due[current] = job[h].date
      BY <2>3, <3>1, <3>2 DEF EndInv, TableInv, DueDates, Row
    <3>4. job[h] \in Job
      BY <1>0, <2>4 DEF TypeOK
    <3> QED
      BY <1>0, <2>3, <3>1, <3>3, <3>4 DEF Job, TypeOK
  <2> QED
    BY <2>1, <2>2, <2>4 DEF EndInv, JobInv, Kinds, Linked, Timely, Row
<1>10. CASE TimePasses
  <2>1. UNCHANGED <<pc, job, added, rows, deleted>> /\ clock' = clock + 1 /\ InTime
    BY <1>10 DEF TimePasses
  <2>2. ASSUME NEW h \in Handler, pc[h] # "idle" PROVE Kinds(h)' /\ Linked(h)' /\ Timely(h)'
    <3>1. Kinds(h)' /\ Linked(h)'
      BY <2>1, <2>2 DEF EndInv, JobInv, Kinds, Linked, Row
    <3>2. Timely(h)'
      <4>1. SUFFICES ASSUME job[h].what = "sanction", pc[h] # "impose" \/ job[h].id # 0
                     PROVE  clock + 1 < job[h].date
        BY <2>1 DEF Timely
      <4>2. clock < job[h].date /\ job[h].date \in Nat
        BY <1>0, <2>2, <4>1 DEF EndInv, JobInv, Timely, TypeOK, Job
      <4> QED
        BY <1>0, <2>1, <2>2, <4>1, <4>2 DEF InTime
    <3> QED
      BY <3>1, <3>2
  <2> QED
    BY <2>1, <2>2 DEF JobInv
<1>11. CASE Restart
  BY <1>11 DEF Restart, JobInv
<1>12. CASE GetSchedule \/ Fire \/ Outage \/ Recover \/ SetChannel \/ UNCHANGED vars
  <2>1. UNCHANGED <<clock, pc, job, added, rows, deleted>>
    BY <1>12 DEF GetSchedule, Fire, Outage, Recover, SetChannel, vars
  <2> QED
    BY <2>1, JobStays DEF EndInv, JobInv
<1> QED
  BY <1>1, <1>2, <1>3, <1>4, <1>5, <1>6, <1>7, <1>8, <1>9, <1>10, <1>11, <1>12
     DEF Next, Start, Ban, AssignRole, Proceed, OnTick

(* A step that leaves Discord, the promises and OnTick's place alone, and no
   row out that was not deleted.                                             *)
LEMMA PromisesStay ==
  ASSUME EndInv, UNCHANGED <<added, held, promise, tick, current, forgone>>,
         DOMAIN rows \cup deleted \subseteq DOMAIN rows' \cup deleted', deleted \subseteq deleted'
  PROVE  PromiseInv'
BY DEF EndInv, PromiseInv, OnlyBirthdaysGive, Promised, TakenBack, HasEnd

(* The promises, over every step. *)
LEMMA PromiseStep == ASSUME Prompt, EndInv, [Next]_vars PROVE PromiseInv'
<1> USE DEF table, loop, commands, discord, history
<1>0. /\ TypeOK /\ TypeOK' /\ Len(added) \in Nat /\ clock \in Nat
      /\ DOMAIN rows \subseteq 1..Len(added) /\ DOMAIN due \subseteq 1..Len(added)
      /\ held \in [Subject -> BOOLEAN] /\ promise \in [Subject -> Nat] /\ tick \in {"idle", "fire", "remove"}
      /\ Sanctioned \cap Celebrated = {}
  <2>1. TypeOK /\ TypeOK'
    BY Typed DEF EndInv
  <2>2. Sanctioned \cap Celebrated = {}
    BY ScheduleAssumption
  <2> QED
    BY <2>1, <2>2 DEF TypeOK
<1>1. /\ OnlyBirthdaysGive /\ Promised /\ TakenBack /\ HasEnd
  BY DEF EndInv, PromiseInv
<1>2. ASSUME NEW h \in Handler,
             \/ Sanction(h) \/ AddEvent(h) \/ RemindMe(h) \/ AddBirthday(h)
             \/ Count(h) \/ InsertFails(h) \/ Find(h)
      PROVE  PromiseInv'
  BY <1>2, PromisesStay DEF Sanction, AddEvent, RemindMe, AddBirthday, Count, InsertFails, Find
<1>3. ASSUME NEW h \in Handler, Join(h) PROVE PromiseInv'
  <2>1. PICK x \in Sanctioned : /\ promise' = [promise EXCEPT ![x] = 0]
                                /\ held' \in {held, [held EXCEPT ![x] = TRUE]}
    BY <1>3 DEF Join
  <2>2. UNCHANGED <<added, rows, deleted, forgone, tick, current>>
    BY <1>3 DEF Join
  <2>3. promise'[x] = 0 /\ x \in Subject
    BY <1>0, <2>1 DEF Subject
  <2>4. \A y \in Subject \ {x} : promise'[y] = promise[y] /\ held'[y] = held[y]
    BY <1>0, <2>1
  <2>5. tick = "remove" => current # 0
    BY <1>0 DEF TypeOK
  <2> QED
    BY <1>1, <2>2, <2>3, <2>4, <2>5 DEF PromiseInv, OnlyBirthdaysGive, Promised, TakenBack, HasEnd
<1>4. ASSUME NEW h \in Handler, Insert(h) PROVE PromiseInv'
  <2>1. Row(h) \in Event /\ added' = Append(added, Row(h)) /\ UNCHANGED <<tick, due, current, held, deleted, forgone>>
    BY <1>0, <1>4, InsertedRow DEF Insert
  <2>2. /\ Len(added') = NextId /\ NextId \in Nat \ {0} /\ added'[NextId] = Row(h)
        /\ \A id \in 1..Len(added) : id \in 1..Len(added') /\ added'[id] = added[id]
        /\ \A id \in 1..Len(added') : id \in 1..Len(added) \/ id = NextId
    BY <1>0, <2>1 DEF NextId, TypeOK
  <2>3. DOMAIN rows' = DOMAIN rows \cup {NextId} /\ NextId \notin 1..Len(added)
    BY <1>0, <1>4 DEF Insert, NextId
  <2>4. Kinds(h) /\ job[h] \in Job /\ job[h].subject \in Subject
    BY <1>0, <1>4 DEF Insert, EndInv, JobInv, TypeOK, Job
  <2>5. OnlyBirthdaysGive'
    BY <1>1, <2>2, <2>4 DEF OnlyBirthdaysGive, Kinds, Row
  <2>6. tick = "remove" => current \in 1..Len(added)
    BY <1>0 DEF TypeOK
  <2>7. CASE UNCHANGED promise
    <3>1. Promised'
      BY <1>1, <2>2, <2>7 DEF Promised
    <3>2. TakenBack' /\ HasEnd'
      BY <1>1, <2>1, <2>2, <2>3, <2>6, <2>7 DEF TakenBack, HasEnd
    <3> QED
      BY <2>5, <3>1, <3>2 DEF PromiseInv
  <2>8. CASE /\ <<job[h].what, job[h].kind>> \in {<<"join", "take">>, <<"birthday", "take">>}
             /\ promise' = [promise EXCEPT ![job[h].subject] = NextId]
    <3>1. promise'[job[h].subject] = NextId
      BY <1>0, <2>4, <2>8
    <3>2. \A x \in Subject \ {job[h].subject} : promise'[x] = promise[x]
      BY <1>0, <2>8
    <3>3. job[h].kind = "take" /\ (job[h].subject \in Celebrated => job[h].repeat # 0)
      BY <1>0, <2>4, <2>8, ScheduleAssumption DEF Kinds
    <3>4. Promised'
      BY <1>1, <2>2, <3>1, <3>2, <3>3 DEF Promised, Row
    <3>5. TakenBack'
      BY <1>1, <2>1, <2>2, <2>3, <2>6, <3>1, <3>2 DEF TakenBack
    <3>6. HasEnd'
      BY <1>1, <2>1, <2>3, <3>1, <3>2 DEF HasEnd
    <3> QED
      BY <2>5, <3>4, <3>5, <3>6 DEF PromiseInv
  <2> QED
    BY <1>4, <2>7, <2>8 DEF Insert, AfterInsert
<1>5. ASSUME NEW h \in Handler, Impose(h) PROVE PromiseInv'
  <2>1. UNCHANGED <<clock, added, rows, due, deleted, forgone, tick, current>>
    BY <1>5 DEF Impose
  <2>2. CASE UNCHANGED discord
    BY <2>1, <2>2, PromisesStay
  <2>3. CASE /\ held' = [held EXCEPT ![job[h].subject] = TRUE]
             /\ promise' = [promise EXCEPT ![job[h].subject] = job[h].id]
    <3> DEFINE s == job[h].subject
               p == job[h].id
    <3>1. job[h] \in Job /\ s \in Subject /\ p \in Nat /\ Kinds(h) /\ Linked(h) /\ Timely(h)
          /\ pc[h] = "impose" /\ job[h].what = "sanction"
      BY <1>0, <1>5 DEF Impose, EndInv, JobInv, TypeOK, Job, Linked
    <3>2. promise'[s] = p /\ \A x \in Subject \ {s} : promise'[x] = promise[x] /\ held'[x] = held[x]
      BY <1>0, <2>3, <3>1
    <3>3. CASE p = 0
      <4>1. tick = "remove" => current # 0
        BY <1>0 DEF TypeOK
      <4> QED
        BY <1>1, <2>1, <3>1, <3>2, <3>3, <4>1 DEF PromiseInv, OnlyBirthdaysGive, Promised, TakenBack, HasEnd
    <3>4. CASE p # 0
      <4>1. /\ p \in 1..Len(added) /\ added[p] = Row(h) /\ p \in DOMAIN rows \cup deleted
            /\ job[h].kind = "take" /\ job[h].repeat = 0 /\ s \in Sanctioned /\ clock < job[h].date
        BY <3>1, <3>4 DEF Kinds, Linked, Timely
      <4>2. tick = "remove" => p # current
        <5>1. SUFFICES ASSUME tick = "remove", p = current PROVE FALSE
          OBVIOUS
        <5>2. current \in DOMAIN due /\ due[current] <= clock
          BY <1>0, <5>1 DEF TypeOK
        <5>3. due[current] = job[h].date
          BY <4>1, <5>1, <5>2 DEF EndInv, TableInv, DueDates, Row
        <5> QED
          BY <1>0, <3>1, <4>1, <5>2, <5>3 DEF Job
      <4>3. Promised'
        BY <1>0, <1>1, <2>1, <3>2, <4>1 DEF Promised, Row
      <4>4. TakenBack'
        BY <1>1, <2>1, <3>2, <4>2 DEF TakenBack
      <4>5. HasEnd'
        BY <1>1, <2>1, <3>2, <4>1 DEF HasEnd
      <4> QED
        BY <1>1, <2>1, <4>3, <4>4, <4>5 DEF PromiseInv, OnlyBirthdaysGive
    <3> QED
      BY <3>3, <3>4
  <2> QED
    BY <1>5, <2>2, <2>3 DEF Impose
<1>6. ASSUME NEW id \in Id, RemoveEvent(id) PROVE PromiseInv'
  BY <1>6, PromisesStay DEF RemoveEvent
<1>7. CASE GetSchedule
  BY <1>1, <1>7 DEF GetSchedule, PromiseInv, OnlyBirthdaysGive, Promised, TakenBack, HasEnd
<1>8. CASE Fire
  <2>1. /\ UNCHANGED <<added, rows, promise, deleted>> /\ tick' = "remove"
        /\ current' \in DOMAIN due /\ Effect(current')
    BY <1>8 DEF Fire
  <2> DEFINE e == added[current']
  <2>2. current' \in 1..Len(added) /\ e \in Event /\ e.subject \in Subject
    <3>1. current' \in 1..Len(added) /\ added \in Seq(Event)
      BY <1>0, <2>1 DEF TypeOK
    <3>2. e \in Event
      BY <3>1
    <3> QED
      BY <3>1, <3>2 DEF Event
  <2>3. \A x \in Subject : promise[x] = current' =>
          e.kind = "take" /\ e.subject = x /\ (x \in Celebrated => e.repeat # 0)
    BY <1>1, <2>2 DEF Promised
  <2>4. forgone \subseteq forgone'
    BY <2>1 DEF Effect
  <2>5. \A x \in Subject : held'[x] => held[x] \/ (x = e.subject /\ e.kind = "give")
    BY <1>0, <2>1, <2>2 DEF Effect
  <2>6. TakenBack'
    <3> SUFFICES ASSUME NEW x \in Subject, promise[x] = current'
                 PROVE  ~held'[x] \/ current' \in forgone'
      BY <2>1 DEF TakenBack
    <3>1. e.kind = "take" /\ e.subject = x
      BY <2>3
    <3> QED
      BY <1>0, <2>1, <2>2, <3>1 DEF Effect
  <2>7. HasEnd'
    <3> SUFFICES ASSUME NEW x \in Subject, held'[x], promise[x] # 0
                 PROVE  promise[x] \in DOMAIN rows \cup deleted \cup forgone'
      BY <2>1 DEF HasEnd
    <3>1. CASE held[x]
      BY <1>1, <2>4, <3>1 DEF HasEnd
    <3>2. CASE x = e.subject /\ e.kind = "give"
      <4>1. x \in Celebrated
        BY <1>1, <2>2, <3>2 DEF OnlyBirthdaysGive
      <4>2. promise[x] \in 1..Len(added) /\ added[promise[x]].repeat # 0
        BY <1>1, <4>1 DEF Promised
      <4> QED
        BY <4>2 DEF EndInv, TableInv, RepeatsStay
    <3> QED
      BY <2>5, <3>1, <3>2
  <2> QED
    BY <1>1, <2>1, <2>6, <2>7 DEF PromiseInv, OnlyBirthdaysGive, Promised
<1>9. CASE Remove
  <2>1. UNCHANGED <<added, held, promise, deleted, forgone>> /\ tick = "remove" /\ tick' # "remove"
    BY <1>9 DEF Remove
  <2>2. \A i \in DOMAIN rows \ {current} : i \in DOMAIN rows'
    BY <1>9 DEF Remove, RemoveSchedule
  <2>3. TableInv'
    BY TableStep DEF EndInv
  <2>4. HasEnd'
    <3> SUFFICES ASSUME NEW x \in Subject, held[x], promise[x] # 0
                 PROVE  promise[x] \in DOMAIN rows' \cup deleted \cup forgone
      BY <2>1 DEF HasEnd
    <3>1. promise[x] \in DOMAIN rows \cup deleted \cup forgone
      BY <1>1 DEF HasEnd
    <3>2. CASE promise[x] # current
      BY <2>2, <3>1, <3>2
    <3>3. CASE promise[x] = current /\ added[current].repeat # 0
      <4>1. promise[x] \in 1..Len(added)
        BY <1>1 DEF Promised
      <4> QED
        BY <2>1, <2>3, <3>3, <4>1 DEF TableInv, RepeatsStay
    <3>4. CASE promise[x] = current /\ added[current].repeat = 0
      BY <1>1, <2>1, <3>4 DEF TakenBack
    <3> QED
      BY <3>2, <3>3, <3>4
  <2> QED
    BY <1>1, <2>1, <2>4 DEF PromiseInv, OnlyBirthdaysGive, Promised, TakenBack
<1>10. CASE Restart
  BY <1>1, <1>10 DEF Restart, PromiseInv, OnlyBirthdaysGive, Promised, TakenBack, HasEnd
<1>11. CASE Outage \/ Recover \/ SetChannel \/ TimePasses \/ UNCHANGED vars
  BY <1>11, PromisesStay DEF Outage, Recover, SetChannel, TimePasses, vars
<1> QED
  BY <1>2, <1>3, <1>4, <1>5, <1>6, <1>7, <1>8, <1>9, <1>10, <1>11
     DEF Next, Start, Ban, AssignRole, Proceed, OnTick

(* EndInv holds at first and over every step. *)
LEMMA EndHolds == ASSUME Prompt PROVE (Init => EndInv) /\ (EndInv /\ [Next]_vars => EndInv')
<1>1. Init => EndInv
  <2> SUFFICES ASSUME Init PROVE EndInv
    OBVIOUS
  <2>1. TypeOK
    BY ScheduleAssumption DEF Init, TypeOK, Nothing, Bounded
  <2>2. Len(added) = 0 /\ DOMAIN rows = {} /\ DOMAIN due = {}
    BY DEF Init, Nothing
  <2>3. TableInv
    BY <2>2 DEF TableInv, RowDates, RepeatsStay, DueDates, DueCurrent
  <2>4. JobInv
    BY DEF Init, JobInv
  <2>5. PromiseInv
    BY <2>2 DEF Init, PromiseInv, OnlyBirthdaysGive, Promised, TakenBack, HasEnd
  <2> QED
    BY <2>1, <2>3, <2>4, <2>5 DEF EndInv
<1>2. EndInv /\ [Next]_vars => EndInv'
  <2> SUFFICES ASSUME EndInv, [Next]_vars PROVE EndInv'
    OBVIOUS
  <2>1. TypeOK'
    BY Typed DEF EndInv
  <2> QED
    BY <2>1, TableStep, JobStep, PromiseStep DEF EndInv
<1> QED
  BY <1>1, <1>2

(* Whoever was banned or given a role for a time has an event that takes it
   back until it does, for any number of handlers, members, outages, restarts
   and failures, if a command is done before the sanction it imposes ends.    *)
THEOREM SanctionsEnd == ASSUME Prompt PROVE Spec => []HasEnd
<1>1. EndInv => HasEnd
  BY DEF EndInv, PromiseInv
<1> QED
  BY <1>1, EndHolds, PTL DEF Spec
-----------------------------------------------------------------------------
(***************************************************************************)
(* How often an event is carried out.  What OnTick may still carry out for  *)
(* a date without anything going wrong from now on, Left, is counted with   *)
(* what was carried out: once for what it has read, and once for a row that *)
(* it has not read, or cannot take out while the database is away.  Only a  *)
(* loss of the database or a restart makes it more.                         *)
(***************************************************************************)
Again(id, d) == id \in DOMAIN rows /\ rows[id] = d
Pending(id, d) == id \in DOMAIN due /\ due[id] = d /\ ~(tick = "remove" /\ current = id)
Left(id, d) == (IF Pending(id, d) THEN 1 ELSE 0)
             + (IF Again(id, d) /\ (id \notin DOMAIN due \/ ~db) THEN 1 ELSE 0)

(* Nothing is carried out before it is in the table, or before its date. *)
Untouched == \A id \in Id, d \in 0..LastTime :
  id > Len(added) \/ (id \in DOMAIN rows /\ d > rows[id]) => times[id][d] = 0

WithinBudget == \A id \in Id, d \in 0..LastTime :
  times[id][d] + Left(id, d) <= 1 + used["outages"] + used["restarts"]

CountInv == Untouched /\ WithinBudget

(* What the types say of the numbers. *)
LEMMA CountNumbers ==
  ASSUME TypeOK, NEW id \in Id, NEW d \in 0..LastTime
  PROVE  times[id][d] \in Nat /\ Left(id, d) \in 0..2 /\ used["outages"] \in Nat /\ used["restarts"] \in Nat
<1>1. times[id] \in [0..LastTime -> Nat]
  BY DEF TypeOK
<1>2. Left(id, d) \in 0..2
  BY DEF Left
<1> QED
  BY <1>1, <1>2 DEF TypeOK, Bounded

LEMMA StillWithin ==
  ASSUME TypeOK, TypeOK', NEW id \in Id, NEW d \in 0..LastTime, UNCHANGED times,
         used'["outages"] >= used["outages"], used'["restarts"] >= used["restarts"],
         Left(id, d)' <= Left(id, d),
         times[id][d] + Left(id, d) <= 1 + used["outages"] + used["restarts"]
  PROVE  times'[id][d] + Left(id, d)' <= 1 + used'["outages"] + used'["restarts"]
<1>1. times[id][d] \in Nat /\ times' = times /\ Left(id, d) \in 0..2 /\ Left(id, d)' \in 0..2
  BY CountNumbers DEF Left
<1>2. used["outages"] \in Nat /\ used["restarts"] \in Nat /\ used'["outages"] \in Nat /\ used'["restarts"] \in Nat
  BY DEF TypeOK, Bounded
<1> QED
  BY <1>1, <1>2

(* A step that carries nothing out and leaves no more to carry out. *)
LEMMA NoMoreLeft ==
  ASSUME TypeOK, TypeOK', CountInv, UNCHANGED times,
         used'["outages"] >= used["outages"], used'["restarts"] >= used["restarts"],
         Len(added) <= Len(added'), \A id \in DOMAIN rows' : id \in DOMAIN rows /\ rows'[id] >= rows[id],
         \A id \in Id, d \in 0..LastTime : Left(id, d)' <= Left(id, d)
  PROVE  CountInv'
<1>0. Len(added) \in Nat /\ Len(added') \in Nat /\ rows \in [DOMAIN rows -> Nat] /\ rows' \in [DOMAIN rows' -> Nat]
  BY DEF TypeOK
<1>1. Untouched'
  BY <1>0 DEF CountInv, Untouched, Id
<1>2. WithinBudget'
  <2>1. \A id \in Id, d \in 0..LastTime : Left(id, d)' <= Left(id, d)
    OBVIOUS
  <2> QED
    BY <2>1, StillWithin DEF WithinBudget, CountInv
<1> QED
  BY <1>1, <1>2 DEF CountInv

(* Steps of the commands and of the surroundings: the table and OnTick stay. *)
LEMMA TickStays ==
  ASSUME TypeOK, TypeOK', CountInv, UNCHANGED <<added, rows, tick, due, current, db, times>>,
         used'["outages"] >= used["outages"], used'["restarts"] >= used["restarts"]
  PROVE  CountInv'
<1>1. Len(added) \in Nat /\ rows \in [DOMAIN rows -> Nat]
  BY DEF TypeOK
<1>2. \A id \in Id, d \in 0..LastTime : Left(id, d)' = Left(id, d) /\ Left(id, d) \in 0..2
  BY CountNumbers DEF Left, Pending, Again
<1> QED
  BY <1>1, <1>2, NoMoreLeft

LEMMA UseGrows ==
  ASSUME TypeOK, NEW w \in Bounded, NEW max, Use(w, max)
  PROVE  used'[w] = used[w] + 1 /\ \A v \in Bounded : used[v] \in Nat /\ used'[v] >= used[v]
BY DEF TypeOK, Use

LEMMA CountedStep == ASSUME TypeOK, TableInv, CountInv, [Next]_vars PROVE CountInv'
<1> USE DEF table, loop, commands, discord, history
<1>0. TypeOK /\ TypeOK' 
      /\ "commands" \in Bounded /\ "outages" \in Bounded /\ "restarts" \in Bounded
      /\ "failures" \in Bounded /\ "deletions" \in Bounded /\ "moves" \in Bounded
  BY Typed DEF Bounded
<1>T. /\ Len(added) \in Nat /\ rows \in [DOMAIN rows -> Nat] /\ DOMAIN rows \subseteq 1..Len(added)
      /\ DOMAIN due \subseteq 1..Len(added) /\ clock \in Nat /\ due \in [DOMAIN due -> 0..clock]
      /\ \A v \in Bounded : used[v] \in Nat
      /\ times \in [Id -> [0..LastTime -> Nat]] /\ Id \subseteq Nat
  BY DEF TypeOK, Id
<1>1. ASSUME NEW h \in Handler, Start(h) PROVE CountInv'
  <2>1. UNCHANGED <<added, rows, tick, due, current, db, times>> /\ Use("commands", MaxCommands)
    BY <1>1 DEF Start, Ban, AssignRole, Sanction, Join, AddEvent, RemindMe, AddBirthday
  <2> QED
    BY <1>0, <2>1, UseGrows, TickStays
<1>2. ASSUME NEW h \in Handler, Count(h) \/ InsertFails(h) \/ Find(h) PROVE CountInv'
  <2>1. UNCHANGED <<added, rows, tick, due, current, db, times, used>>
    BY <1>2 DEF Count, InsertFails, Find
  <2> QED
    BY <1>0, <1>T, <2>1, TickStays
<1>3. ASSUME NEW h \in Handler, Impose(h) PROVE CountInv'
  <2>1. UNCHANGED <<added, rows, tick, due, current, db, times>>
        /\ (UNCHANGED used \/ Use("failures", MaxFailures))
    BY <1>3 DEF Impose, Fails
  <2> QED
    BY <1>0, <1>T, <2>1, UseGrows, TickStays
<1>4. CASE Recover \/ SetChannel \/ TimePasses \/ UNCHANGED vars
  <2>1. UNCHANGED <<added, rows, tick, due, current, times>> /\ (UNCHANGED used \/ Use("moves", MaxMoves))
        /\ (db' = db \/ db')
    BY <1>4 DEF Recover, SetChannel, TimePasses, vars
  <2>2. used'["outages"] >= used["outages"] /\ used'["restarts"] >= used["restarts"]
    BY <1>0, <1>T, <2>1, UseGrows
  <2>3. \A id \in Id, d \in 0..LastTime : Left(id, d)' <= Left(id, d)
    BY <2>1 DEF Left, Pending, Again
  <2> QED
    BY <1>0, <1>T, <2>1, <2>2, <2>3, NoMoreLeft
<1>5. ASSUME NEW h \in Handler, Insert(h) PROVE CountInv'
  <2>1. Row(h) \in Event /\ added' = Append(added, Row(h)) /\ UNCHANGED <<tick, due, current, db, times, used>>
    BY <1>0, <1>5, InsertedRow DEF Insert
  <2>2. Len(added') = Len(added) + 1 /\ NextId = Len(added) + 1
    BY <1>0, <2>1 DEF NextId, TypeOK
  <2>3. rows' = [id \in DOMAIN rows \cup {NextId} |-> IF id = NextId THEN job[h].date ELSE rows[id]]
    BY <1>5 DEF Insert
  <2>4. Untouched'
    <3> SUFFICES ASSUME NEW id \in Id, NEW d \in 0..LastTime,
                        id > Len(added') \/ (id \in DOMAIN rows' /\ d > rows'[id])
                 PROVE  times[id][d] = 0
      BY <2>1 DEF Untouched
    <3>1. id > Len(added) \/ (id \in DOMAIN rows /\ d > rows[id])
      BY <1>T, <2>2, <2>3
    <3> QED
      BY <3>1 DEF CountInv, Untouched
  <2>5. WithinBudget'
    <3> SUFFICES ASSUME NEW id \in Id, NEW d \in 0..LastTime
                 PROVE  times[id][d] + Left(id, d)' <= 1 + used["outages"] + used["restarts"]
      BY <2>1 DEF WithinBudget
    <3>1. CASE id = NextId
      <4>1. times[id][d] = 0
        BY <1>T, <2>2, <3>1 DEF CountInv, Untouched
      <4>2. ~Pending(id, d)'
        BY <1>T, <2>1, <2>2, <3>1 DEF Pending
      <4>3. Left(id, d)' <= 1 /\ Left(id, d)' \in 0..2
        BY <4>2 DEF Left
      <4> QED
        BY <1>0, <1>T, <4>1, <4>3
    <3>2. CASE id # NextId
      <4>1. Left(id, d)' = Left(id, d)
        BY <2>1, <2>3, <3>2 DEF Left, Pending, Again
      <4> QED
        BY <4>1 DEF CountInv, WithinBudget
    <3> QED
      BY <3>1, <3>2
  <2> QED
    BY <2>4, <2>5 DEF CountInv
<1>6. ASSUME NEW i \in Id, RemoveEvent(i) PROVE CountInv'
  <2>1. /\ UNCHANGED <<added, tick, due, current, db, times>> /\ Use("deletions", MaxDeletions)
        /\ rows' = [j \in DOMAIN rows \ {i} |-> rows[j]]
    BY <1>6 DEF RemoveEvent
  <2>2. \A id \in Id, d \in 0..LastTime : Left(id, d)' <= Left(id, d)
    BY <2>1 DEF Left, Pending, Again
  <2>3. \A id \in DOMAIN rows' : id \in DOMAIN rows /\ rows'[id] >= rows[id]
    BY <1>T, <2>1
  <2> QED
    BY <1>0, <1>T, <2>1, <2>2, <2>3, UseGrows, NoMoreLeft
<1>7. CASE GetSchedule
  <2>1. /\ tick = "idle" /\ tick' = "fire" /\ db /\ UNCHANGED <<added, rows, db, times, used>>
        /\ due' = [id \in Due |-> rows[id]]
    BY <1>7 DEF GetSchedule
  <2>2. \A id \in Id, d \in 0..LastTime : Left(id, d)' <= Left(id, d)
    BY <2>1 DEF Left, Pending, Again, Due, TableInv, DueCurrent
  <2> QED
    BY <1>0, <1>T, <2>1, <2>2, NoMoreLeft
<1>8. CASE Fire
  <2>1. PICK i \in DOMAIN due : /\ Effect(i) /\ current' = i
                                /\ times' = [times EXCEPT ![i][due[i]] = @ + 1]
    BY <1>8 DEF Fire
  <2>2. tick = "fire" /\ tick' = "remove" /\ UNCHANGED <<added, rows, due, db>>
    BY <1>8 DEF Fire
  <2>3. UNCHANGED used \/ Use("failures", MaxFailures)
    BY <2>1 DEF Effect, Fails
  <2>4. /\ used'["outages"] = used["outages"] /\ used'["restarts"] = used["restarts"]
    BY <1>0, <1>T, <2>3 DEF Use, TypeOK
  <2>5. \A id \in Id, d \in 0..LastTime :
           times'[id][d] = IF id = i /\ d = due[i] THEN times[id][d] + 1 ELSE times[id][d]
    BY <1>T, <2>1
  <2>6. Untouched'
    <3> SUFFICES ASSUME NEW id \in Id, NEW d \in 0..LastTime,
                        id > Len(added) \/ (id \in DOMAIN rows /\ d > rows[id])
                 PROVE  times'[id][d] = 0
      BY <2>2 DEF Untouched
    <3>1. times[id][d] = 0
      BY DEF CountInv, Untouched
    <3>2. ~(id = i /\ d = due[i])
      BY <1>T DEF TableInv, DueCurrent
    <3> QED
      BY <2>5, <3>1, <3>2
  <2>7. WithinBudget'
    <3> SUFFICES ASSUME NEW id \in Id, NEW d \in 0..LastTime
                 PROVE  times'[id][d] + Left(id, d)' <= 1 + used["outages"] + used["restarts"]
      BY <2>4 DEF WithinBudget
    <3>0. times[id][d] + Left(id, d) <= 1 + used["outages"] + used["restarts"] /\ times[id][d] \in Nat
          /\ used["outages"] \in Nat /\ used["restarts"] \in Nat
      BY <1>0, CountNumbers DEF CountInv, WithinBudget
    <3>1. CASE id = i /\ d = due[i]
      <4>1. Left(id, d)' + 1 = Left(id, d) /\ Left(id, d) \in 0..2 /\ Left(id, d)' \in 0..2
        BY <2>1, <2>2, <3>1 DEF Left, Pending, Again
      <4> QED
        BY <2>5, <3>0, <3>1, <4>1
    <3>2. CASE ~(id = i /\ d = due[i])
      <4>1. Left(id, d)' = Left(id, d)
        BY <2>1, <2>2, <3>2 DEF Left, Pending, Again
      <4> QED
        BY <2>5, <3>0, <3>2, <4>1
    <3> QED
      BY <3>1, <3>2
  <2> QED
    BY <2>6, <2>7 DEF CountInv
<1>9. CASE Remove
  <2>1. /\ tick = "remove" /\ current \in DOMAIN due /\ tick' # "remove"
        /\ due' = [j \in DOMAIN due \ {current} |-> due[j]] /\ UNCHANGED <<added, db, times, used>>
        /\ rows' = IF db THEN RemoveSchedule(current) ELSE rows
    BY <1>0, <1>9 DEF Remove, TypeOK
  <2>2. CASE ~db
    <3>1. rows' = rows
      BY <2>1, <2>2
    <3>2. \A id \in Id, d \in 0..LastTime : Left(id, d)' <= Left(id, d)
      BY <2>1, <2>2, <3>1 DEF Left, Pending, Again
    <3> QED
      BY <1>0, <1>T, <2>1, <3>1, <3>2, NoMoreLeft
  <2>3. CASE db /\ current \in DOMAIN rows /\ added[current].repeat # 0
    <3>1. rows[current] <= clock
      BY <1>T, <2>1, <2>3 DEF TableInv, DueCurrent
    <3>2. rows' = [rows EXCEPT ![current] = rows[current] + added[current].repeat]
      BY <2>1, <2>3, <3>1 DEF RemoveSchedule
    <3>3. added[current].repeat \in Nat \ {0}
      <4>1. added[current] \in Event
        BY <1>T, <2>1 DEF TypeOK
      <4> QED
        BY <2>3, <4>1 DEF Event
    <3>4. rows[current] = due[current] /\ rows[current] \in Nat
      BY <1>T, <2>1, <2>3 DEF TableInv, DueCurrent
    <3>5. Untouched'
      BY <1>T, <2>1, <3>2, <3>3, <3>4 DEF CountInv, Untouched
    <3>6. WithinBudget'
      <4> SUFFICES ASSUME NEW id \in Id, NEW d \in 0..LastTime
                   PROVE  times[id][d] + Left(id, d)' <= 1 + used["outages"] + used["restarts"]
        BY <2>1 DEF WithinBudget
      <4>1. CASE id = current
        <5>1. ~Pending(id, d)' /\ Left(id, d)' \in 0..1
          BY <2>1, <4>1 DEF Pending, Left
        <5>2. CASE d = rows'[current]
          <6>1. times[id][d] = 0
            BY <2>3, <3>2, <3>3, <3>4, <4>1, <5>2 DEF CountInv, Untouched
          <6> QED
            BY <1>0, <1>T, <5>1, <6>1
        <5>3. CASE d # rows'[current]
          <6>1. Left(id, d)' = 0
            BY <4>1, <5>1, <5>3 DEF Left, Again
          <6>2. times[id][d] + Left(id, d) <= 1 + used["outages"] + used["restarts"]
            BY DEF CountInv, WithinBudget
          <6> QED
            BY <1>0, <6>1, <6>2, CountNumbers
        <5> QED
          BY <5>2, <5>3
      <4>2. CASE id # current
        <5>1. Left(id, d)' = Left(id, d)
          BY <2>1, <3>2, <4>2 DEF Left, Pending, Again
        <5> QED
          BY <5>1 DEF CountInv, WithinBudget
      <4> QED
        BY <4>1, <4>2
    <3> QED
      BY <3>5, <3>6 DEF CountInv
  <2>4. CASE db /\ ~(current \in DOMAIN rows /\ added[current].repeat # 0)
    <3>1. rows' = [i \in DOMAIN rows \ {current} |-> rows[i]]
      BY <2>1, <2>4 DEF RemoveSchedule
    <3>2. \A id \in Id, d \in 0..LastTime : Left(id, d)' <= Left(id, d)
      BY <2>1, <2>4, <3>1 DEF Left, Pending, Again
    <3>3. \A id \in DOMAIN rows' : id \in DOMAIN rows /\ rows'[id] >= rows[id]
      BY <1>T, <3>1
    <3> QED
      BY <1>0, <1>T, <2>1, <3>2, <3>3, NoMoreLeft
  <2> QED
    BY <2>2, <2>3, <2>4
<1>10. CASE Outage \/ Restart
  <2>1. UNCHANGED <<added, rows, times>>
    BY <1>10 DEF Outage, Restart
  <2>2. used'["outages"] + used'["restarts"] = used["outages"] + used["restarts"] + 1
        /\ used'["outages"] \in Nat /\ used'["restarts"] \in Nat
    <3>1. PICK w \in {"outages", "restarts"} : used' = [used EXCEPT ![w] = @ + 1]
      BY <1>10 DEF Outage, Restart, Use
    <3>2. used \in [Bounded -> Nat]
      BY DEF TypeOK
    <3> QED
      BY <1>0, <3>1, <3>2
  <2>3. \A id \in Id, d \in 0..LastTime : Left(id, d)' <= Left(id, d) + 1
    <3>1. CASE Outage
      BY <3>1 DEF Outage, Left, Pending, Again
    <3>2. CASE Restart
      BY <3>2 DEF Restart, Nothing, Left, Pending, Again
    <3> QED
      BY <1>10, <3>1, <3>2
  <2>4. WithinBudget'
    <3> SUFFICES ASSUME NEW id \in Id, NEW d \in 0..LastTime
                 PROVE  times[id][d] + Left(id, d)' <= 1 + used'["outages"] + used'["restarts"]
      BY <2>1 DEF WithinBudget
    <3>1. times[id][d] + Left(id, d) <= 1 + used["outages"] + used["restarts"]
      BY DEF CountInv, WithinBudget
    <3>2. times[id][d] \in Nat /\ Left(id, d) \in 0..2 /\ Left(id, d)' \in 0..2
          /\ used["outages"] \in Nat /\ used["restarts"] \in Nat
      BY <1>0, CountNumbers DEF Left
    <3>3. Left(id, d)' <= Left(id, d) + 1
      BY <2>3
    <3> QED
      BY <2>2, <3>1, <3>2, <3>3
  <2> QED
    BY <2>1, <2>4 DEF CountInv, Untouched
<1>11. CASE \E h \in Handler : Start(h) \/ Proceed(h)
  BY <1>1, <1>2, <1>3, <1>5, <1>11 DEF Proceed
<1> QED
  BY <1>4, <1>6, <1>7, <1>8, <1>9, <1>10, <1>11 DEF Next, OnTick

(* An event is carried out once for a date, and once more for every loss of
   the database and every restart, whatever is added, deleted or fails.      *)
THEOREM RepeatsAlwaysBounded == Spec => []RepeatsBounded
<1>1. Init => TableInv /\ CountInv
  <2> SUFFICES ASSUME Init PROVE TableInv /\ CountInv
    OBVIOUS
  <2>1. Len(added) = 0 /\ DOMAIN rows = {} /\ DOMAIN due = {}
    BY DEF Init, Nothing
  <2>2. \A id \in Id, d \in 0..LastTime : times[id][d] = 0 /\ Left(id, d) = 0
    BY <2>1 DEF Init, Left, Pending, Again
  <2>3. used["outages"] = 0 /\ used["restarts"] = 0
    BY DEF Init, Bounded
  <2> QED
    BY <2>1, <2>2, <2>3 DEF TableInv, RowDates, RepeatsStay, DueDates, DueCurrent, CountInv, Untouched, WithinBudget
<1>2. TypeOK /\ TableInv /\ CountInv /\ [Next]_vars => TableInv' /\ CountInv'
  BY TableStep, CountedStep
<1>3. TypeOK /\ CountInv => RepeatsBounded
  <2> SUFFICES ASSUME TypeOK, CountInv, NEW id \in Id, NEW d \in 0..LastTime
               PROVE  times[id][d] <= 1 + used["outages"] + used["restarts"]
    BY DEF RepeatsBounded
  <2>1. times[id][d] + Left(id, d) <= 1 + used["outages"] + used["restarts"]
    BY DEF CountInv, WithinBudget
  <2> QED
    BY <2>1, CountNumbers
<1> QED
  BY <1>1, <1>2, <1>3, ScheduleTypeCorrect, PTL DEF Spec

-----------------------------------------------------------------------------
(***************************************************************************)
(* That nothing is skipped.  What has to be known besides NoneSkipped: a    *)
(* repeating row stands at one of its dates, what OnTick is about to take   *)
(* out was carried out, and the bounds of the run: no more rows than the    *)
(* commands that were begun may insert, no date after the last second.      *)
(***************************************************************************)
Inserts == {h \in Handler : pc[h] \in {"count", "insert"}}
InsertsTwo == {h \in Inserts : job[h].what = "birthday" /\ job[h].kind = "give"}

RowsPaid ==
  Len(added) + Cardinality(Inserts) + Cardinality(InsertsTwo) <= 2 * used["commands"]
WithinRun == clock <= LastTime /\ used["commands"] <= MaxCommands /\ RowsPaid

OnDates == \A id \in DOMAIN rows : added[id].repeat # 0 =>
  rows[id] >= added[id].date /\ (rows[id] - added[id].date) % added[id].repeat = 0

(* What was carried out was so at a second of the run. *)
Done(id, d) == d \in 0..LastTime /\ times[id][d] > 0

JustDone == tick = "remove" => Done(current, due[current])

AllDone ==
  \A id \in 1..Len(added) \ deleted :
    IF id \in DOMAIN rows
    THEN \A d \in added[id].date..(rows[id] - 1) : Falls(added[id], d) => Done(id, d)
    ELSE added[id].repeat = 0 /\ Done(id, added[id].date)

SkipInv == WithinRun /\ OnDates /\ JustDone /\ AllDone

(* Multiples of an interval: the next one, and that there is none between. *)
LEMMA MultipleTimes == ASSUME NEW k \in Nat \ {0}, NEW p \in Nat PROVE (k * p) % k = 0
OBVIOUS

LEMMA NoneBetween ==
  ASSUME NEW k \in Nat \ {0}, NEW p \in Nat, NEW q \in Nat, k * p <= k * q, k * q < k * p + k
  PROVE  p = q
OBVIOUS

LEMMA MultipleIs ==
  ASSUME NEW k \in Nat \ {0}, NEW x \in Nat, x % k = 0 PROVE \E p \in Nat : x = k * p
<1>1. x = k * (x \div k) + (x % k) /\ x \div k \in Nat
  OBVIOUS
<1>2. x = k * (x \div k)
  BY <1>1
<1> QED
  BY <1>1, <1>2

LEMMA NextMultiple ==
  ASSUME NEW k \in Nat \ {0}, NEW x \in Nat, x % k = 0 PROVE (x + k) % k = 0
<1>1. PICK p \in Nat : x = k * p
  BY MultipleIs
<1>2. x + k = k * (p + 1) /\ p + 1 \in Nat
  BY <1>1
<1>3. (k * (p + 1)) % k = 0
  BY <1>2, MultipleTimes
<1> QED
  BY <1>2, <1>3

LEMMA OnlyMultiple ==
  ASSUME NEW k \in Nat \ {0}, NEW x \in Nat, NEW y \in Nat, x % k = 0, y % k = 0, x <= y, y < x + k
  PROVE  x = y
<1>1. PICK p \in Nat : x = k * p
  BY MultipleIs
<1>2. PICK q \in Nat : y = k * q
  BY MultipleIs
<1> QED
  BY <1>1, <1>2, NoneBetween

(* The handlers that have a row to insert, in numbers. *)
LEMMA PaidNumbers ==
  /\ IsFiniteSet(Inserts) /\ IsFiniteSet(InsertsTwo)
  /\ Cardinality(Inserts) \in Nat /\ Cardinality(InsertsTwo) \in Nat
<1>1. IsFiniteSet(Handler) /\ Inserts \subseteq Handler /\ InsertsTwo \subseteq Handler
  BY ScheduleAssumption DEF Inserts, InsertsTwo
<1> QED
  BY <1>1, FS_Subset, FS_CardinalityType

LEMMA OneMoreAtMost ==
  ASSUME NEW S, IsFiniteSet(S), NEW h, NEW T, T \subseteq S \cup {h}
  PROVE  Cardinality(T) <= Cardinality(S) + 1
<1>1. IsFiniteSet(S \cup {h}) /\ Cardinality(S \cup {h}) <= Cardinality(S) + 1 /\ Cardinality(S) \in Nat
  BY FS_AddElement, FS_CardinalityType
<1>2. Cardinality(T) <= Cardinality(S \cup {h}) /\ Cardinality(T) \in Nat /\ Cardinality(S \cup {h}) \in Nat
  BY <1>1, FS_Subset, FS_CardinalityType
<1> QED
  BY <1>1, <1>2

(* Two rows for every command, at the most. *)
LEMMA PaidStep == ASSUME TypeOK, WithinRun, [Next]_vars PROVE WithinRun'
<1> USE DEF table, loop, commands, discord, history
<1>0. TypeOK /\ TypeOK' /\ LastTime \in Nat /\ MaxCommands \in Nat
      /\ "commands" \in Bounded /\ "failures" \in Bounded /\ used \in [Bounded -> Nat] /\ used' \in [Bounded -> Nat]
      /\ Len(added) \in Nat /\ Len(added') \in Nat /\ clock \in Nat
      /\ used["commands"] \in Nat /\ used'["commands"] \in Nat
  <2>1. TypeOK /\ TypeOK' /\ "commands" \in Bounded /\ "failures" \in Bounded
    BY Typed DEF Bounded
  <2>2. used \in [Bounded -> Nat] /\ used' \in [Bounded -> Nat]
    BY <2>1 DEF TypeOK
  <2>3. Len(added) \in Nat /\ Len(added') \in Nat /\ clock \in Nat
    BY <2>1 DEF TypeOK
  <2> QED
    BY <2>1, <2>2, <2>3, ScheduleAssumption
<1>N. /\ IsFiniteSet(Inserts) /\ IsFiniteSet(InsertsTwo) /\ IsFiniteSet(Inserts') /\ IsFiniteSet(InsertsTwo')
      /\ Cardinality(Inserts) \in Nat /\ Cardinality(InsertsTwo) \in Nat
      /\ Cardinality(Inserts') \in Nat /\ Cardinality(InsertsTwo') \in Nat
  <2>1. IsFiniteSet(Handler) /\ Inserts' \subseteq Handler /\ InsertsTwo' \subseteq Handler
    BY ScheduleAssumption DEF Inserts, InsertsTwo
  <2> QED
    BY <2>1, PaidNumbers, FS_Subset, FS_CardinalityType
<1>W. clock <= LastTime /\ used["commands"] <= MaxCommands /\ RowsPaid
  BY DEF WithinRun
<1>S. ASSUME UNCHANGED clock, used'["commands"] = used["commands"], Len(added') = Len(added),
             Inserts' \subseteq Inserts, InsertsTwo' \subseteq InsertsTwo
      PROVE  WithinRun'
  <2>1. Cardinality(Inserts') <= Cardinality(Inserts) /\ Cardinality(InsertsTwo') <= Cardinality(InsertsTwo)
    BY <1>N, <1>S, FS_Subset
  <2> QED
    BY <1>0, <1>N, <1>W, <1>S, <2>1 DEF WithinRun, RowsPaid
<1>1. ASSUME NEW h \in Handler, Start(h) PROVE WithinRun'
  <2>1. UNCHANGED <<clock, added>> /\ Use("commands", MaxCommands)
    BY <1>1 DEF Start, Ban, AssignRole, Sanction, Join, AddEvent, RemindMe, AddBirthday
  <2>2. pc[h] = "idle" /\ \A g \in Handler \ {h} : pc'[g] = pc[g] /\ job'[g] = job[g]
    BY <1>0, <1>1 DEF Start, Ban, AssignRole, Sanction, Join, AddEvent, RemindMe, AddBirthday, Begin, TypeOK
  <2>3. Inserts' \subseteq Inserts \cup {h} /\ InsertsTwo' \subseteq InsertsTwo \cup {h}
    BY <2>2 DEF Inserts, InsertsTwo
  <2>4. Cardinality(Inserts') <= Cardinality(Inserts) + 1 /\ Cardinality(InsertsTwo') <= Cardinality(InsertsTwo) + 1
    BY <1>N, <2>3, OneMoreAtMost
  <2>5. used'["commands"] = used["commands"] + 1 /\ used["commands"] < MaxCommands
    BY <1>0, <2>1 DEF Use
  <2> QED
    BY <1>0, <1>N, <1>W, <2>1, <2>4, <2>5 DEF WithinRun, RowsPaid
<1>2. ASSUME NEW h \in Handler, Count(h) \/ InsertFails(h) \/ Find(h) \/ Impose(h) PROVE WithinRun'
  <2>1. UNCHANGED <<clock, added>> /\ (UNCHANGED used \/ Use("failures", MaxFailures))
    BY <1>2 DEF Count, InsertFails, Find, Impose, Fails
  <2>2. used'["commands"] = used["commands"]
    BY <1>0, <2>1 DEF Use
  <2>3. (\A g \in Handler \ {h} : pc'[g] = pc[g] /\ job'[g] = job[g])
        /\ (pc'[h] \in {"count", "insert"} => pc[h] \in {"count", "insert"} /\ job'[h] = job[h])
    BY <1>0, <1>2 DEF Count, InsertFails, Find, Impose, Goto, End, TypeOK
  <2>4. Inserts' \subseteq Inserts /\ InsertsTwo' \subseteq InsertsTwo
    BY <2>3 DEF Inserts, InsertsTwo
  <2> QED
    BY <1>S, <2>1, <2>2, <2>4
<1>3. ASSUME NEW h \in Handler, Insert(h) PROVE WithinRun'
  <2>1. Row(h) \in Event /\ added' = Append(added, Row(h)) /\ UNCHANGED <<clock, used>> /\ pc[h] = "insert"
    BY <1>0, <1>3, InsertedRow DEF Insert
  <2>2. Len(added') = Len(added) + 1
    BY <1>0, <2>1 DEF TypeOK
  <2>3. \A g \in Handler \ {h} : pc'[g] = pc[g] /\ job'[g] = job[g]
    BY <1>0, <1>3 DEF Insert, AfterInsert, End, TypeOK
  <2>4. CASE job[h].what = "birthday" /\ job[h].kind = "give"
    <3>1. pc'[h] = "count" /\ job'[h].kind = "take"
      BY <1>0, <1>3, <2>4 DEF Insert, AfterInsert, DayAfter, TypeOK
    <3>2. Inserts' = Inserts /\ h \in InsertsTwo /\ InsertsTwo' = InsertsTwo \ {h}
      BY <2>1, <2>3, <2>4, <3>1 DEF Inserts, InsertsTwo
    <3>3. Cardinality(InsertsTwo') = Cardinality(InsertsTwo) - 1
      BY <1>N, <3>2, FS_RemoveElement
    <3> QED
      BY <1>0, <1>N, <1>W, <2>1, <2>2, <3>2, <3>3 DEF WithinRun, RowsPaid
  <2>5. CASE ~(job[h].what = "birthday" /\ job[h].kind = "give")
    <3>1. pc'[h] \in {"find", "idle"}
      BY <1>0, <1>3, <2>5 DEF Insert, AfterInsert, End, TypeOK
    <3>2. h \in Inserts /\ Inserts' = Inserts \ {h} /\ InsertsTwo' = InsertsTwo
      BY <2>1, <2>3, <2>5, <3>1 DEF Inserts, InsertsTwo
    <3>3. Cardinality(Inserts') = Cardinality(Inserts) - 1
      BY <1>N, <3>2, FS_RemoveElement
    <3> QED
      BY <1>0, <1>N, <1>W, <2>1, <2>2, <3>2, <3>3 DEF WithinRun, RowsPaid
  <2> QED
    BY <2>4, <2>5
<1>4. ASSUME \/ \E id \in Id : RemoveEvent(id)
             \/ OnTick \/ Outage \/ Recover \/ SetChannel \/ UNCHANGED vars
      PROVE  WithinRun'
  <2>1. UNCHANGED <<clock, added, pc, job>>
    BY <1>4 DEF RemoveEvent, OnTick, GetSchedule, Fire, Remove, Outage, Recover, SetChannel, vars
  <2>2. used'["commands"] = used["commands"]
    <3>1. UNCHANGED used \/ \E w \in {"deletions", "failures", "outages", "moves"} : used' = [used EXCEPT ![w] = @ + 1]
      BY <1>4 DEF RemoveEvent, OnTick, GetSchedule, Fire, Effect, Fails, Remove, Outage, Recover, SetChannel, vars, Use
    <3> QED
      BY <1>0, <3>1
  <2> QED
    BY <1>S, <2>1, <2>2 DEF Inserts, InsertsTwo
<1>5. CASE Restart
  <2>1. UNCHANGED <<clock, added>> /\ used'["commands"] = used["commands"]
    BY <1>0, <1>5 DEF Restart, Use
  <2>2. Inserts' = {} /\ InsertsTwo' = {}
    BY <1>5 DEF Restart, Inserts, InsertsTwo
  <2> QED
    BY <1>S, <2>1, <2>2
<1>6. CASE TimePasses
  <2>1. clock < LastTime /\ clock' = clock + 1 /\ UNCHANGED <<added, pc, job, used>>
    BY <1>6 DEF TimePasses
  <2> QED
    BY <1>0, <1>W, <2>1 DEF WithinRun, RowsPaid, Inserts, InsertsTwo
<1>7. CASE \E h \in Handler : Start(h) \/ Proceed(h)
  BY <1>1, <1>2, <1>3, <1>7 DEF Proceed
<1> QED
  BY <1>4, <1>5, <1>6, <1>7 DEF Next

(* So every event has its place in the count of the run. *)
LEMMA Counted ==
  ASSUME TypeOK, WithinRun
  PROVE  /\ \A id \in 1..Len(added) : id \in Id
         /\ \A i \in DOMAIN due : i \in Id /\ due[i] \in 0..LastTime
<1>1. Len(added) \in Nat /\ used["commands"] \in Nat /\ clock \in Nat /\ LastTime \in Nat /\ MaxCommands \in Nat
  BY ScheduleAssumption DEF TypeOK, Bounded
<1>2. Cardinality(Inserts) \in Nat /\ Cardinality(InsertsTwo) \in Nat
  BY PaidNumbers
<1>3. Len(added) <= 2 * MaxCommands
  BY <1>1, <1>2 DEF WithinRun, RowsPaid
<1>4. \A i \in DOMAIN due : i \in 1..Len(added) /\ due[i] \in 0..clock
  BY DEF TypeOK
<1> QED
  BY <1>1, <1>3, <1>4 DEF Id, WithinRun

(* A step that carries out no less, and takes no row out or on. *)
LEMMA NotSkipping ==
  ASSUME TypeOK, TypeOK', WithinRun, OnDates, AllDone,
         UNCHANGED <<added, rows>>, deleted \subseteq deleted',
         \A id \in Id, d \in 0..LastTime : times'[id][d] >= times[id][d]
  PROVE  OnDates' /\ AllDone'
<1>1. OnDates'
  BY DEF OnDates
<1>2. /\ \A id \in 1..Len(added) : id \in Id
      /\ \A id \in Id, d \in 0..LastTime : times[id][d] \in Nat /\ times'[id][d] \in Nat
  <2>1. times \in [Id -> [0..LastTime -> Nat]] /\ times' \in [Id -> [0..LastTime -> Nat]]
    BY DEF TypeOK
  <2> QED
    BY <2>1, Counted
<1>3. \A id \in 1..Len(added) : \A d : Done(id, d) => Done(id, d)'
  BY <1>2 DEF Done
<1> QED
  BY <1>1, <1>3 DEF AllDone, Falls

LEMMA SkipStep == ASSUME TypeOK, TableInv, SkipInv, [Next]_vars PROVE SkipInv'
<1> USE DEF table, loop, commands, discord, history
<1>0. TypeOK /\ TypeOK' /\ WithinRun /\ WithinRun' /\ OnDates /\ JustDone /\ AllDone
  BY Typed, PaidStep DEF SkipInv
<1>T. /\ Len(added) \in Nat /\ rows \in [DOMAIN rows -> Nat] /\ DOMAIN rows \subseteq 1..Len(added)
      /\ \A id \in 1..Len(added) : added[id] \in Event /\ added[id].date \in Nat /\ added[id].repeat \in Nat
      /\ \A id \in 1..Len(added) : id \in Id
      /\ \A i \in DOMAIN due : i \in Id /\ due[i] \in 0..LastTime /\ due[i] <= clock
      /\ clock \in Nat /\ times \in [Id -> [0..LastTime -> Nat]]
      /\ \A id \in Id, d \in 0..LastTime : times[id][d] \in Nat
  <2>1. added \in Seq(Event) /\ due \in [DOMAIN due -> 0..clock] /\ clock \in Nat
    BY <1>0 DEF TypeOK
  <2>2. \A id \in 1..Len(added) : added[id] \in Event
    BY <2>1
  <2>3. \A id \in 1..Len(added) : added[id].date \in Nat /\ added[id].repeat \in Nat
    BY <2>2 DEF Event
  <2>4. \A i \in DOMAIN due : due[i] \in 0..clock /\ due[i] <= clock
    BY <2>1
  <2>5. Len(added) \in Nat /\ rows \in [DOMAIN rows -> Nat] /\ DOMAIN rows \subseteq 1..Len(added)
        /\ times \in [Id -> [0..LastTime -> Nat]]
    BY <1>0 DEF TypeOK
  <2>6. \A id \in Id : times[id] \in [0..LastTime -> Nat]
    BY <2>5
  <2> QED
    BY <1>0, <2>1, <2>2, <2>3, <2>4, <2>5, <2>6, Counted
<1>S. ASSUME UNCHANGED <<added, rows, tick, due, current, times>>, deleted \subseteq deleted' PROVE SkipInv'
  <2>1. \A id \in Id, d \in 0..LastTime : times'[id][d] >= times[id][d]
    BY <1>T, <1>S
  <2>2. JustDone'
    BY <1>0, <1>S DEF JustDone, Done
  <2> QED
    BY <1>0, <1>S, <2>1, <2>2, NotSkipping DEF SkipInv
<1>1. ASSUME NEW h \in Handler, Start(h) \/ Count(h) \/ InsertFails(h) \/ Find(h) \/ Impose(h) PROVE SkipInv'
  BY <1>S, <1>1 DEF Start, Ban, AssignRole, Sanction, Join, AddEvent, RemindMe, AddBirthday,
                    Count, InsertFails, Find, Impose
<1>2. CASE Outage \/ Recover \/ SetChannel \/ TimePasses \/ UNCHANGED vars
  BY <1>S, <1>2 DEF Outage, Recover, SetChannel, TimePasses, vars
<1>3. CASE GetSchedule \/ Restart
  <2>1. UNCHANGED <<added, rows, deleted, times>> /\ tick' # "remove"
    BY <1>3 DEF GetSchedule, Restart
  <2>2. \A id \in Id, d \in 0..LastTime : times'[id][d] >= times[id][d]
    BY <1>T, <2>1
  <2> QED
    BY <1>0, <2>1, <2>2, NotSkipping DEF SkipInv, JustDone
<1>4. ASSUME NEW i \in Id, RemoveEvent(i) PROVE SkipInv'
  <2>1. UNCHANGED <<added, tick, due, current, times>> /\ deleted' = deleted \cup {i}
        /\ rows' = [j \in DOMAIN rows \ {i} |-> rows[j]]
    BY <1>4 DEF RemoveEvent
  <2>2. OnDates' /\ AllDone' /\ JustDone'
    BY <1>0, <2>1 DEF OnDates, AllDone, JustDone, Done, Falls
  <2> QED
    BY <1>0, <2>2 DEF SkipInv
<1>5. ASSUME NEW h \in Handler, Insert(h) PROVE SkipInv'
  <2>1. Row(h) \in Event /\ added' = Append(added, Row(h)) /\ UNCHANGED <<tick, due, current, times, deleted>>
    BY <1>0, <1>5, InsertedRow DEF Insert
  <2>2. /\ Len(added') = NextId /\ NextId = Len(added) + 1 /\ added'[NextId] = Row(h)
        /\ \A id \in 1..Len(added) : added'[id] = added[id]
    BY <1>0, <2>1 DEF NextId, TypeOK
  <2>3. rows' = [id \in DOMAIN rows \cup {NextId} |-> IF id = NextId THEN job[h].date ELSE rows[id]]
    BY <1>5 DEF Insert
  <2>4. Row(h).date = job[h].date /\ job[h].date \in Nat /\ Row(h).repeat \in Nat
    BY <2>1 DEF Row, Event
  <2>5. \A id \in DOMAIN rows : id # NextId /\ id \in 1..Len(added)
    BY <1>T, <2>2
  <2>6. OnDates'
    <3> SUFFICES ASSUME NEW id \in DOMAIN rows', added'[id].repeat # 0
                 PROVE  rows'[id] >= added'[id].date /\ (rows'[id] - added'[id].date) % added'[id].repeat = 0
      BY DEF OnDates
    <3>1. CASE id = NextId
      <4>1. rows'[id] - added'[id].date = 0 /\ Row(h).repeat \in Nat \ {0}
        BY <2>2, <2>3, <2>4, <3>1
      <4>2. 0 % Row(h).repeat = 0
        BY <4>1
      <4> QED
        BY <2>2, <2>3, <2>4, <3>1, <4>1, <4>2
    <3>2. CASE id # NextId
      BY <1>0, <2>2, <2>3, <2>5, <3>2 DEF OnDates
    <3> QED
      BY <3>1, <3>2
  <2>7. AllDone'
    <3> SUFFICES ASSUME NEW id \in 1..Len(added') \ deleted
                 PROVE  IF id \in DOMAIN rows'
                        THEN \A d \in added'[id].date..(rows'[id] - 1) : Falls(added'[id], d) => Done(id, d)
                        ELSE added'[id].repeat = 0 /\ Done(id, added'[id].date)
      BY <2>1 DEF AllDone, Done, Falls
    <3>1. CASE id = NextId
      BY <2>2, <2>3, <2>4, <3>1
    <3>2. CASE id # NextId
      <4>1. id \in 1..Len(added) \ deleted /\ (id \in DOMAIN rows' <=> id \in DOMAIN rows)
        BY <1>T, <2>2, <2>3, <3>2
      <4> QED
        BY <1>0, <2>2, <2>3, <3>2, <4>1 DEF AllDone
    <3> QED
      BY <3>1, <3>2
  <2>8. JustDone'
    BY <1>0, <2>1 DEF JustDone, Done
  <2> QED
    BY <1>0, <2>6, <2>7, <2>8 DEF SkipInv
<1>6. CASE Fire
  <2>1. PICK i \in DOMAIN due : current' = i /\ times' = [times EXCEPT ![i][due[i]] = @ + 1]
    BY <1>6 DEF Fire
  <2>2. UNCHANGED <<added, rows, deleted, due>>
    BY <1>6 DEF Fire
  <2>3. \A id \in Id, d \in 0..LastTime :
           times'[id][d] = IF id = i /\ d = due[i] THEN times[id][d] + 1 ELSE times[id][d]
    BY <1>T, <2>1
  <2>4. \A id \in Id, d \in 0..LastTime : times[id][d] \in Nat /\ times'[id][d] >= times[id][d]
    BY <1>T, <2>3
  <2>5. JustDone'
    BY <1>T, <2>1, <2>2, <2>3, <2>4 DEF JustDone, Done
  <2> QED
    BY <1>0, <2>2, <2>4, <2>5, NotSkipping DEF SkipInv
<1>7. CASE Remove
  <2>1. /\ tick = "remove" /\ current \in DOMAIN due /\ tick' # "remove"
        /\ UNCHANGED <<added, deleted, times>>
        /\ rows' = IF db THEN RemoveSchedule(current) ELSE rows
    BY <1>0, <1>7 DEF Remove, TypeOK
  <2> DEFINE e == added[current]
  <2>2. Done(current, due[current]) /\ current \in 1..Len(added) /\ e.date \in Nat /\ e.repeat \in Nat
    BY <1>0, <1>T, <2>1 DEF JustDone, TypeOK
  <2>3. AllDone' <=>
          \A id \in 1..Len(added) \ deleted :
            IF id \in DOMAIN rows'
            THEN \A d \in added[id].date..(rows'[id] - 1) : Falls(added[id], d) => Done(id, d)
            ELSE added[id].repeat = 0 /\ Done(id, added[id].date)
    BY <2>1 DEF AllDone, Done, Falls
  <2>4. CASE rows' = rows
    <3>1. OnDates' /\ AllDone'
      BY <1>0, <2>1, <2>3, <2>4 DEF OnDates, AllDone
    <3> QED
      BY <1>0, <2>1, <3>1 DEF SkipInv, JustDone
  <2>5. CASE current \in DOMAIN rows /\ e.repeat # 0 /\ db
    <3> DEFINE r == rows[current]
               k == e.repeat
    <3>1. r = due[current] /\ r \in Nat /\ r <= clock
      BY <1>T, <2>1, <2>5 DEF TableInv, DueCurrent
    <3>2. rows' = [rows EXCEPT ![current] = r + k]
      BY <2>1, <2>5, <3>1 DEF RemoveSchedule
    <3>3. rows'[current] = r + k /\ DOMAIN rows' = DOMAIN rows
          /\ \A id \in DOMAIN rows \ {current} : rows'[id] = rows[id]
      BY <2>5, <3>2
    <3>4. r >= e.date /\ (r - e.date) % k = 0 /\ k \in Nat \ {0} /\ r - e.date \in Nat
      BY <1>0, <2>2, <2>5, <3>1 DEF OnDates
    <3>5. rows'[current] >= e.date /\ (rows'[current] - e.date) % k = 0
      <4>1. ((r - e.date) + k) % k = 0
        BY <3>4, NextMultiple
      <4>2. (r - e.date) + k = rows'[current] - e.date
        BY <2>2, <3>1, <3>3, <3>4
      <4>3. rows'[current] >= e.date
        BY <2>2, <3>1, <3>3, <3>4
      <4> QED
        BY <4>1, <4>2, <4>3
    <3>6. OnDates'
      <4> SUFFICES ASSUME NEW id \in DOMAIN rows', added[id].repeat # 0
                   PROVE  rows'[id] >= added[id].date /\ (rows'[id] - added[id].date) % added[id].repeat = 0
        BY <2>1 DEF OnDates
      <4>1. CASE id = current
        BY <3>5, <4>1, Zenon
      <4>2. CASE id # current
        <5>1. id \in DOMAIN rows /\ rows'[id] = rows[id]
          BY <3>3, <4>2
        <5> QED
          BY <1>0, <5>1 DEF OnDates
      <4> QED
        BY <4>1, <4>2
    <3>7. ASSUME NEW d \in e.date..(r + k - 1), Falls(e, d), current \notin deleted PROVE Done(current, d)
      <4>1. CASE d < r
        BY <1>0, <2>2, <2>5, <3>1, <3>7, <4>1 DEF AllDone
      <4>2. CASE d >= r
        <5>1. d \in Nat /\ d - e.date \in Nat /\ r - e.date <= d - e.date /\ d - e.date < (r - e.date) + k
          BY <2>2, <3>1, <3>4, <3>7, <4>2
        <5>2. (d - e.date) % k = 0
          <6>1. CASE d = e.date
            <7>1. r - e.date = 0 /\ d - e.date = 0
              BY <2>2, <3>1, <3>4, <4>2, <5>1, <6>1
            <7> QED
              BY <3>4, <7>1
          <6>2. CASE d # e.date
            BY <3>7, <6>2 DEF Falls
          <6> QED
            BY <6>1, <6>2
        <5>3. r - e.date = d - e.date
          BY <3>4, <5>1, <5>2, OnlyMultiple
        <5>4. d = r
          BY <2>2, <3>1, <5>1, <5>3
        <5> QED
          BY <2>2, <3>1, <5>4
      <4> QED
        BY <2>2, <3>1, <3>4, <3>7, <4>1, <4>2
    <3>8. AllDone'
      <4> SUFFICES ASSUME NEW id \in 1..Len(added) \ deleted
                   PROVE  IF id \in DOMAIN rows'
                          THEN \A d \in added[id].date..(rows'[id] - 1) : Falls(added[id], d) => Done(id, d)
                          ELSE added[id].repeat = 0 /\ Done(id, added[id].date)
        BY <2>3
      <4>1. CASE id = current
        <5>1. ASSUME NEW d \in added[id].date..(rows'[id] - 1), Falls(added[id], d) PROVE Done(id, d)
          <6>1. d \in added[current].date..(rows'[current] - 1) /\ Falls(e, d) /\ current \notin deleted
            BY <4>1, <5>1, Zenon
          <6>2. d \in e.date..(r + k - 1)
            BY <2>2, <3>1, <3>3, <3>4, <6>1
          <6> QED
            BY <3>7, <4>1, <6>1, <6>2
        <5> QED
          BY <2>5, <3>3, <4>1, <5>1
      <4>2. CASE id # current
        BY <1>0, <3>3, <4>2 DEF AllDone
      <4> QED
        BY <4>1, <4>2
    <3> QED
      BY <1>0, <2>1, <3>6, <3>8 DEF SkipInv, JustDone
  <2>6. CASE rows' = [i \in DOMAIN rows \ {current} |-> rows[i]] /\ current \in DOMAIN rows /\ e.repeat = 0
    <3>1. due[current] = e.date
      BY <2>1, <2>6 DEF TableInv, DueDates
    <3>2. AllDone'
      <4>1. \A id \in 1..Len(added) : id # current => (id \in DOMAIN rows' <=> id \in DOMAIN rows)
        BY <2>6
      <4>2. \A id \in DOMAIN rows' : id # current /\ rows'[id] = rows[id]
        BY <2>6
      <4>3. Done(current, e.date)
        BY <2>2, <3>1
      <4> QED
        BY <1>0, <2>1, <2>2, <2>3, <2>6, <4>1, <4>2, <4>3 DEF AllDone
    <3>3. OnDates'
      BY <1>0, <2>1, <2>6 DEF OnDates
    <3> QED
      BY <1>0, <2>1, <3>2, <3>3 DEF SkipInv, JustDone
  <2>7. CASE rows' = [i \in DOMAIN rows \ {current} |-> rows[i]] /\ current \notin DOMAIN rows
    <3>1. rows' = rows
      BY <1>T, <2>7
    <3> QED
      BY <2>4, <3>1
  <2>8. CASE current \in DOMAIN rows /\ e.repeat = 0 /\ db
    BY <2>1, <2>6, <2>8 DEF RemoveSchedule
  <2>9. CASE current \notin DOMAIN rows /\ db
    BY <2>1, <2>7, <2>9 DEF RemoveSchedule
  <2> QED
    BY <2>1, <2>4, <2>5, <2>8, <2>9
<1>8. CASE \E h \in Handler : Start(h) \/ Proceed(h)
  BY <1>1, <1>5, <1>8 DEF Proceed
<1> QED
  BY <1>2, <1>3, <1>4, <1>6, <1>7, <1>8 DEF Next, OnTick

(* No event is lost and no repetition skipped, however late the bot is and
   whatever is lost or restarted: what is gone was carried out or deleted.   *)
THEOREM NoneEverSkipped == Spec => []NoneSkipped
<1>1. Init => TableInv /\ SkipInv
  <2> SUFFICES ASSUME Init PROVE TableInv /\ SkipInv
    OBVIOUS
  <2>1. Len(added) = 0 /\ DOMAIN rows = {} /\ DOMAIN due = {} /\ tick = "idle"
    BY DEF Init, Nothing
  <2>2. Inserts = {} /\ InsertsTwo = {} /\ used["commands"] = 0 /\ clock = Day
    BY DEF Init, Inserts, InsertsTwo, Bounded
  <2>3. WithinRun
    BY <2>1, <2>2, FS_EmptySet, ScheduleAssumption DEF WithinRun, RowsPaid
  <2> QED
    BY <2>1, <2>3 DEF TableInv, RowDates, RepeatsStay, DueDates, DueCurrent, SkipInv, OnDates, JustDone, AllDone
<1>2. TypeOK /\ TableInv /\ SkipInv /\ [Next]_vars => TableInv' /\ SkipInv'
  BY TableStep, SkipStep
<1>3. SkipInv => NoneSkipped
  BY DEF SkipInv, AllDone, Done, NoneSkipped
<1> QED
  BY <1>1, <1>2, <1>3, ScheduleTypeCorrect, PTL DEF Spec

-----------------------------------------------------------------------------
(***************************************************************************)
(* The birthday role.  What has to be known besides NoOverstay: the events  *)
(* of a birthday belong together, the one that takes the role stands a day  *)
(* after the one that gives it, or years behind it when that one was        *)
(* carried out first, and never ahead of it; what OnTick is about to take   *)
(* out is the earliest it holds.                                            *)
(***************************************************************************)
Follows(t, g) == \E n \in Nat : g + Day = t + n * Year

LEMMA Years == ASSUME NEW n \in Nat PROVE n * Year \in Nat /\ (n + 1) * Year = n * Year + Year
BY ScheduleAssumption

LEMMA YearsBack == ASSUME NEW n \in Nat, n # 0 PROVE n - 1 \in Nat /\ n * Year = (n - 1) * Year + Year
<1>1. n - 1 \in Nat /\ n = (n - 1) + 1
  OBVIOUS
<1>2. ((n - 1) + 1) * Year = (n - 1) * Year + Year
  BY <1>1, Years
<1> QED
  BY <1>1, <1>2

(* The day after, in the same year. *)
LEMMA FollowsNow == ASSUME NEW g \in Nat PROVE Follows(g + Day, g)
<1>1. 0 * Year = 0 /\ Day \in Nat
  BY ScheduleAssumption
<1> QED
  BY <1>1 DEF Follows

LEMMA FollowsBelow == ASSUME NEW t \in Nat, NEW g \in Nat, Follows(t, g) PROVE t <= g + Day
<1>1. PICK n \in Nat : g + Day = t + n * Year
  BY DEF Follows
<1>2. n * Year \in Nat
  BY Years
<1> QED
  BY <1>1, <1>2

(* The giving event goes on to the next year. *)
LEMMA FollowsGiven == ASSUME NEW t \in Nat, NEW g \in Nat, Follows(t, g) PROVE Follows(t, g + Year)
<1>1. PICK n \in Nat : g + Day = t + n * Year
  BY DEF Follows
<1>2. n * Year \in Nat /\ (n + 1) * Year = n * Year + Year /\ n + 1 \in Nat /\ Day \in Nat /\ Year \in Nat
  BY Years, ScheduleAssumption
<1>3. (g + Year) + Day = t + (n + 1) * Year
  BY <1>1, <1>2
<1> QED
  BY <1>2, <1>3 DEF Follows

(* Not in the same year: a year behind at least. *)
LEMMA FollowsBehind ==
  ASSUME NEW t \in Nat, NEW g \in Nat, Follows(t, g), t # g + Day
  PROVE  t + Year <= g + Day
<1>1. PICK n \in Nat : g + Day = t + n * Year
  BY DEF Follows
<1>2. n # 0
  <2>1. 0 * Year = 0
    BY ScheduleAssumption
  <2> QED
    BY <1>1, <2>1
<1>3. n * Year = (n - 1) * Year + Year /\ (n - 1) * Year \in Nat
  BY <1>2, YearsBack, Years
<1> QED
  BY <1>1, <1>3, ScheduleAssumption

(* The taking event goes on, and is not ahead. *)
LEMMA FollowsTaken ==
  ASSUME NEW t \in Nat, NEW g \in Nat, Follows(t, g), t + Year <= g + Day
  PROVE  Follows(t + Year, g)
<1>1. PICK n \in Nat : g + Day = t + n * Year
  BY DEF Follows
<1>2. n # 0
  <2>1. 0 * Year = 0
    BY ScheduleAssumption
  <2> QED
    BY <1>1, <2>1, ScheduleAssumption
<1>3. n - 1 \in Nat /\ n * Year = (n - 1) * Year + Year /\ (n - 1) * Year \in Nat
  BY <1>2, YearsBack, Years
<1>4. g + Day = (t + Year) + (n - 1) * Year
  BY <1>1, <1>3, ScheduleAssumption
<1> QED
  BY <1>3, <1>4 DEF Follows

(* A date an event stands at, in the table or in what OnTick has read. *)
Stands(id, d) == (id \in DOMAIN rows /\ rows[id] = d) \/ (id \in DOMAIN due /\ due[id] = d)

Steady == used["outages"] = 0

BirthdayRows == \A id \in 1..Len(added) : added[id].subject \in Celebrated => added[id].repeat = Year

(* A birthday's command has the member to itself, and inserts its second event
   a day after the first.                                                    *)
Sole(h) ==
  /\ job[h].what = "event" => job[h].subject \in Sanctioned
  /\ job[h].what = "birthday" =>
       /\ job[h].kind \in {"give", "take"}
       /\ \A i \in Handler \ {h} : pc[i] # "idle" => job[i].subject # job[h].subject
       /\ job[h].date <= clock + (IF job[h].kind = "give" THEN 0 ELSE Day)
       /\ \A id \in 1..Len(added) : added[id].subject = job[h].subject =>
            /\ job[h].kind = "take" /\ added[id].kind = "give"
            /\ \A d \in Nat : Stands(id, d) => Follows(job[h].date, d)

SoleInv == BirthdayRows /\ \A h \in Handler : pc[h] # "idle" => Sole(h)

(* The two events of a birthday. *)
Pair(g, t) == added[g].kind = "give" /\ added[t].kind = "take" /\ added[g].subject = added[t].subject

Together(g, t) ==
  /\ t \in DOMAIN rows => \A d \in Nat : Stands(g, d) => Follows(rows[t], d)
  /\ t \in DOMAIN rows \cap DOMAIN due /\ g \in DOMAIN rows \ DOMAIN due => rows[t] + Year <= rows[g] + Day

PairInv == Steady => db /\ \A g, t \in 1..Len(added) : Pair(g, t) => Together(g, t)

InOrder == tick = "remove" => \A i \in DOMAIN due : due[current] <= due[i]

(* The role: taken back by what is about to be taken out, and in time. *)
RoleTaken == tick = "remove" => \A x \in Celebrated :
  promise[x] = current => ~held[x] \/ current \in deleted \cup forgone

InTheDay == Steady => \A x \in Celebrated :
  held[x] /\ promise[x] \notin {0} \cup deleted \cup forgone => rows[promise[x]] <= clock + Day

StayInv == SoleInv /\ PairInv /\ InOrder /\ RoleTaken /\ InTheDay

(* Where the parts of EndInv are used. *)
LEMMA EndFacts ==
  ASSUME EndInv
  PROVE  /\ TypeOK /\ TableInv /\ OnlyBirthdaysGive /\ Promised
         /\ \A h \in Handler : pc[h] # "idle" => Kinds(h) /\ job[h] \in Job
         /\ Len(added) \in Nat /\ clock \in Nat /\ rows \in [DOMAIN rows -> Nat] /\ DOMAIN rows \subseteq 1..Len(added)
         /\ DOMAIN due \subseteq 1..Len(added) /\ \A i \in DOMAIN due : due[i] \in Nat /\ due[i] <= clock
         /\ Sanctioned \cap Celebrated = {} /\ Day \in Nat \ {0} /\ Year \in Nat \ {0}
<1>1. TypeOK /\ TableInv /\ OnlyBirthdaysGive /\ Promised
      /\ \A h \in Handler : pc[h] # "idle" => Kinds(h) /\ job[h] \in Job
  BY DEF EndInv, PromiseInv, JobInv, TypeOK
<1>2. clock \in Nat /\ due \in [DOMAIN due -> 0..clock] /\ Len(added) \in Nat
  BY <1>1 DEF TypeOK
<1>3. \A i \in DOMAIN due : due[i] \in 0..clock
  BY <1>2
<1>4. rows \in [DOMAIN rows -> Nat] /\ DOMAIN rows \subseteq 1..Len(added) /\ DOMAIN due \subseteq 1..Len(added)
  BY <1>1 DEF TypeOK
<1> QED
  BY <1>1, <1>2, <1>3, <1>4, ScheduleAssumption

(* A date an event newly stands at is the one before and its interval. *)
LEMMA StandsStep ==
  ASSUME EndInv, [Next]_vars, NEW id \in 1..Len(added), NEW d \in Nat, Stands(id, d)'
  PROVE  \/ Stands(id, d)
         \/ \E e \in Nat : Stands(id, e) /\ d = e + added[id].repeat
<1> USE DEF table, loop, commands, discord, history
<1>0. /\ TypeOK /\ Len(added) \in Nat /\ rows \in [DOMAIN rows -> Nat] /\ DOMAIN rows \subseteq 1..Len(added)
      /\ \A i \in DOMAIN due : due[i] \in Nat
  BY EndFacts
<1>1. CASE UNCHANGED <<rows, due>>
  BY <1>1 DEF Stands
<1>2. ASSUME NEW h \in Handler, Start(h) \/ Count(h) \/ InsertFails(h) \/ Find(h) \/ Impose(h)
      PROVE UNCHANGED <<rows, due>>
  BY <1>2 DEF Start, Ban, AssignRole, Sanction, Join, AddEvent, RemindMe, AddBirthday,
                    Count, InsertFails, Find, Impose
<1>3. ASSUME Fire \/ Outage \/ Recover \/ SetChannel \/ TimePasses \/ UNCHANGED vars
      PROVE UNCHANGED <<rows, due>>
  BY <1>3 DEF Fire, Outage, Recover, SetChannel, TimePasses, vars
<1>4. ASSUME NEW h \in Handler, Insert(h) PROVE Stands(id, d)
  <2>1. rows' = [i \in DOMAIN rows \cup {NextId} |-> IF i = NextId THEN job[h].date ELSE rows[i]] /\ due' = due
    BY <1>4 DEF Insert
  <2>2. id # NextId
    BY <1>0 DEF NextId
  <2> QED
    BY <2>1, <2>2 DEF Stands
<1>5. ASSUME NEW i \in Id, RemoveEvent(i) PROVE Stands(id, d)
  BY <1>5 DEF RemoveEvent, Stands
<1>6. CASE GetSchedule
  BY <1>6 DEF GetSchedule, Due, Stands
<1>7. CASE Restart
  BY <1>7 DEF Restart, Nothing, Stands
<1>8. CASE Remove
  <2>1. due' = [i \in DOMAIN due \ {current} |-> due[i]] /\ rows' = IF db THEN RemoveSchedule(current) ELSE rows
    BY <1>8 DEF Remove
  <2>2. CASE id \in DOMAIN due' /\ due'[id] = d
    BY <2>1, <2>2 DEF Stands
  <2>3. CASE id \in DOMAIN rows' /\ rows'[id] = d
    <3>1. id \in DOMAIN rows
      BY <2>1, <2>3 DEF RemoveSchedule
    <3>2. rows'[id] = rows[id] \/ rows'[id] = rows[id] + added[id].repeat
      BY <2>1, <2>3 DEF RemoveSchedule
    <3> QED
      BY <1>0, <2>3, <3>1, <3>2 DEF Stands
  <2> QED
    BY <2>2, <2>3 DEF Stands
<1>9. CASE \E h \in Handler : Start(h) \/ Proceed(h)
  BY <1>1, <1>2, <1>4, <1>9 DEF Proceed
<1>10. CASE Fire \/ Outage \/ Recover \/ SetChannel \/ TimePasses \/ UNCHANGED vars
  BY <1>1, <1>3, <1>10
<1> HIDE DEF table, loop, commands, discord, history
<1> QED
  BY <1>5, <1>6, <1>7, <1>8, <1>9, <1>10 DEF Next, OnTick

(* What a birthday follows, it goes on following. *)
LEMMA FollowsOn ==
  ASSUME EndInv, BirthdayRows, [Next]_vars, NEW t \in Nat,
         NEW id \in 1..Len(added), added[id].subject \in Celebrated,
         \A d \in Nat : Stands(id, d) => Follows(t, d)
  PROVE  \A d \in Nat : Stands(id, d)' => Follows(t, d)
<1> SUFFICES ASSUME NEW d \in Nat, Stands(id, d)' PROVE Follows(t, d)
  OBVIOUS
<1>1. added[id].repeat = Year /\ Year \in Nat
  BY EndFacts DEF BirthdayRows
<1>2. CASE Stands(id, d)
  BY <1>2
<1>3. CASE \E e \in Nat : Stands(id, e) /\ d = e + added[id].repeat
  <2>1. PICK e \in Nat : Stands(id, e) /\ d = e + Year
    BY <1>1, <1>3
  <2>2. Follows(t, e)
    BY <2>1
  <2> QED
    BY <2>1, <2>2, FollowsGiven
<1> QED
  BY <1>2, <1>3, StandsStep

LEMMA ClockGrows == ASSUME EndInv, [Next]_vars PROVE clock' \in Nat /\ clock <= clock'
<1>1. TypeOK' /\ clock \in Nat
  BY Typed, EndFacts
<1>2. clock' \in Nat /\ (clock' = clock \/ clock' = clock + 1)
  BY <1>1 DEF Next, Start, Ban, AssignRole, Sanction, Join, AddEvent, RemindMe, AddBirthday, Proceed,
              Count, Insert, InsertFails, Find, Impose, RemoveEvent, OnTick, GetSchedule, Fire, Remove,
              Outage, Recover, SetChannel, Restart, TimePasses, vars, TypeOK
<1> QED
  BY <1>1, <1>2

(* A command that goes on with what it is about. *)
LEMMA SoleStays ==
  ASSUME EndInv, SoleInv, [Next]_vars, NEW h \in Handler, pc[h] # "idle", UNCHANGED job[h],
         job[h].what = "birthday" =>
           /\ \A i \in Handler \ {h} : pc'[i] # "idle" => job'[i].subject # job[h].subject
           /\ \A id \in 1..Len(added') : added'[id].subject = job[h].subject =>
                id \in 1..Len(added) /\ added'[id] = added[id]
  PROVE  Sole(h)'
<1>1. Sole(h) /\ BirthdayRows /\ Kinds(h) /\ job[h] \in Job /\ clock \in Nat /\ clock' \in Nat /\ clock <= clock'
      /\ Day \in Nat
  BY EndFacts, ClockGrows DEF SoleInv
<1>2. CASE job[h].what # "birthday"
  BY <1>1, <1>2 DEF Sole
<1>3. CASE job[h].what = "birthday"
  <2>1. job[h].subject \in Celebrated /\ job[h].date \in Nat
    BY <1>1, <1>3 DEF Kinds, Job
  <2>2. job[h].date <= clock' + (IF job[h].kind = "give" THEN 0 ELSE Day)
    BY <1>1, <1>3, <2>1 DEF Sole
  <2>3. ASSUME NEW id \in 1..Len(added'), added'[id].subject = job[h].subject
        PROVE  /\ job[h].kind = "take" /\ added'[id].kind = "give"
               /\ \A d \in Nat : Stands(id, d)' => Follows(job[h].date, d)
    <3>1. id \in 1..Len(added) /\ added'[id] = added[id] /\ added[id].subject = job[h].subject
      BY <1>3, <2>3
    <3>2. /\ job[h].kind = "take" /\ added[id].kind = "give"
          /\ \A d \in Nat : Stands(id, d) => Follows(job[h].date, d)
      BY <1>1, <1>3, <3>1 DEF Sole
    <3>3. \A d \in Nat : Stands(id, d)' => Follows(job[h].date, d)
      BY <1>1, <2>1, <3>1, <3>2, FollowsOn
    <3> QED
      BY <3>1, <3>2, <3>3
  <2> QED
    BY <1>1, <1>3, <2>2, <2>3 DEF Sole
<1> QED
  BY <1>2, <1>3

(* A command that begins: the others are about other members. *)
LEMMA SoleBegin ==
  ASSUME EndInv, SoleInv, [Next]_vars, NEW h \in Handler, NEW label \in {"count", "impose"},
         NEW what \in {"sanction", "join", "event", "birthday"}, NEW kind \in {"say", "give", "take"},
         NEW x \in Subject, NEW date \in Nat, NEW repeat \in Nat,
         Begin(h, what, kind, x, date, repeat, label), UNCHANGED <<clock, added>>,
         what # "birthday" => x \in Sanctioned,
         what = "birthday" => /\ kind = "give" /\ date <= clock
                              /\ \A i \in 1..Len(added) : added[i].subject # x
                              /\ \A g \in Handler : pc[g] # "idle" => job[g].subject # x
  PROVE  SoleInv'
<1>0. TypeOK /\ clock \in Nat /\ BirthdayRows /\ (\A g \in Handler : pc[g] # "idle" => Sole(g) /\ Kinds(g))
      /\ Sanctioned \cap Celebrated = {}
  BY EndFacts DEF SoleInv
<1>1. /\ pc'[h] = label /\ pc[h] = "idle"
      /\ job'[h] = [what |-> what, id |-> 0, kind |-> kind, subject |-> x, date |-> date, repeat |-> repeat]
      /\ \A g \in Handler \ {h} : pc'[g] = pc[g] /\ job'[g] = job[g]
  BY <1>0 DEF Begin, TypeOK
<1>2. Sole(h)'
  BY <1>0, <1>1 DEF Sole
<1>3. ASSUME NEW g \in Handler \ {h}, pc'[g] # "idle" PROVE Sole(g)'
  <2>1. pc[g] # "idle" /\ job'[g] = job[g] /\ Sole(g) /\ Kinds(g)
    BY <1>0, <1>1, <1>3
  <2>2. ASSUME job[g].what = "birthday", NEW i \in Handler \ {g}, pc'[i] # "idle"
        PROVE  job'[i].subject # job[g].subject
    <3>1. CASE i = h
      BY <1>0, <1>1, <2>1, <2>2, <3>1 DEF Kinds
    <3>2. CASE i # h
      BY <1>1, <2>1, <2>2, <3>2 DEF Sole
    <3> QED
      BY <3>1, <3>2
  <2>3. \A id \in 1..Len(added') : id \in 1..Len(added) /\ added'[id] = added[id]
    OBVIOUS
  <2> QED
    BY <2>1, <2>2, <2>3, SoleStays
<1>4. BirthdayRows'
  BY <1>0 DEF BirthdayRows
<1> QED
  BY <1>2, <1>3, <1>4 DEF SoleInv

LEMMA SoleStep == ASSUME EndInv, SoleInv, [Next]_vars PROVE SoleInv'
<1> USE DEF table, loop, commands, discord, history
<1>0. /\ TypeOK /\ clock \in Nat /\ Len(added) \in Nat /\ BirthdayRows
      /\ \A g \in Handler : pc[g] # "idle" => Sole(g) /\ Kinds(g) /\ job[g] \in Job
      /\ Sanctioned \cap Celebrated = {} /\ Sanctioned \subseteq Subject /\ Celebrated \subseteq Subject
      /\ Day \in Nat \ {0} /\ Year \in Nat \ {0} /\ clock >= Day
      /\ \A d \in Durations : d \in Nat
      /\ \A r \in Repeats : r \in Nat
  <2>1. TypeOK /\ clock >= Day
    BY EndFacts DEF TypeOK
  <2> QED
    BY <2>1, EndFacts, ScheduleAssumption DEF SoleInv, Subject
<1>S. ASSUME UNCHANGED added,
             \A g \in Handler : pc'[g] # "idle" => pc[g] # "idle" /\ job'[g] = job[g]
      PROVE  SoleInv'
  <2>1. ASSUME NEW g \in Handler, pc'[g] # "idle" PROVE Sole(g)'
    <3>1. pc[g] # "idle" /\ job'[g] = job[g] /\ Sole(g)
      BY <1>0, <1>S, <2>1
    <3>2. ASSUME job[g].what = "birthday", NEW i \in Handler \ {g}, pc'[i] # "idle"
          PROVE  job'[i].subject # job[g].subject
      BY <1>S, <3>1, <3>2 DEF Sole
    <3>3. \A id \in 1..Len(added') : id \in 1..Len(added) /\ added'[id] = added[id]
      BY <1>S
    <3> QED
      BY <3>1, <3>2, <3>3, SoleStays
  <2>2. BirthdayRows'
    BY <1>0, <1>S DEF BirthdayRows
  <2> QED
    BY <2>1, <2>2 DEF SoleInv
<1>1. ASSUME NEW h \in Handler, Sanction(h) PROVE SoleInv'
  <2>1. UNCHANGED <<clock, added>>
    BY <1>1 DEF Sanction
  <2>2. PICK x \in Sanctioned :
          \/ \E d \in Durations : Begin(h, "sanction", "take", x, clock + d, 0, "count")
          \/ Begin(h, "sanction", "take", x, 0, 0, "impose")
    BY <1>1 DEF Sanction
  <2>3. \A d \in Durations : clock + d \in Nat
    BY <1>0
  <2> QED
    BY <1>0, <2>1, <2>2, <2>3, SoleBegin
<1>2. ASSUME NEW h \in Handler, Join(h) PROVE SoleInv'
  <2>1. UNCHANGED <<clock, added>>
    BY <1>2 DEF Join
  <2>2. PICK x \in Sanctioned, d \in Durations :
          IF db THEN Begin(h, "join", "take", x, clock + d, 0, "count")
                ELSE pc[h] = "idle" /\ UNCHANGED commands
    BY <1>2 DEF Join
  <2>3. CASE db
    <3>1. clock + d \in Nat
      BY <1>0
    <3> QED
      BY <1>0, <2>1, <2>2, <2>3, <3>1, SoleBegin
  <2>4. CASE ~db
    BY <1>S, <2>1, <2>2, <2>4
  <2> QED
    BY <2>3, <2>4
<1>3. ASSUME NEW h \in Handler, AddEvent(h) \/ RemindMe(h) PROVE SoleInv'
  <2>1. UNCHANGED <<clock, added>>
    BY <1>3 DEF AddEvent, RemindMe
  <2>2. PICK x \in Sanctioned, kind \in {"say", "take"}, d \in {0} \cup Durations, r \in {0} \cup Repeats :
          Begin(h, "event", kind, x, clock + d, r, "count")
    BY <1>3 DEF AddEvent, RemindMe
  <2>3. clock + d \in Nat /\ r \in Nat
    BY <1>0
  <2> QED
    BY <1>0, <2>1, <2>2, <2>3, SoleBegin
<1>4. ASSUME NEW h \in Handler, AddBirthday(h) PROVE SoleInv'
  <2>1. UNCHANGED <<clock, added>>
    BY <1>4 DEF AddBirthday
  <2>2. PICK x \in Celebrated, d \in {-Day, 0} :
          /\ \A i \in 1..Len(added) : added[i].subject # x
          /\ \A g \in Handler : pc[g] # "idle" => job[g].subject # x
          /\ Begin(h, "birthday", "give", x, clock + d, Year, "count")
    BY <1>4 DEF AddBirthday
  <2>3. clock + d \in Nat /\ clock + d <= clock
    BY <1>0
  <2> QED
    BY <1>0, <2>1, <2>2, <2>3, SoleBegin
<1>5. ASSUME NEW h \in Handler, Count(h) \/ InsertFails(h) \/ Find(h) \/ Impose(h) PROVE SoleInv'
  <2>1. \A g \in Handler : pc'[g] # "idle" => pc[g] # "idle" /\ job'[g] = job[g]
    BY <1>0, <1>5 DEF Count, InsertFails, Find, Impose, Goto, End, TypeOK
  <2> QED
    BY <1>S, <1>5, <2>1 DEF Count, InsertFails, Find, Impose
<1>6. ASSUME NEW h \in Handler, Insert(h) PROVE SoleInv'
  <2>1. Row(h) \in Event /\ added' = Append(added, Row(h)) /\ pc[h] = "insert" /\ UNCHANGED clock
    BY <1>0, <1>6, InsertedRow DEF Insert
  <2>2. /\ Len(added') = NextId /\ NextId = Len(added) + 1 /\ added'[NextId] = Row(h)
        /\ \A id \in 1..Len(added) : added'[id] = added[id]
        /\ \A id \in 1..Len(added') : id # NextId => id \in 1..Len(added)
    BY <1>0, <2>1 DEF NextId, TypeOK
  <2>3. \A g \in Handler \ {h} : pc'[g] = pc[g] /\ job'[g] = job[g]
    BY <1>0, <1>6 DEF Insert, AfterInsert, End, TypeOK
  <2>4. /\ Row(h).subject = job[h].subject /\ Row(h).repeat = job[h].repeat /\ Row(h).kind = job[h].kind
        /\ Row(h).date = job[h].date /\ job[h].date \in Nat
    BY <1>0, <2>1 DEF Row, Job
  <2>5. job[h].subject \in Celebrated => job[h].what = "birthday"
    <3>1. job[h].what \in {"sanction", "join", "event", "birthday"}
      BY <1>0, <2>1 DEF Job
    <3> QED
      BY <1>0, <2>1, <3>1 DEF Kinds, Sole
  <2>6. BirthdayRows'
    BY <1>0, <2>1, <2>2, <2>4, <2>5 DEF BirthdayRows, Kinds
  <2>7. pc'[h] # "idle" => /\ job'[h].what = job[h].what /\ job'[h].subject = job[h].subject
    BY <1>0, <1>6 DEF Insert, AfterInsert, DayAfter, End, TypeOK, Job
  <2>8. ASSUME NEW g \in Handler \ {h}, pc'[g] # "idle" PROVE Sole(g)'
    <3>1. pc[g] # "idle" /\ job'[g] = job[g] /\ Sole(g)
      BY <1>0, <2>3, <2>8
    <3>2. ASSUME job[g].what = "birthday", NEW i \in Handler \ {g}, pc'[i] # "idle"
          PROVE  job'[i].subject # job[g].subject
      <4>1. pc[i] # "idle" /\ job'[i].subject = job[i].subject
        BY <2>1, <2>3, <2>7, <3>2
      <4> QED
        BY <3>1, <3>2, <4>1 DEF Sole
    <3>3. ASSUME job[g].what = "birthday", NEW id \in 1..Len(added'), added'[id].subject = job[g].subject
          PROVE  id \in 1..Len(added) /\ added'[id] = added[id]
      <4>1. job[h].subject # job[g].subject
        BY <2>1, <3>1, <3>3 DEF Sole
      <4> QED
        BY <2>2, <2>4, <3>3, <4>1
    <3> QED
      BY <3>1, <3>2, <3>3, SoleStays
  <2>9. ASSUME pc'[h] # "idle" PROVE Sole(h)'
    <3>1. CASE job[h].what # "birthday"
      BY <1>0, <2>1, <2>7, <2>9, <3>1 DEF Sole
    <3>2. CASE job[h].what = "birthday"
      <4>1. job[h].kind = "give" /\ job'[h] = DayAfter(job[h])
        BY <1>0, <1>6, <2>9, <3>2 DEF Insert, AfterInsert, End, TypeOK
      <4>2. job'[h].what = "birthday" /\ job'[h].kind = "take" /\ job'[h].date = job[h].date + Day
            /\ job'[h].subject = job[h].subject
        BY <3>2, <4>1 DEF DayAfter
      <4>3. \A i \in Handler \ {h} : pc'[i] # "idle" => job'[i].subject # job'[h].subject
        BY <1>0, <2>1, <2>3, <3>2, <4>2 DEF Sole
      <4>4. job'[h].date <= clock' + Day
        BY <1>0, <2>1, <2>4, <3>2, <4>1, <4>2 DEF Sole
      <4>5. ASSUME NEW id \in 1..Len(added'), added'[id].subject = job'[h].subject
            PROVE  added'[id].kind = "give" /\ \A d \in Nat : Stands(id, d)' => Follows(job'[h].date, d)
        <5>1. id = NextId
          BY <1>0, <2>1, <2>2, <3>2, <4>1, <4>2, <4>5 DEF Sole
        <5>2. /\ rows' = [i \in DOMAIN rows \cup {NextId} |-> IF i = NextId THEN job[h].date ELSE rows[i]]
              /\ UNCHANGED due /\ NextId \notin DOMAIN due
          BY <1>0, <1>6, <2>2 DEF Insert, TypeOK
        <5>3. \A d \in Nat : Stands(id, d)' => d = job[h].date
          BY <5>1, <5>2 DEF Stands
        <5>4. Follows(job[h].date + Day, job[h].date)
          BY <2>4, FollowsNow
        <5> QED
          BY <2>2, <2>4, <4>1, <4>2, <5>1, <5>3, <5>4
      <4> QED
        BY <4>2, <4>3, <4>4, <4>5 DEF Sole
    <3> QED
      BY <3>1, <3>2
  <2> QED
    BY <2>6, <2>8, <2>9 DEF SoleInv
<1>7. ASSUME \/ \E id \in Id : RemoveEvent(id)
             \/ OnTick \/ Outage \/ Recover \/ SetChannel \/ TimePasses \/ UNCHANGED vars
      PROVE  SoleInv'
  <2>1. UNCHANGED <<added, pc, job>>
    BY <1>7 DEF RemoveEvent, OnTick, GetSchedule, Fire, Remove, Outage, Recover, SetChannel, TimePasses, vars
  <2> QED
    BY <1>S, <2>1
<1>8. CASE Restart
  BY <1>S, <1>8 DEF Restart
<1>9. CASE \E h \in Handler : Start(h) \/ Proceed(h)
  BY <1>1, <1>2, <1>3, <1>4, <1>5, <1>6, <1>9 DEF Start, Ban, AssignRole, Proceed
<1> HIDE DEF table, loop, commands, discord, history
<1> QED
  BY <1>7, <1>8, <1>9 DEF Next

(* A database that was never lost is there. *)
LEMMA SteadyStays ==
  ASSUME EndInv, [Next]_vars, Steady', Steady => db PROVE Steady /\ db /\ db' /\ ~Outage
<1> USE DEF table, loop, commands, discord, history
<1>0. TypeOK /\ used \in [Bounded -> Nat] /\ "outages" \in Bounded /\ used["outages"] \in Nat
  BY EndFacts DEF TypeOK, Bounded
<1>1. CASE Outage
  BY <1>0, <1>1 DEF Outage, Use, Steady
<1>2. ASSUME \/ UNCHANGED used
             \/ \E w \in {"commands", "restarts", "failures", "deletions", "moves"} : used' = [used EXCEPT ![w] = @ + 1]
      PROVE  Steady
  BY <1>0, <1>2 DEF Steady
<1>3. ASSUME NEW h \in Handler, Start(h) \/ Proceed(h) PROVE Steady /\ db' = db
  BY <1>2, <1>3 DEF Start, Ban, AssignRole, Sanction, Join, AddEvent, RemindMe, AddBirthday, Proceed,
                    Count, Insert, InsertFails, Find, Impose, Fails, Use
<1>4. ASSUME \/ \E id \in Id : RemoveEvent(id)
             \/ OnTick \/ SetChannel \/ Restart \/ TimePasses \/ UNCHANGED vars
      PROVE  Steady /\ db' = db
  BY <1>2, <1>4 DEF RemoveEvent, OnTick, GetSchedule, Fire, Effect, Fails, Remove, SetChannel, Restart,
                    TimePasses, vars, Use
<1>5. ASSUME Recover PROVE Steady /\ ~db
  BY <1>2, <1>5 DEF Recover
<1>6. CASE ~Outage
  <2> HIDE DEF table, loop, commands, discord, history
  <2> QED
    BY <1>3, <1>4, <1>5, <1>6 DEF Next
<1> QED
  BY <1>1, <1>6 DEF Outage

(* The events of a pair, while the table stays. *)
LEMMA PairStays ==
  ASSUME EndInv, PairInv, [Next]_vars, Steady', UNCHANGED <<added, rows, due>> PROVE PairInv'
<1>1. Steady /\ db'
  BY SteadyStays DEF PairInv
<1>2. \A g, t \in 1..Len(added) : Pair(g, t) => Together(g, t)
  BY <1>1 DEF PairInv
<1> QED
  BY <1>1, <1>2 DEF PairInv, Pair, Together, Stands

LEMMA PairStep == ASSUME EndInv, SoleInv, PairInv, InOrder, [Next]_vars PROVE PairInv'
<1> USE DEF table, loop, commands, discord, history
<1> SUFFICES ASSUME Steady' PROVE PairInv'
  BY DEF PairInv
<1>0. /\ TypeOK /\ Len(added) \in Nat /\ clock \in Nat
      /\ rows \in [DOMAIN rows -> Nat] /\ DOMAIN rows \subseteq 1..Len(added) /\ DOMAIN due \subseteq 1..Len(added)
      /\ (\A i \in DOMAIN rows : rows[i] \in Nat) /\ \A i \in DOMAIN due : due[i] \in Nat /\ due[i] <= clock
      /\ Day \in Nat \ {0} /\ Year \in Nat \ {0}
      /\ \A i \in DOMAIN due \cap DOMAIN rows : rows[i] = due[i]
  BY EndFacts DEF TableInv, DueCurrent
<1>1. Steady /\ db /\ db' /\ ~Outage
  BY SteadyStays DEF PairInv
<1>2. \A g, t \in 1..Len(added) : Pair(g, t) => Together(g, t)
  BY <1>1 DEF PairInv
<1>3. ASSUME NEW h \in Handler, Start(h) \/ Count(h) \/ InsertFails(h) \/ Find(h) \/ Impose(h) PROVE PairInv'
  BY <1>3, PairStays DEF Start, Ban, AssignRole, Sanction, Join, AddEvent, RemindMe, AddBirthday,
                         Count, InsertFails, Find, Impose
<1>4. CASE Fire \/ Recover \/ SetChannel \/ TimePasses \/ UNCHANGED vars
  BY <1>4, PairStays DEF Fire, Recover, SetChannel, TimePasses, vars
<1>5. ASSUME NEW h \in Handler, Insert(h) PROVE PairInv'
  <2>1. Row(h) \in Event /\ added' = Append(added, Row(h)) /\ pc[h] = "insert" /\ UNCHANGED due
    BY <1>0, <1>5, InsertedRow DEF Insert
  <2>2. /\ Len(added') = NextId /\ NextId = Len(added) + 1 /\ added'[NextId] = Row(h)
        /\ \A id \in 1..Len(added) : added'[id] = added[id]
        /\ \A id \in 1..Len(added') : id # NextId => id \in 1..Len(added)
    BY <1>0, <2>1 DEF NextId, TypeOK
  <2>3. rows' = [i \in DOMAIN rows \cup {NextId} |-> IF i = NextId THEN job[h].date ELSE rows[i]]
    BY <1>5 DEF Insert
  <2>4. Row(h).subject = job[h].subject /\ Row(h).kind = job[h].kind
    BY DEF Row
  <2>5. NextId \notin DOMAIN due /\ NextId \notin 1..Len(added)
    BY <1>0, <2>2
  <2>6. Kinds(h) /\ Sole(h) /\ job[h] \in Job
    BY <2>1, EndFacts DEF SoleInv
  <2>7. ASSUME NEW g \in 1..Len(added), NEW d \in Nat, Stands(g, d)' PROVE Stands(g, d)
    BY <2>1, <2>3, <2>5, <2>7 DEF Stands
  <2>8. ASSUME NEW g \in 1..Len(added'), NEW t \in 1..Len(added'), Pair(g, t)' PROVE Together(g, t)'
    <3>0. added'[g].kind = "give" /\ added'[t].kind = "take" /\ added'[g].subject = added'[t].subject
      BY <2>8 DEF Pair
    <3>1. CASE g # NextId /\ t # NextId
      <4>1. g \in 1..Len(added) /\ t \in 1..Len(added) /\ Together(g, t)
        BY <1>2, <2>2, <3>0, <3>1 DEF Pair
      <4> QED
        BY <2>1, <2>3, <2>7, <3>1, <4>1 DEF Together
    <3>2. CASE g # NextId /\ t = NextId
      <4>1. g \in 1..Len(added) /\ added[g].kind = "give" /\ added[g].subject = job[h].subject /\ job[h].kind = "take"
        BY <2>2, <2>4, <3>0, <3>2
      <4>2. job[h].subject \in Celebrated
        BY <4>1, EndFacts DEF OnlyBirthdaysGive
      <4>3. job[h].what = "birthday"
        <5>1. job[h].what \in {"sanction", "join", "event", "birthday"}
          BY <2>6 DEF Job
        <5> QED
          BY <2>6, <4>2, <5>1, EndFacts DEF Kinds, Sole
      <4>4. \A d \in Nat : Stands(g, d) => Follows(job[h].date, d)
        BY <2>6, <4>1, <4>3 DEF Sole
      <4>5. rows'[t] = job[h].date /\ t \notin DOMAIN due'
        BY <2>1, <2>3, <2>5, <3>2
      <4> QED
        BY <2>7, <4>1, <4>4, <4>5 DEF Together
    <3>3. CASE g = NextId
      <4>1. job[h].kind = "give" /\ t \in 1..Len(added) /\ added[t].subject = job[h].subject
        BY <2>2, <2>4, <3>0, <3>3
      <4> QED
        BY <2>6, <4>1 DEF Kinds, Sole
    <3> QED
      BY <3>1, <3>2, <3>3
  <2> QED
    BY <1>1, <2>8 DEF PairInv
<1>6. ASSUME NEW i \in Id, RemoveEvent(i) PROVE PairInv'
  <2>1. UNCHANGED <<added, due>> /\ rows' = [j \in DOMAIN rows \ {i} |-> rows[j]]
    BY <1>6 DEF RemoveEvent
  <2>2. \A g, d : Stands(g, d)' => Stands(g, d)
    BY <2>1 DEF Stands
  <2> QED
    BY <1>1, <1>2, <2>1, <2>2 DEF PairInv, Pair, Together
<1>7. CASE GetSchedule
  <2>1. UNCHANGED <<added, rows>> /\ due' = [id \in Due |-> rows[id]]
    BY <1>7 DEF GetSchedule
  <2>2. \A g, d : Stands(g, d)' => Stands(g, d)
    BY <2>1 DEF Stands, Due
  <2>3. ASSUME NEW g \in 1..Len(added), NEW t \in 1..Len(added), Pair(g, t),
               t \in DOMAIN rows \cap DOMAIN due', g \in DOMAIN rows \ DOMAIN due'
        PROVE  rows[t] + Year <= rows[g] + Day
    <3>1. rows[t] <= clock /\ rows[g] > clock /\ rows[t] \in Nat /\ rows[g] \in Nat
      BY <1>0, <2>1, <2>3 DEF Due
    <3>2. Follows(rows[t], rows[g])
      BY <1>2, <2>3, <3>1 DEF Together, Stands
    <3>3. rows[t] # rows[g] + Day
      BY <1>0, <3>1
    <3> QED
      BY <3>1, <3>2, <3>3, FollowsBehind
  <2>4. ASSUME NEW g \in 1..Len(added), NEW t \in 1..Len(added), Pair(g, t) PROVE Together(g, t)'
    BY <1>2, <2>1, <2>2, <2>3, <2>4 DEF Together
  <2> QED
    BY <1>1, <2>1, <2>4 DEF PairInv, Pair
<1>8. CASE Restart
  <2>1. UNCHANGED <<added, rows>> /\ DOMAIN due' = {}
    BY <1>8 DEF Restart, Nothing
  <2>2. \A g, d : Stands(g, d)' => Stands(g, d)
    BY <2>1 DEF Stands
  <2> QED
    BY <1>1, <1>2, <2>1, <2>2 DEF PairInv, Pair, Together
<1>9. CASE Remove
  <2>1. /\ UNCHANGED <<added, clock>> /\ current \in DOMAIN due /\ tick = "remove"
        /\ due' = [j \in DOMAIN due \ {current} |-> due[j]] /\ rows' = RemoveSchedule(current)
    BY <1>0, <1>1, <1>9 DEF Remove, TypeOK
  <2>2. /\ \A j \in DOMAIN rows \ {current} : j \in DOMAIN rows' /\ rows'[j] = rows[j]
        /\ \A j \in DOMAIN rows' : j \in DOMAIN rows
        /\ current \in DOMAIN rows' => rows'[current] = rows[current] + added[current].repeat
    BY <2>1 DEF RemoveSchedule
  <2>3. \A i \in DOMAIN due : due[current] <= due[i]
    BY <2>1 DEF InOrder
  <2>4. ASSUME NEW g \in 1..Len(added), NEW t \in 1..Len(added), Pair(g, t) PROVE Together(g, t)'
    <3>1. Together(g, t) /\ g # t
      BY <1>2, <2>4 DEF Pair
    <3>2. added[g].subject \in Celebrated /\ added[t].subject \in Celebrated
      BY <2>4, EndFacts DEF Pair, OnlyBirthdaysGive
    <3>3. added[g].repeat = Year /\ added[t].repeat = Year
      BY <3>2 DEF SoleInv, BirthdayRows
    <3>4. ASSUME t \in DOMAIN rows, t # current PROVE \A d \in Nat : Stands(g, d)' => Follows(rows'[t], d)
      <4>1. rows'[t] = rows[t] /\ rows[t] \in Nat
        BY <1>0, <2>2, <3>4
      <4>2. \A d \in Nat : Stands(g, d)' => Follows(rows[t], d)
        BY <3>1, <3>2, <3>4, <4>1, FollowsOn DEF SoleInv, Together
      <4> QED
        BY <4>1, <4>2
    <3>5. ASSUME t \in DOMAIN rows', t = current PROVE \A d \in Nat : Stands(g, d)' => Follows(rows'[t], d)
      <4>1. rows'[t] = rows[t] + Year /\ t \in DOMAIN rows /\ rows[t] = due[t] /\ rows[t] \in Nat
        BY <1>0, <2>1, <2>2, <3>3, <3>5
      <4>2. SUFFICES ASSUME NEW d \in Nat, Stands(g, d)' PROVE Follows(rows[t] + Year, d)
        BY <4>1
      <4>3. Stands(g, d)
        BY <2>1, <2>2, <3>1, <3>5, <4>2 DEF Stands
      <4>4. Follows(rows[t], d)
        BY <3>1, <4>1, <4>3 DEF Together
      <4>5. rows[t] + Year <= d + Day
        <5>1. CASE g \in DOMAIN due
          <6>1. d = due[g]
            BY <1>0, <4>3, <5>1 DEF Stands
          <6>2. rows[t] <= d
            BY <2>3, <3>5, <4>1, <5>1, <6>1
          <6>3. rows[t] # d + Day
            BY <1>0, <4>1, <6>2
          <6> QED
            BY <4>1, <4>4, <6>3, FollowsBehind
        <5>2. CASE g \notin DOMAIN due
          <6>1. g \in DOMAIN rows /\ d = rows[g]
            BY <4>3, <5>2 DEF Stands
          <6> QED
            BY <2>1, <3>1, <3>5, <4>1, <5>2, <6>1 DEF Together
        <5> QED
          BY <5>1, <5>2
      <4> QED
        BY <4>1, <4>4, <4>5, FollowsTaken
    <3>6. ASSUME t \in DOMAIN rows' \cap DOMAIN due', g \in DOMAIN rows' \ DOMAIN due'
          PROVE  rows'[t] + Year <= rows'[g] + Day
      <4>1. t # current /\ t \in DOMAIN due /\ t \in DOMAIN rows /\ rows'[t] = rows[t] /\ rows[t] \in Nat
        BY <1>0, <2>1, <2>2, <3>6
      <4>2. g \in DOMAIN rows /\ rows[g] \in Nat
        BY <1>0, <2>2, <3>6
      <4>3. CASE g = current
        <5>1. rows'[g] = rows[g] + Year /\ Follows(rows[t], rows[g])
          BY <2>2, <3>1, <3>3, <3>6, <4>1, <4>2, <4>3 DEF Together, Stands
        <5>2. rows[t] <= rows[g] + Day
          BY <4>1, <4>2, <5>1, FollowsBelow
        <5> QED
          BY <1>0, <4>1, <4>2, <5>1, <5>2
      <4>4. CASE g # current
        <5>1. g \notin DOMAIN due /\ rows'[g] = rows[g]
          BY <2>1, <2>2, <3>6, <4>2, <4>4
        <5> QED
          BY <3>1, <4>1, <4>2, <5>1 DEF Together
      <4> QED
        BY <4>3, <4>4
    <3> QED
      BY <2>2, <3>4, <3>5, <3>6 DEF Together
  <2> QED
    BY <1>1, <2>1, <2>4 DEF PairInv, Pair
<1>10. CASE \E h \in Handler : Start(h) \/ Proceed(h)
  BY <1>3, <1>5, <1>10 DEF Proceed
<1> HIDE DEF table, loop, commands, discord, history
<1> QED
  BY <1>1, <1>4, <1>6, <1>7, <1>8, <1>9, <1>10 DEF Next, OnTick

LEMMA OrderStep == ASSUME EndInv, InOrder, [Next]_vars PROVE InOrder'
<1> USE DEF table, loop, commands, discord, history
<1>1. CASE UNCHANGED <<tick, due, current>>
  BY <1>1 DEF InOrder
<1>2. ASSUME NEW h \in Handler, Start(h) \/ Proceed(h) PROVE UNCHANGED <<tick, due, current>>
  BY <1>2 DEF Start, Ban, AssignRole, Sanction, Join, AddEvent, RemindMe, AddBirthday, Proceed,
              Count, Insert, InsertFails, Find, Impose
<1>3. ASSUME (\E id \in Id : RemoveEvent(id)) \/ Outage \/ Recover \/ SetChannel \/ TimePasses \/ UNCHANGED vars
      PROVE UNCHANGED <<tick, due, current>>
  BY <1>3 DEF RemoveEvent, Outage, Recover, SetChannel, TimePasses, vars
<1>4. CASE GetSchedule \/ Remove \/ Restart
  BY <1>4 DEF GetSchedule, Remove, Restart, InOrder
<1>5. CASE Fire
  BY <1>5 DEF Fire, Earliest, InOrder
<1> HIDE DEF table, loop, commands, discord, history
<1> QED
  BY <1>1, <1>2, <1>3, <1>4, <1>5 DEF Next, OnTick

(* What OnTick is about to take out has taken the role back. *)
LEMMA RoleStep == ASSUME EndInv, RoleTaken, [Next]_vars PROVE RoleTaken'
<1> USE DEF table, loop, commands, discord, history
<1>0. /\ TypeOK /\ held \in [Subject -> BOOLEAN] /\ promise \in [Subject -> Nat]
      /\ Len(added) \in Nat /\ DOMAIN due \subseteq 1..Len(added)
      /\ tick = "remove" => current \in DOMAIN due
      /\ Sanctioned \cap Celebrated = {} /\ Sanctioned \subseteq Subject /\ Celebrated \subseteq Subject
      /\ \A h \in Handler : pc[h] # "idle" => Linked(h) /\ Kinds(h)
  <2>1. TypeOK
    BY EndFacts
  <2> QED
    BY <2>1, EndFacts DEF TypeOK, Subject, EndInv, JobInv
<1>S. ASSUME UNCHANGED <<tick, current>>, deleted \subseteq deleted', forgone \subseteq forgone',
             tick = "remove" => \A x \in Celebrated :
               promise'[x] = current => promise[x] = current /\ held'[x] = held[x]
      PROVE  RoleTaken'
  BY <1>S DEF RoleTaken
<1>1. ASSUME NEW h \in Handler,
             \/ Sanction(h) \/ AddEvent(h) \/ RemindMe(h) \/ AddBirthday(h)
             \/ Count(h) \/ InsertFails(h) \/ Find(h)
      PROVE  RoleTaken'
  BY <1>S, <1>1 DEF Sanction, AddEvent, RemindMe, AddBirthday, Count, InsertFails, Find
<1>2. ASSUME NEW h \in Handler, Join(h) PROVE RoleTaken'
  <2>1. PICK x \in Sanctioned : /\ promise' = [promise EXCEPT ![x] = 0]
                                /\ held' \in {held, [held EXCEPT ![x] = TRUE]}
    BY <1>2 DEF Join
  <2>2. \A y \in Celebrated : promise'[y] = promise[y] /\ held'[y] = held[y]
    BY <1>0, <2>1
  <2> QED
    BY <1>S, <1>2, <2>2 DEF Join
<1>3. ASSUME NEW h \in Handler, Insert(h) PROVE RoleTaken'
  <2>1. UNCHANGED <<tick, current, held, deleted, forgone>>
    BY <1>3 DEF Insert
  <2>2. tick = "remove" => current # NextId
    BY <1>0 DEF NextId
  <2>3. \A x \in Subject : promise'[x] \in {promise[x], NextId}
    BY <1>0, <1>3 DEF Insert, AfterInsert
  <2> QED
    BY <1>0, <1>S, <2>1, <2>2, <2>3
<1>4. ASSUME NEW h \in Handler, Impose(h) PROVE RoleTaken'
  <2>1. job[h].subject \in Sanctioned
    BY <1>0, <1>4 DEF Impose, Linked, Kinds
  <2>2. \A y \in Celebrated : promise'[y] = promise[y] /\ held'[y] = held[y]
    BY <1>0, <1>4, <2>1 DEF Impose
  <2> QED
    BY <1>S, <1>4, <2>2 DEF Impose
<1>5. CASE Fire
  <2>1. UNCHANGED <<added, promise>> /\ current' \in DOMAIN due /\ Effect(current')
    BY <1>5 DEF Fire
  <2> SUFFICES ASSUME NEW x \in Celebrated, promise[x] = current' PROVE ~held'[x] \/ current' \in forgone'
    BY <2>1 DEF RoleTaken
  <2>2. added[current'].kind = "take" /\ added[current'].subject = x
    BY <1>0, <2>1, EndFacts DEF Promised
  <2> QED
    BY <1>0, <2>1, <2>2 DEF Effect
<1>6. CASE GetSchedule \/ Remove \/ Restart
  BY <1>6 DEF GetSchedule, Remove, Restart, RoleTaken
<1>7. CASE (\E id \in Id : RemoveEvent(id)) \/ Outage \/ Recover \/ SetChannel \/ TimePasses \/ UNCHANGED vars
  BY <1>S, <1>7 DEF RemoveEvent, Outage, Recover, SetChannel, TimePasses, vars
<1>8. CASE \E h \in Handler : Start(h) \/ Proceed(h)
  BY <1>1, <1>2, <1>3, <1>4, <1>8 DEF Start, Ban, AssignRole, Proceed
<1> HIDE DEF table, loop, commands, discord, history
<1> QED
  BY <1>5, <1>6, <1>7, <1>8 DEF Next, OnTick

(* And the row of who keeps it is due within a day. *)
LEMMA DayStep == ASSUME EndInv, StayInv, [Next]_vars PROVE InTheDay'
<1> USE DEF table, loop, commands, discord, history
<1> SUFFICES ASSUME Steady' PROVE InTheDay'
  BY DEF InTheDay
<1>0. /\ TypeOK /\ held \in [Subject -> BOOLEAN] /\ promise \in [Subject -> Nat]
      /\ Len(added) \in Nat /\ DOMAIN rows \subseteq 1..Len(added) /\ DOMAIN due \subseteq 1..Len(added)
      /\ (\A i \in DOMAIN rows : rows[i] \in Nat) /\ \A i \in DOMAIN due : due[i] \in Nat /\ due[i] <= clock
      /\ Sanctioned \cap Celebrated = {} /\ Sanctioned \subseteq Subject /\ Celebrated \subseteq Subject
      /\ clock \in Nat /\ clock' \in Nat /\ clock <= clock' /\ Day \in Nat
      /\ \A h \in Handler : pc[h] # "idle" => Linked(h) /\ Kinds(h) /\ Sole(h)
  <2>1. TypeOK
    BY EndFacts
  <2>2. \A h \in Handler : pc[h] # "idle" => Linked(h) /\ Kinds(h) /\ Sole(h)
    BY DEF EndInv, JobInv, StayInv, SoleInv
  <2> QED
    BY <2>1, <2>2, EndFacts, ClockGrows DEF TypeOK, Subject
<1>1. Steady /\ db /\ db'
  BY SteadyStays DEF StayInv, PairInv
<1> DEFINE Kept(x) == promise[x] \notin {0} \cup deleted \cup forgone
<1>2. ASSUME NEW x \in Celebrated, held[x], Kept(x)
      PROVE  promise[x] \in DOMAIN rows /\ rows[promise[x]] \in Nat /\ rows[promise[x]] <= clock + Day
  BY <1>0, <1>1, <1>2 DEF StayInv, InTheDay, EndInv, PromiseInv, HasEnd
<1>S. ASSUME deleted \subseteq deleted', forgone \subseteq forgone',
             \A x \in Celebrated :
               held'[x] /\ promise'[x] \notin {0} \cup deleted' \cup forgone' =>
                 /\ promise'[x] = promise[x] /\ held'[x] = held[x]
                 /\ promise[x] \in DOMAIN rows => rows'[promise[x]] = rows[promise[x]]
      PROVE  InTheDay'
  <2> SUFFICES ASSUME NEW x \in Celebrated, held'[x], promise'[x] \notin {0} \cup deleted' \cup forgone'
               PROVE  rows'[promise'[x]] <= clock' + Day
    BY DEF InTheDay
  <2>1. /\ promise'[x] = promise[x] /\ held'[x] = held[x]
        /\ promise[x] \in DOMAIN rows => rows'[promise[x]] = rows[promise[x]]
    BY <1>S
  <2>2. held[x] /\ Kept(x)
    BY <1>S, <2>1
  <2>3. promise[x] \in DOMAIN rows /\ rows[promise[x]] \in Nat /\ rows[promise[x]] <= clock + Day
    BY <1>2, <2>2
  <2>4. rows'[promise'[x]] = rows[promise[x]]
    BY <2>1, <2>3
  <2> QED
    BY <1>0, <2>3, <2>4
<1>3. ASSUME NEW h \in Handler,
             \/ Sanction(h) \/ AddEvent(h) \/ RemindMe(h) \/ AddBirthday(h)
             \/ Count(h) \/ InsertFails(h) \/ Find(h)
      PROVE  InTheDay'
  BY <1>S, <1>3 DEF Sanction, AddEvent, RemindMe, AddBirthday, Count, InsertFails, Find
<1>4. ASSUME NEW h \in Handler, Join(h) PROVE InTheDay'
  <2>1. PICK x \in Sanctioned : /\ promise' = [promise EXCEPT ![x] = 0]
                                /\ held' \in {held, [held EXCEPT ![x] = TRUE]}
    BY <1>4 DEF Join
  <2>2. \A y \in Celebrated : promise'[y] = promise[y] /\ held'[y] = held[y]
    BY <1>0, <2>1
  <2> QED
    BY <1>S, <1>4, <2>2 DEF Join
<1>5. ASSUME NEW h \in Handler, Insert(h) PROVE InTheDay'
  <2>1. UNCHANGED <<clock, held, deleted, forgone>> /\ pc[h] = "insert"
        /\ rows' = [i \in DOMAIN rows \cup {NextId} |-> IF i = NextId THEN job[h].date ELSE rows[i]]
    BY <1>5 DEF Insert
  <2>2. NextId \notin DOMAIN rows
    BY <1>0 DEF NextId
  <2>3. \A i \in DOMAIN rows : rows'[i] = rows[i]
    BY <2>1, <2>2
  <2>4. CASE UNCHANGED promise
    BY <1>S, <2>1, <2>3, <2>4
  <2>5. CASE /\ <<job[h].what, job[h].kind>> \in {<<"join", "take">>, <<"birthday", "take">>}
             /\ promise' = [promise EXCEPT ![job[h].subject] = NextId]
    <3>1. job[h].kind = "take" /\ job[h].what \in {"join", "birthday"} /\ Kinds(h) /\ Sole(h) /\ job[h] \in Job
      BY <1>0, <2>1, <2>5, EndFacts
    <3>2. CASE job[h].what = "join"
      <4>1. \A y \in Celebrated : promise'[y] = promise[y]
        BY <1>0, <2>5, <3>1, <3>2 DEF Kinds
      <4> QED
        BY <1>S, <2>1, <2>3, <4>1
    <3>3. CASE job[h].what = "birthday"
      <4>1. job[h].date <= clock + Day /\ job[h].subject \in Celebrated
        BY <3>1, <3>3 DEF Kinds, Sole
      <4> SUFFICES ASSUME NEW x \in Celebrated, held'[x], promise'[x] \notin {0} \cup deleted' \cup forgone'
                   PROVE  rows'[promise'[x]] <= clock' + Day
        BY DEF InTheDay
      <4>2. CASE x = job[h].subject
        <5>1. promise'[x] = NextId
          BY <1>0, <2>5, <4>2
        <5> QED
          BY <2>1, <4>1, <5>1
      <4>3. CASE x # job[h].subject
        <5>1. promise'[x] = promise[x]
          BY <1>0, <2>5, <4>3
        <5> QED
          BY <1>2, <2>1, <2>3, <5>1
      <4> QED
        BY <4>2, <4>3
    <3> QED
      BY <3>1, <3>2, <3>3
  <2> QED
    BY <1>5, <2>4, <2>5 DEF Insert, AfterInsert
<1>6. ASSUME NEW h \in Handler, Impose(h) PROVE InTheDay'
  <2>1. job[h].subject \in Sanctioned
    BY <1>0, <1>6 DEF Impose, Linked, Kinds
  <2>2. \A y \in Celebrated : promise'[y] = promise[y] /\ held'[y] = held[y]
    BY <1>0, <1>6, <2>1 DEF Impose
  <2> QED
    BY <1>S, <1>6, <2>2 DEF Impose
<1>7. ASSUME NEW id \in Id, RemoveEvent(id) PROVE InTheDay'
  BY <1>S, <1>7 DEF RemoveEvent
<1>8. CASE Fire
  <2>1. UNCHANGED <<clock, added, rows, promise, deleted>> /\ current' \in DOMAIN due /\ Effect(current')
    BY <1>8 DEF Fire
  <2>2. forgone \subseteq forgone'
    BY <2>1 DEF Effect
  <2> SUFFICES ASSUME NEW x \in Celebrated, held'[x], promise[x] \notin {0} \cup deleted \cup forgone'
               PROVE  rows[promise[x]] <= clock + Day
    BY <2>1 DEF InTheDay
  <2>3. CASE held[x]
    BY <1>2, <2>2, <2>3
  <2>4. CASE ~held[x]
    <3> DEFINE g == current'
               t == promise[x]
    <3>1. added[g].kind = "give" /\ added[g].subject = x
      BY <1>0, <2>1, <2>4 DEF Effect
    <3>2. t \in 1..Len(added) /\ added[t].kind = "take" /\ added[t].subject = x /\ added[t].repeat # 0
      BY <1>0, EndFacts DEF Promised
    <3>3. t \in DOMAIN rows /\ rows[t] \in Nat
      BY <1>0, <3>2, EndFacts DEF TableInv, RepeatsStay
    <3>4. g \in 1..Len(added) /\ Stands(g, due[g]) /\ due[g] \in Nat /\ due[g] <= clock
      BY <1>0, <2>1 DEF Stands
    <3>5. Together(g, t)
      BY <1>1, <3>1, <3>2, <3>4 DEF StayInv, PairInv, Pair
    <3>6. Follows(rows[t], due[g])
      BY <3>3, <3>4, <3>5 DEF Together
    <3>7. rows[t] <= due[g] + Day
      BY <3>3, <3>4, <3>6, FollowsBelow
    <3> QED
      BY <1>0, <3>3, <3>4, <3>7
  <2> QED
    BY <2>3, <2>4
<1>9. CASE Remove
  <2>1. UNCHANGED <<clock, held, promise, deleted, forgone>> /\ tick = "remove" /\ rows' = RemoveSchedule(current)
    BY <1>1, <1>9 DEF Remove
  <2>2. \A i \in DOMAIN rows \ {current} : rows'[i] = rows[i]
    BY <2>1 DEF RemoveSchedule
  <2>3. \A x \in Celebrated : held[x] /\ Kept(x) => promise[x] # current
    BY <2>1 DEF StayInv, RoleTaken
  <2> QED
    BY <1>S, <2>1, <2>2, <2>3
<1>10. CASE GetSchedule \/ Outage \/ Recover \/ SetChannel \/ Restart \/ TimePasses \/ UNCHANGED vars
  BY <1>S, <1>10 DEF GetSchedule, Outage, Recover, SetChannel, Restart, TimePasses, vars
<1>11. CASE \E h \in Handler : Start(h) \/ Proceed(h)
  BY <1>3, <1>4, <1>5, <1>6, <1>11 DEF Start, Ban, AssignRole, Proceed
<1> HIDE DEF table, loop, commands, discord, history
<1> QED
  BY <1>7, <1>8, <1>9, <1>10, <1>11 DEF Next, OnTick

(* Nobody has the birthday role without an event that removes it within a day
   or is overdue, for any number of members, years and restarts, as long as
   the database stays and commands are done before the sanctions they impose
   end.                                                                     *)
THEOREM NobodyOverstays == ASSUME Prompt PROVE Spec => []NoOverstay
<1>1. Init => EndInv /\ StayInv
  <2> SUFFICES ASSUME Init PROVE StayInv
    BY EndHolds
  <2>1. Len(added) = 0 /\ (\A h \in Handler : pc[h] = "idle") /\ tick = "idle" /\ db
        /\ \A x \in Celebrated : promise[x] = 0
    BY DEF Init, Subject
  <2>2. SoleInv /\ PairInv
    BY <2>1 DEF SoleInv, BirthdayRows, PairInv
  <2> QED
    BY <2>1, <2>2 DEF StayInv, InOrder, RoleTaken, InTheDay
<1>2. (EndInv /\ StayInv) /\ [Next]_vars => (EndInv /\ StayInv)'
  <2> SUFFICES ASSUME EndInv, StayInv, [Next]_vars PROVE StayInv'
    BY EndHolds
  <2> QED
    BY SoleStep, PairStep, OrderStep, RoleStep, DayStep DEF StayInv
<1>3. EndInv /\ StayInv => NoOverstay
  <2> SUFFICES ASSUME EndInv, StayInv, Steady, NEW x \in Celebrated,
                      held[x], promise[x] \notin {0} \cup deleted \cup forgone
               PROVE  \E id \in DOMAIN rows : /\ added[id].kind = "take" /\ added[id].subject = x
                                              /\ rows[id] <= clock + Day
    BY DEF NoOverstay, Steady
  <2>1. promise[x] \in DOMAIN rows /\ added[promise[x]].kind = "take" /\ added[promise[x]].subject = x
    BY DEF EndInv, PromiseInv, HasEnd, Promised, Subject
  <2> QED
    BY <2>1 DEF StayInv, InTheDay
<1> QED
  BY <1>1, <1>2, <1>3, PTL DEF Spec
=============================================================================
