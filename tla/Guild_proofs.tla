------------------------------ MODULE Guild_proofs ------------------------------
(***************************************************************************)
(* What holds of a server's members, filters and stores for every number of *)
(* goroutines and every set of words, triggers, names and roles.            *)
(***************************************************************************)
EXTENDS SpamPressure, WordFilters, GuildStores, MemberRecords,
        FiniteSetTheorems, SequenceTheorems, WellFoundedInduction, TLAPS

-----------------------------------------------------------------------------
(***************************************************************************)
(* SpamPressure.  Silencings that were made: their alerts are sent or about *)
(* to be judged.                                                            *)
(***************************************************************************)
Judging == {h \in Poster : post[h].at = "judge"}
Made == {x.mark : x \in alerts} \cup {post[h].mark : h \in Judging}

Handling == [at : {"idle", "known", "track", "stamp", "load", "store", "kill", "mark", "judge"},
          sent : Int, text : Text \cup {NoText}, scale : Nat \ {0}, last : Int, due : Seq(Nat \cup {Repeated}), read : Nat,
          called : Nat \cup {Never}, wasSilenced : Nat \cup {Never},
          mark : [nth : Nat, set : Nat, stay : Nat]]

STypeOK ==
  /\ second \in Nat /\ silenceTimeout \in Nat /\ allowed \in SpamScopes
  /\ silenced \in Nat \cup {Never} /\ timeout \in Nat \cup {Never}
  /\ marks \in Nat /\ stay \in Nat
  /\ post \in [Poster -> Handling]
  /\ track \in [pressure : Nat, last : Int, cache : Text \cup {NoText}]
  /\ \A h \in Poster : /\ post[h].at \in {"known", "track", "stamp"} => post[h].text \in Text
                       /\ post[h].at = "store" => post[h].due # << >>
  /\ \A x \in alerts : x.mark \in [nth : Nat, set : Nat, stay : Nat] /\ x.decided \in Nat

(* A silencing of the same stay has made the member known until it is over, and the *)
(* later ones have seen that.                                                       *)
Lasting(m, until) == until # Never /\ until >= m.set + Silence
Remembered ==
  /\ \A m \in Made : m.nth <= marks /\ m.stay <= stay /\ m.set <= second
  /\ \A m \in Made : m.stay = stay => Lasting(m, silenced)
  /\ \A m \in Made, h \in Judging :
       m.nth < post[h].mark.nth /\ m.stay = post[h].mark.stay => Lasting(m, post[h].wasSilenced)
  /\ \A m \in Made, y \in alerts :
       m.nth < y.mark.nth /\ m.stay = y.mark.stay => y.decided >= m.set + Silence

LEMMA LargerOfTwo == ASSUME NEW e \in Int PROVE Max({0, e}) \in Nat
<1>1. CASE e >= 0
  <2>1. e \in {0, e} /\ \A y \in {0, e} : e >= y
    BY <1>1
  <2>2. \A x \in {0, e} : (\A y \in {0, e} : x >= y) => x \in Nat
    BY <1>1
  <2> QED
    BY <2>1, <2>2 DEF Max
<1>2. CASE e < 0
  <2>1. 0 \in {0, e} /\ \A y \in {0, e} : 0 >= y
    BY <1>2
  <2>2. \A x \in {0, e} : (\A y \in {0, e} : x >= y) => x \in Nat
    BY <1>2
  <2> QED
    BY <2>1, <2>2 DEF Max
<1> QED
  BY <1>1, <1>2

LEMMA SpamNumbers ==
  ASSUME STypeOK
  PROVE  /\ BasePressure \in Nat /\ RepeatPressure \in Nat /\ FilterPressure \in Nat /\ MaxPressure \in Nat
         /\ PressureDecay \in Nat \ {0} /\ Brief \in Nat /\ Weight \in [Text -> Nat]
         /\ Silence \in Nat /\ Timeout \in Nat \cup {Never}
         /\ allowed.late \in 0..1 /\ allowed.scales \subseteq Nat \ {0}
<1>1. allowed \in [inTurn : BOOLEAN, silenceTimeout : Nat, scales : SUBSET (Nat \ {0}),
                  posts : Nat, byHand : Nat, time : Nat, late : 0..1]
  BY SpamAssumption DEF STypeOK
<1>2. allowed.late \in 0..1 /\ allowed.scales \subseteq Nat \ {0} /\ silenceTimeout \in Nat /\ second \in Nat /\ Brief \in Nat
  BY <1>1, SpamAssumption DEF STypeOK
<1>3. Silence \in Nat /\ Timeout \in Nat \cup {Never}
  BY <1>2 DEF Silence, Timeout
<1> QED
  BY <1>2, <1>3, SpamAssumption

LEMMA SpamInit == SInit => STypeOK /\ Remembered
<1> SUFFICES ASSUME SInit PROVE STypeOK /\ Remembered
  OBVIOUS
<1>1. allowed \in [inTurn : BOOLEAN, silenceTimeout : Nat, scales : SUBSET (Nat \ {0}),
                  posts : Nat, byHand : Nat, time : Nat, late : 0..1]
  BY SpamAssumption DEF SInit
<1>2. silenceTimeout \in Nat /\ allowed \in SpamScopes
  BY <1>1 DEF silenceTimeout, SInit
<1>3. Idle \in Handling
  <2>1. << >> \in Seq(Nat \cup {Repeated})
    OBVIOUS
  <2> QED
    BY <2>1 DEF Idle, Handling, Never
<1>4. post \in [Poster -> Handling] /\ \A h \in Poster : post[h].at = "idle"
  BY <1>3 DEF SInit, Idle
<1>5. track \in [pressure : Nat, last : Int, cache : Text \cup {NoText}] /\ alerts = {}
  BY DEF SInit, Never
<1>6. STypeOK
  BY <1>2, <1>4, <1>5 DEF SInit, STypeOK
<1>7. Made = {} /\ Judging = {}
  BY <1>4, <1>5 DEF Made, Judging
<1> QED
  BY <1>5, <1>6, <1>7 DEF Remembered

(* One goroutine goes on, with r in place of what it was. *)
LEMMA BecomesTyped ==
  ASSUME STypeOK, NEW h \in Poster, NEW r \in Handling, Becomes(h, r),
         r.at \in {"known", "track", "stamp"} => r.text \in Text,
         r.at = "store" => r.due # << >>
  PROVE  /\ post' \in [Poster -> Handling]
         /\ post'[h] = r /\ \A g \in Poster \ {h} : post'[g] = post[g]
         /\ \A g \in Poster : /\ post'[g].at \in {"known", "track", "stamp"} => post'[g].text \in Text
                              /\ post'[g].at = "store" => post'[g].due # << >>
<1>1. post \in [Poster -> Handling] /\ post' = [post EXCEPT ![h] = r]
  BY DEF STypeOK, Becomes
<1>2. /\ post' \in [Poster -> Handling]
      /\ post'[h] = r /\ \A g \in Poster \ {h} : post'[g] = post[g]
  BY <1>1
<1>3. \A g \in Poster : /\ post[g].at \in {"known", "track", "stamp"} => post[g].text \in Text
                        /\ post[g].at = "store" => post[g].due # << >>
  BY DEF STypeOK
<1>4. ASSUME NEW g \in Poster
      PROVE  /\ post'[g].at \in {"known", "track", "stamp"} => post'[g].text \in Text
             /\ post'[g].at = "store" => post'[g].due # << >>
  BY <1>2, <1>3
<1> QED
  BY <1>2, <1>4

(* A step that makes no silencing and judges none leaves them as they were. *)
Quiet(h) == /\ UNCHANGED <<allowed, silenced, alerts, marks, stay>>
            /\ second' = second
            /\ post[h].at # "judge" /\ post'[h].at # "judge"
            /\ \A g \in Poster \ {h} : post'[g] = post[g]

LEMMA QuietKeeps == ASSUME STypeOK, Remembered, NEW h \in Poster, Quiet(h) PROVE Remembered'
<1>1. Judging' = Judging /\ \A g \in Judging : post'[g] = post[g]
  BY DEF Quiet, Judging
<1>2. Made' = Made
  BY <1>1 DEF Quiet, Made
<1>3. Silence' = Silence
  BY DEF Quiet, Silence, silenceTimeout
<1> QED
  BY <1>1, <1>2, <1>3 DEF Remembered, Lasting, Quiet

(* What a handler does that neither makes nor judges a silencing. *)
LEMMA HandlingIsTyped ==
  ASSUME STypeOK, NEW h \in Poster, NEW r \in Handling, Becomes(h, r),
         r.at \in {"known", "track", "stamp"} => r.text \in Text,
         r.at = "store" => r.due # << >>,
         UNCHANGED <<allowed, second, silenced, marks, stay, alerts>>,
         track' \in [pressure : Nat, last : Int, cache : Text \cup {NoText}],
         timeout' \in Nat \cup {Never}
  PROVE  STypeOK' /\ post'[h] = r /\ \A g \in Poster \ {h} : post'[g] = post[g]
<1>1. /\ post' \in [Poster -> Handling]
      /\ post'[h] = r /\ \A g \in Poster \ {h} : post'[g] = post[g]
      /\ \A g \in Poster : /\ post'[g].at \in {"known", "track", "stamp"} => post'[g].text \in Text
                           /\ post'[g].at = "store" => post'[g].due # << >>
  BY BecomesTyped
<1>2. silenceTimeout' = silenceTimeout
  BY DEF silenceTimeout
<1> QED
  BY <1>1, <1>2 DEF STypeOK

LEMMA IdleIsTyped == Idle \in Handling /\ Idle.at = "idle"
<1>1. << >> \in Seq(Nat \cup {Repeated})
  OBVIOUS
<1> QED
  BY <1>1 DEF Idle, Handling, Never

SSound == STypeOK /\ Remembered

LEMMA PostIsSound ==
  ASSUME SSound, NEW h \in Poster, NEW text \in Text, NEW sent \in second - allowed.late .. second, Post(h, text, sent)
  PROVE  SSound'
<1>0. PICK scale \in allowed.scales :
        Becomes(h, [Idle EXCEPT !.at = "known", !.sent = sent, !.text = text, !.scale = scale])
  BY DEF Post
<1> DEFINE r == [Idle EXCEPT !.at = "known", !.sent = sent, !.text = text, !.scale = scale]
<1>1. STypeOK /\ Remembered /\ post[h].at = "idle" /\ Becomes(h, r)
      /\ UNCHANGED <<allowed, second, track, silenced, timeout, marks, stay, alerts>>
  BY <1>0 DEF SSound, Post, MayBegin, shistory
<1>2. sent \in Int /\ scale \in Nat \ {0}
  BY <1>1, SpamNumbers DEF STypeOK
<1>3. r \in Handling /\ r.at = "known" /\ r.text = text
  BY <1>2, IdleIsTyped DEF Handling
<1>4. track \in [pressure : Nat, last : Int, cache : Text \cup {NoText}] /\ timeout \in Nat \cup {Never}
  BY <1>1 DEF STypeOK
<1> HIDE DEF r
<1>5. STypeOK' /\ post'[h] = r /\ \A g \in Poster \ {h} : post'[g] = post[g]
  BY <1>1, <1>3, <1>4, HandlingIsTyped
<1>6. Quiet(h)
  BY <1>1, <1>3, <1>5 DEF Quiet
<1> QED
  BY <1>1, <1>5, <1>6, QuietKeeps DEF SSound

LEMMA FilteredIsSound == ASSUME SSound, NEW h \in Poster, Filtered(h) PROVE SSound'
<1>0. PICK scale \in allowed.scales : Becomes(h, [Idle EXCEPT !.at = "load", !.scale = scale, !.due = <<FilterPressure>>])
  BY DEF Filtered
<1> DEFINE r == [Idle EXCEPT !.at = "load", !.scale = scale, !.due = <<FilterPressure>>]
<1>1. STypeOK /\ Remembered /\ post[h].at = "idle" /\ Becomes(h, r)
      /\ UNCHANGED <<allowed, second, silenced, timeout, marks, stay, alerts>>
  BY <1>0 DEF SSound, Filtered, MayBegin, shistory
<1>2. <<FilterPressure>> \in Seq(Nat \cup {Repeated})
  BY <1>1, SpamNumbers
<1>3. r \in Handling /\ r.at = "load"
  <2>1. scale \in Nat \ {0}
    BY <1>1, SpamNumbers
  <2> QED
    BY <1>2, <2>1, IdleIsTyped DEF Handling
<1>4. track' \in [pressure : Nat, last : Int, cache : Text \cup {NoText}] /\ timeout' \in Nat \cup {Never}
  BY <1>1 DEF STypeOK, Filtered
<1> HIDE DEF r
<1>5. STypeOK' /\ post'[h] = r /\ \A g \in Poster \ {h} : post'[g] = post[g]
  BY <1>1, <1>3, <1>4, HandlingIsTyped
<1>6. Quiet(h)
  BY <1>1, <1>3, <1>5 DEF Quiet
<1> QED
  BY <1>1, <1>5, <1>6, QuietKeeps DEF SSound

LEMMA KnownIsSound == ASSUME SSound, NEW h \in Poster, Known(h) PROVE SSound'
<1> DEFINE r == IF silenced # Never /\ second < silenced THEN Idle
                ELSE [post[h] EXCEPT !.at = "track", !.wasSilenced = silenced]
<1>1. STypeOK /\ Remembered /\ post[h].at = "known" /\ Becomes(h, r)
      /\ UNCHANGED <<allowed, second, track, silenced, timeout, marks, stay, alerts>>
  BY DEF SSound, Known, shistory
<1>2. post[h] \in Handling /\ post[h].text \in Text /\ silenced \in Nat \cup {Never}
      /\ track \in [pressure : Nat, last : Int, cache : Text \cup {NoText}] /\ timeout \in Nat \cup {Never}
  BY <1>1 DEF STypeOK
<1>3. r \in Handling /\ r.at \in {"idle", "track"} /\ (r.at = "track" => r.text \in Text)
  BY <1>2, IdleIsTyped DEF Handling
<1> HIDE DEF r
<1>5. STypeOK' /\ post'[h] = r /\ \A g \in Poster \ {h} : post'[g] = post[g]
  BY <1>1, <1>2, <1>3, HandlingIsTyped
<1>6. Quiet(h)
  BY <1>1, <1>3, <1>5 DEF Quiet
<1> QED
  BY <1>1, <1>5, <1>6, QuietKeeps DEF SSound

LEMMA TrackIsSound == ASSUME SSound, NEW h \in Poster, Track(h) PROVE SSound'
<1> DEFINE r == [post[h] EXCEPT !.at = "stamp", !.last = track'.last]
<1>1. STypeOK /\ Remembered /\ post[h].at = "track" /\ Becomes(h, r)
      /\ UNCHANGED <<allowed, second, silenced, timeout, marks, stay, alerts>>
      /\ track' = IF track.last = Never THEN [track EXCEPT !.last = post[h].sent] ELSE track
  BY DEF SSound, Track, shistory
<1>2. post[h] \in Handling /\ post[h].text \in Text /\ post[h].sent \in Int
      /\ track \in [pressure : Nat, last : Int, cache : Text \cup {NoText}] /\ timeout \in Nat \cup {Never}
  BY <1>1 DEF STypeOK, Handling
<1>3. track' \in [pressure : Nat, last : Int, cache : Text \cup {NoText}]
  BY <1>1, <1>2
<1>4. r \in Handling /\ r.at = "stamp" /\ r.text \in Text
  BY <1>2, <1>3 DEF Handling
<1> HIDE DEF r
<1>5. STypeOK' /\ post'[h] = r /\ \A g \in Poster \ {h} : post'[g] = post[g]
  BY <1>1, <1>2, <1>3, <1>4, HandlingIsTyped
<1>6. Quiet(h)
  BY <1>1, <1>4, <1>5 DEF Quiet
<1> QED
  BY <1>1, <1>5, <1>6, QuietKeeps DEF SSound

LEMMA StampIsSound == ASSUME SSound, NEW h \in Poster, Stamp(h) PROVE SSound'
<1> DEFINE p == post[h]
           due == <<BasePressure, Weight[p.text], Repeated>>
           e == track.pressure - Lost(p.sent - p.last)
           r == IF p.sent < p.last THEN Idle ELSE [p EXCEPT !.at = "load", !.due = due]
<1>1. STypeOK /\ Remembered /\ p.at = "stamp"
      /\ UNCHANGED <<allowed, second, silenced, timeout, marks, stay, alerts>>
      /\ Becomes(h, r)
      /\ track' = IF p.sent < p.last THEN [track EXCEPT !.last = p.last]
                  ELSE [track EXCEPT !.last = p.sent, !.pressure = Max({0, track.pressure - Lost(p.sent - p.last)})]
  BY DEF SSound, Stamp, shistory
<1>2. p \in Handling /\ p.text \in Text /\ p.sent \in Int /\ p.last \in Int
      /\ track \in [pressure : Nat, last : Int, cache : Text \cup {NoText}] /\ timeout \in Nat \cup {Never}
  BY <1>1 DEF STypeOK, Handling
<1> HIDE DEF p
<1>3. track' \in [pressure : Nat, last : Int, cache : Text \cup {NoText}]
  <2>1. e \in Int
    <3>1. BasePressure \in Nat /\ PressureDecay \in Nat \ {0}
      BY <1>1, SpamNumbers
    <3>2. BasePressure \div PressureDecay \in Int
      BY <3>1
    <3>3. p.sent - p.last \in Int
      BY <1>2
    <3>4. (BasePressure \div PressureDecay) * (p.sent - p.last) \in Int
      BY <3>2, <3>3
    <3> QED
      BY <1>2, <3>4 DEF Lost
  <2>2. Max({0, e}) \in Nat
    <3> HIDE DEF e
    <3> QED
      BY <2>1, LargerOfTwo
  <2> QED
    BY <1>1, <1>2, <2>2
<1>4. due \in Seq(Nat \cup {Repeated})
  <2>1. BasePressure \in Nat /\ Weight[p.text] \in Nat
    BY <1>1, <1>2, SpamNumbers
  <2> QED
    BY <2>1
<1> HIDE DEF due, e
<1>5. r \in Handling /\ r.at \in {"idle", "load"}
  BY <1>2, <1>4, IdleIsTyped DEF Handling
<1> HIDE DEF r
<1>6. STypeOK' /\ post'[h] = r /\ \A g \in Poster \ {h} : post'[g] = post[g]
  BY <1>1, <1>2, <1>3, <1>5, HandlingIsTyped
<1>7. Quiet(h)
  BY <1>1, <1>5, <1>6 DEF Quiet, p
<1> QED
  BY <1>1, <1>6, <1>7, QuietKeeps DEF SSound

LEMMA LoadIsSound == ASSUME SSound, NEW h \in Poster, LoadPressure(h) PROVE SSound'
<1> DEFINE r == [post[h] EXCEPT !.at = "store", !.read = track.pressure + Amount(h)]
<1>1. STypeOK /\ Remembered /\ post[h].at = "load" /\ post[h].due # << >> /\ Becomes(h, r)
      /\ UNCHANGED <<allowed, second, track, silenced, timeout, marks, stay, alerts>>
  BY DEF SSound, LoadPressure
<1>2. post[h] \in Handling /\ post[h].due \in Seq(Nat \cup {Repeated})
      /\ track \in [pressure : Nat, last : Int, cache : Text \cup {NoText}] /\ timeout \in Nat \cup {Never}
  BY <1>1 DEF STypeOK, Handling
<1>3. Amount(h) \in Nat
  <2>1. Head(post[h].due) \in Nat \cup {Repeated}
    BY <1>1, <1>2
  <2>2. RepeatPressure \in Nat
    BY <1>1, SpamNumbers
  <2>3. Pressure(h) \in Nat /\ post[h].scale \in Nat
    BY <1>2, <2>1, <2>2 DEF Pressure, Handling
  <2>4. \A m, n \in Nat : m * n \in Nat
    OBVIOUS
  <2> QED
    BY <2>3, <2>4 DEF Amount
<1>4. track.pressure + Amount(h) \in Nat
  BY <1>2, <1>3
<1>5. r \in Handling /\ r.at = "store" /\ r.due # << >>
  BY <1>1, <1>2, <1>4 DEF Handling
<1> HIDE DEF r
<1>6. STypeOK' /\ post'[h] = r /\ \A g \in Poster \ {h} : post'[g] = post[g]
  BY <1>1, <1>2, <1>5, HandlingIsTyped
<1>7. Quiet(h)
  BY <1>1, <1>5, <1>6 DEF Quiet
<1> QED
  BY <1>1, <1>6, <1>7, QuietKeeps DEF SSound

LEMMA StoreIsSound == ASSUME SSound, NEW h \in Poster, StorePressure(h) PROVE SSound'
<1> DEFINE r == [post[h] EXCEPT !.at = IF post[h].read > MaxPressure THEN "kill" ELSE "load",
                                !.due = Tail(post[h].due)]
<1>1. STypeOK /\ Remembered /\ post[h].at = "store" /\ post[h].due # << >> /\ Becomes(h, r)
      /\ UNCHANGED <<allowed, second, silenced, timeout, marks, stay, alerts>>
      /\ track' = [track EXCEPT !.pressure = post[h].read]
  BY DEF SSound, STypeOK, StorePressure, shistory
<1>2. post[h] \in Handling /\ post[h].due \in Seq(Nat \cup {Repeated}) /\ post[h].read \in Nat
      /\ track \in [pressure : Nat, last : Int, cache : Text \cup {NoText}] /\ timeout \in Nat \cup {Never}
  BY <1>1 DEF STypeOK, Handling
<1>3. track' \in [pressure : Nat, last : Int, cache : Text \cup {NoText}]
  BY <1>1, <1>2
<1>4. Tail(post[h].due) \in Seq(Nat \cup {Repeated})
  BY <1>1, <1>2
<1>5. r \in Handling /\ r.at \in {"kill", "load"}
  BY <1>2, <1>4 DEF Handling
<1> HIDE DEF r
<1>6. STypeOK' /\ post'[h] = r /\ \A g \in Poster \ {h} : post'[g] = post[g]
  BY <1>1, <1>2, <1>3, <1>5, HandlingIsTyped
<1>7. Quiet(h)
  BY <1>1, <1>5, <1>6 DEF Quiet
<1> QED
  BY <1>1, <1>6, <1>7, QuietKeeps DEF SSound

LEMMA CountedIsSound == ASSUME SSound, NEW h \in Poster, Counted(h) PROVE SSound'
<1>1. STypeOK /\ Remembered /\ post[h].at = "load" /\ Becomes(h, Idle)
      /\ UNCHANGED <<allowed, second, silenced, timeout, marks, stay, alerts>>
      /\ track' = IF post[h].text = NoText THEN track ELSE [track EXCEPT !.cache = post[h].text]
  BY DEF SSound, Counted, shistory
<1>2. post[h].text \in Text \cup {NoText} /\ timeout \in Nat \cup {Never}
      /\ track \in [pressure : Nat, last : Int, cache : Text \cup {NoText}]
  BY <1>1 DEF STypeOK, Handling
<1>3. track' \in [pressure : Nat, last : Int, cache : Text \cup {NoText}]
  BY <1>1, <1>2
<1>4. STypeOK' /\ post'[h] = Idle /\ \A g \in Poster \ {h} : post'[g] = post[g]
  BY <1>1, <1>2, <1>3, IdleIsTyped, HandlingIsTyped
<1>5. Quiet(h)
  BY <1>1, <1>4, IdleIsTyped DEF Quiet
<1> QED
  BY <1>1, <1>4, <1>5, QuietKeeps DEF SSound

LEMMA KillIsSound == ASSUME SSound, NEW h \in Poster, Kill(h) PROVE SSound'
<1>1. STypeOK /\ Remembered /\ post[h].at = "kill" /\ second \in Nat /\ post[h] \in Handling
      /\ UNCHANGED <<allowed, second, track, silenced, marks, stay, alerts>>
      /\ track \in [pressure : Nat, last : Int, cache : Text \cup {NoText}]
  BY DEF SSound, STypeOK, Kill, shistory
<1>2. timeout' \in Nat \cup {Never}
  <2>1. timeout \in Nat \cup {Never} /\ Timeout \in Nat \cup {Never}
    BY <1>1, SpamNumbers DEF STypeOK
  <2> QED
    BY <2>1 DEF Kill
<1>3. PICK r \in Handling : r.at = "mark" /\ Becomes(h, r)
  <2>1. /\ [post[h] EXCEPT !.at = "mark", !.called = second] \in Handling
        /\ [post[h] EXCEPT !.at = "mark", !.called = second].at = "mark"
        /\ [post[h] EXCEPT !.at = "mark"] \in Handling
        /\ [post[h] EXCEPT !.at = "mark"].at = "mark"
    BY <1>1 DEF Handling
  <2> QED
    BY <2>1 DEF Kill
<1>4. STypeOK' /\ post'[h] = r /\ \A g \in Poster \ {h} : post'[g] = post[g]
  BY <1>1, <1>2, <1>3, HandlingIsTyped
<1>5. Quiet(h)
  BY <1>1, <1>3, <1>4 DEF Quiet
<1> QED
  BY <1>1, <1>4, <1>5, QuietKeeps DEF SSound

(* A silencing is made: the latest, and all of the stay have made the member known. *)
LEMMA MarkIsSound == ASSUME SSound, NEW h \in Poster, Mark(h) PROVE SSound'
<1> DEFINE m == [nth |-> marks + 1, set |-> second, stay |-> stay]
           r == [post[h] EXCEPT !.at = "judge", !.wasSilenced = silenced, !.mark = m]
<1>1. STypeOK /\ Remembered /\ post[h].at = "mark" /\ Becomes(h, r)
      /\ silenced' = second + Silence /\ marks' = marks + 1
      /\ UNCHANGED <<allowed, second, track, timeout, stay, alerts>>
  BY DEF SSound, Mark, Marked
<1>2. second \in Nat /\ marks \in Nat /\ stay \in Nat /\ silenced \in Nat \cup {Never} /\ post[h] \in Handling
      /\ Silence \in Nat
  BY <1>1, SpamNumbers DEF STypeOK
<1>3. m \in [nth : Nat, set : Nat, stay : Nat] /\ m.nth = marks + 1 /\ m.set = second /\ m.stay = stay
  BY <1>2
<1> HIDE DEF m
<1>4. r \in Handling /\ r.at = "judge" /\ r.wasSilenced = silenced /\ r.mark = m
  BY <1>2, <1>3 DEF Handling
<1> HIDE DEF r
<1>5. /\ post' \in [Poster -> Handling]
      /\ post'[h] = r /\ \A g \in Poster \ {h} : post'[g] = post[g]
      /\ \A g \in Poster : /\ post'[g].at \in {"known", "track", "stamp"} => post'[g].text \in Text
                           /\ post'[g].at = "store" => post'[g].due # << >>
  BY <1>1, <1>4, BecomesTyped
<1>6. silenced' \in Nat /\ silenceTimeout' = silenceTimeout /\ Silence' = Silence
  BY <1>1, <1>2 DEF silenceTimeout, Silence
<1>7. STypeOK'
  BY <1>1, <1>2, <1>5, <1>6 DEF STypeOK
<1>8. Judging' = Judging \cup {h} /\ h \notin Judging /\ \A g \in Judging : g # h /\ post'[g] = post[g]
  BY <1>1, <1>4, <1>5 DEF Judging
<1>9. Made' = Made \cup {m}
  BY <1>1, <1>4, <1>5, <1>8 DEF Made
<1>10. \A x \in Made : x.nth \in Nat /\ x.set \in Nat /\ x.stay \in Nat /\ x.nth <= marks /\ x.stay <= stay /\ x.set <= second
  <2>1. \A x \in Made : x \in [nth : Nat, set : Nat, stay : Nat]
    BY <1>1 DEF STypeOK, Made, Judging, Handling
  <2> QED
    BY <1>1, <2>1 DEF Remembered
<1>11. \A x \in Made : x.stay = stay => Lasting(x, silenced) /\ Lasting(x, silenced)'
  <2>1. \A x \in Made : x.stay = stay => Lasting(x, silenced)
    BY <1>1 DEF Remembered
  <2>2. \A x \in Made : silenced' # Never /\ silenced' >= x.set + Silence
    BY <1>1, <1>2, <1>6, <1>10 DEF Never
  <2> QED
    BY <1>6, <2>1, <2>2 DEF Lasting
<1>12. \A x \in Made' : x.nth <= marks' /\ x.stay <= stay' /\ x.set <= second'
  BY <1>1, <1>2, <1>3, <1>9, <1>10
<1>13. \A x \in Made' : x.stay = stay' => Lasting(x, silenced)'
  <2>1. silenced' # Never /\ silenced' >= m.set + Silence
    BY <1>1, <1>2, <1>3, <1>6 DEF Never
  <2> QED
    BY <1>1, <1>6, <1>9, <1>11, <2>1 DEF Lasting
<1>14. ASSUME NEW x \in Made', NEW g \in Judging', x.nth < post'[g].mark.nth, x.stay = post'[g].mark.stay
       PROVE  Lasting(x, post[g].wasSilenced)'
  <2>1. CASE g = h
    <3>1. x \in Made /\ x.stay = stay
      BY <1>2, <1>3, <1>4, <1>5, <1>9, <1>14, <2>1
    <3> QED
      BY <1>4, <1>5, <1>6, <1>11, <2>1, <3>1 DEF Lasting
  <2>2. CASE g # h
    <3>1. g \in Judging /\ post'[g] = post[g] /\ post[g].mark \in Made
      BY <1>8, <1>14, <2>2 DEF Made
    <3>2. x \in Made
      <4>1. post[g].mark.nth <= marks /\ post[g].mark.nth \in Nat
        BY <1>10, <3>1
      <4> QED
        BY <1>2, <1>3, <1>9, <1>14, <3>1, <4>1
    <3> QED
      BY <1>1, <1>6, <1>14, <3>1, <3>2 DEF Remembered, Lasting
  <2> QED
    BY <2>1, <2>2
<1>15. ASSUME NEW x \in Made', NEW y \in alerts', x.nth < y.mark.nth, x.stay = y.mark.stay
       PROVE  y.decided >= x.set + Silence'
  <2>1. y \in alerts /\ y.mark \in Made
    BY <1>1 DEF Made
  <2>2. x \in Made
    <3>1. y.mark.nth <= marks /\ y.mark.nth \in Nat
      BY <1>10, <2>1
    <3> QED
      BY <1>2, <1>3, <1>9, <1>15, <3>1
  <2> QED
    BY <1>1, <1>6, <1>15, <2>1, <2>2 DEF Remembered
<1>16. Remembered'
  BY <1>12, <1>13, <1>14, <1>15 DEF Remembered
<1> QED
  BY <1>7, <1>16 DEF SSound

(* It is judged by what the lock has shown. *)
LEMMA JudgeIsSound == ASSUME SSound, NEW h \in Poster, Judge(h) PROVE SSound'
<1> DEFINE p == post[h]
           alert == [mark |-> p.mark, decided |-> second]
<1>1. STypeOK /\ Remembered /\ p.at = "judge" /\ Becomes(h, Idle)
      /\ UNCHANGED <<allowed, second, track, silenced, timeout, marks, stay>>
      /\ alerts' = IF p.wasSilenced # Never /\ second < p.wasSilenced THEN alerts ELSE alerts \cup {alert}
  BY DEF SSound, Judge
<1>2. p \in Handling /\ p.mark \in [nth : Nat, set : Nat, stay : Nat] /\ p.wasSilenced \in Nat \cup {Never}
      /\ second \in Nat /\ track \in [pressure : Nat, last : Int, cache : Text \cup {NoText}]
      /\ timeout \in Nat \cup {Never} /\ Silence \in Nat
  BY <1>1, SpamNumbers DEF STypeOK, Handling
<1>3. /\ post' \in [Poster -> Handling]
      /\ post'[h] = Idle /\ \A g \in Poster \ {h} : post'[g] = post[g]
      /\ \A g \in Poster : /\ post'[g].at \in {"known", "track", "stamp"} => post'[g].text \in Text
                           /\ post'[g].at = "store" => post'[g].due # << >>
  BY <1>1, IdleIsTyped, BecomesTyped
<1>4. silenceTimeout' = silenceTimeout /\ Silence' = Silence
  BY <1>1 DEF silenceTimeout, Silence
<1>5. alert.mark = p.mark /\ alert.decided = second
  OBVIOUS
<1>6. h \in Judging /\ p.mark \in Made
  BY <1>1 DEF Judging, Made
<1>7. \A g \in Judging' : g \in Judging /\ g # h /\ post'[g] = post[g]
  BY <1>3, IdleIsTyped DEF Judging
<1> HIDE DEF p, alert
<1>8. STypeOK'
  BY <1>1, <1>2, <1>3, <1>4, <1>5 DEF STypeOK
<1>9. \A x \in Made' : x \in Made
  <2>1. \A y \in alerts' : y.mark \in Made
    BY <1>1, <1>5, <1>6 DEF Made
  <2>2. \A g \in Judging' : post'[g].mark \in Made
    BY <1>7 DEF Made
  <2> QED
    BY <2>1, <2>2 DEF Made
<1>10. \A x \in Made : x.set \in Nat
  BY <1>1 DEF STypeOK, Made, Judging, Handling
<1>11. ASSUME NEW x \in Made', NEW y \in alerts', x.nth < y.mark.nth, x.stay = y.mark.stay
       PROVE  y.decided >= x.set + Silence'
  <2>1. CASE y \in alerts
    BY <1>1, <1>4, <1>9, <1>11, <2>1 DEF Remembered
  <2>2. CASE y \notin alerts
    <3>1. y = alert /\ (p.wasSilenced = Never \/ second >= p.wasSilenced)
      BY <1>1, <1>2, <2>2 DEF Never
    <3>2. Lasting(x, p.wasSilenced)
      BY <1>1, <1>5, <1>6, <1>9, <1>11, <3>1 DEF Remembered, p
    <3>3. x.set \in Nat
      BY <1>9, <1>10
    <3> QED
      BY <1>2, <1>4, <1>5, <3>1, <3>2, <3>3 DEF Lasting, Never
  <2> QED
    BY <2>1, <2>2
<1>12. Remembered'
  BY <1>1, <1>4, <1>7, <1>9, <1>11 DEF Remembered, Lasting
<1> QED
  BY <1>8, <1>12 DEF SSound

LEMMA OthersAreSound == ASSUME SSound, Leave \/ SilenceByHand \/ SecondPasses PROVE SSound'
<1>1. STypeOK /\ Remembered
  BY DEF SSound
<1>2. UNCHANGED <<allowed, track, post, marks, alerts>>
  BY DEF Leave, SilenceByHand, SecondPasses, shistory
<1>3. Judging' = Judging /\ Made' = Made /\ silenceTimeout' = silenceTimeout /\ Silence' = Silence
  BY <1>2 DEF Judging, Made, silenceTimeout, Silence
<1>4. second \in Nat /\ stay \in Nat /\ silenced \in Nat \cup {Never} /\ timeout \in Nat \cup {Never}
      /\ Timeout \in Nat \cup {Never}
  BY <1>1, SpamNumbers DEF STypeOK
<1>5. /\ \/ silenced' = silenced /\ stay' = stay
         \/ silenced' = Never /\ stay' = stay + 1
      /\ second' \in {second, second + 1} /\ timeout' \in {timeout, Timeout}
  BY DEF Leave, SilenceByHand, SecondPasses, shistory
<1>6. STypeOK'
  BY <1>1, <1>2, <1>3, <1>4, <1>5 DEF STypeOK
<1>7. \A x \in Made : x.set \in Nat /\ x.stay \in Nat
  BY <1>1 DEF STypeOK, Made, Judging, Handling
<1>8. Remembered'
  <2>1. \A m \in Made' : m.nth <= marks' /\ m.stay <= stay' /\ m.set <= second'
    BY <1>1, <1>2, <1>3, <1>4, <1>5, <1>7 DEF Remembered
  <2>2. \A m \in Made' : m.stay = stay' => Lasting(m, silenced)'
    <3>1. CASE silenced' = silenced /\ stay' = stay
      BY <1>1, <1>3, <3>1 DEF Remembered, Lasting
    <3>2. CASE stay' = stay + 1
      <4>1. \A m \in Made : m.stay # stay'
        BY <1>1, <1>4, <1>7, <3>2 DEF Remembered
      <4> QED
        BY <1>3, <4>1
    <3> QED
      BY <1>5, <3>1, <3>2
  <2> QED
    BY <1>1, <1>2, <1>3, <2>1, <2>2 DEF Remembered, Lasting
<1> QED
  BY <1>6, <1>8 DEF SSound

LEMMA LiftIsSound == ASSUME SSound, Lift PROVE SSound'
<1>1. STypeOK /\ Remembered
  BY DEF SSound
<1>2. /\ UNCHANGED <<allowed, second, track, silenced, marks, stay, alerts>> /\ timeout' = Never
      /\ post' = [h \in Poster |-> [post[h] EXCEPT !.called = Never]]
  BY DEF Lift, shistory
<1>3. ASSUME NEW h \in Poster
      PROVE  /\ post'[h] \in Handling
             /\ post'[h].at = post[h].at /\ post'[h].text = post[h].text /\ post'[h].due = post[h].due
             /\ post'[h].mark = post[h].mark /\ post'[h].wasSilenced = post[h].wasSilenced
  <2>1. post[h] \in Handling
    BY <1>1 DEF STypeOK
  <2> QED
    BY <1>2, <2>1 DEF Handling
<1>4. post' \in [Poster -> Handling]
  BY <1>2, <1>3
<1>5. Judging' = Judging /\ Made' = Made /\ silenceTimeout' = silenceTimeout /\ Silence' = Silence
  BY <1>2, <1>3 DEF Judging, Made, silenceTimeout, Silence
<1>6. STypeOK'
  BY <1>1, <1>2, <1>3, <1>4, <1>5 DEF STypeOK
<1>7. \A h \in Judging : h \in Poster
  BY DEF Judging
<1>8. Remembered'
  BY <1>1, <1>2, <1>3, <1>5, <1>7 DEF Remembered, Lasting
<1> QED
  BY <1>6, <1>8 DEF SSound

LEMMA SpamIsSound == SSpec => []SSound
<1>1. SInit => SSound
  BY SpamInit DEF SSound
<1>2. SSound /\ [SNext]_svars => SSound'
  <2> SUFFICES ASSUME SSound, [SNext]_svars PROVE SSound'
    OBVIOUS
  <2>1. CASE UNCHANGED svars
    BY <2>1 DEF svars, SSound, STypeOK, Remembered, Judging, Made, Lasting, silenceTimeout, Silence
  <2>2. ASSUME NEW h \in Poster, Handle(h) PROVE SSound'
    BY <2>2, KnownIsSound, TrackIsSound, StampIsSound, LoadIsSound, StoreIsSound, CountedIsSound, KillIsSound,
       MarkIsSound, JudgeIsSound DEF Handle
  <2> QED
    BY <2>1, <2>2, FilteredIsSound, PostIsSound, OthersAreSound, LiftIsSound DEF SNext
<1> QED
  BY <1>1, <1>2, PTL DEF SSpec

(* The pressure is never negative, whatever old time a message carries, and nothing *)
(* is stored that AddPressure has not computed.                                      *)
THEOREM PressureTypeCorrect == SSpec => []STypeOK
<1>1. SSound => STypeOK
  BY DEF SSound
<1> QED
  BY <1>1, SpamIsSound, PTL

(***************************************************************************)
(* The moderators are told once of a member's silence, for any number of    *)
(* messages judged at the same time, by hand or by the filter.              *)
(***************************************************************************)
THEOREM AlertsAreSentOnce == SSpec => []AlertOnce
<1>1. SSound => AlertOnce
  <2>1. \A x \in alerts : x.mark \in Made
    BY DEF Made
  <2> QED
    BY <2>1 DEF SSound, Remembered, AlertOnce
<1> QED
  BY <1>1, SpamIsSound, PTL

(***************************************************************************)
(* A call to Discord that succeeded at this very second has silenced the    *)
(* member, as nobody has lifted it since; only the steps from the call to   *)
(* the judgement remember one.                                              *)
(***************************************************************************)
CallsSilence ==
  \A h \in Poster : /\ post[h].called <= second
                    /\ post[h].called # Never => post[h].at \in {"mark", "judge"}
                    /\ post[h].called = second => timeout > second

(* One goroutine goes on, with r in place of what it was: what r says of its call
   is all that matters. *)
LEMMA CallIsKept ==
  ASSUME STypeOK, CallsSilence, NEW h \in Poster, NEW r, Becomes(h, r),
         second' = second, timeout' = timeout \/ timeout' > second,
         r.called <= second, r.called # Never => r.at \in {"mark", "judge"},
         r.called = second => timeout' > second
  PROVE  CallsSilence'
<1>1. post'[h] = r /\ \A g \in Poster \ {h} : post'[g] = post[g]
  BY DEF STypeOK, Becomes
<1> QED
  BY <1>1 DEF CallsSilence

(* A goroutine that has not yet asked Discord, and does not. *)
LEMMA UncalledIsKept ==
  ASSUME STypeOK, CallsSilence, NEW h \in Poster, NEW r, Becomes(h, r), second' = second, timeout' = timeout,
         r.called = Never
  PROVE  CallsSilence'
<1>1. second \in Nat /\ Never < 0 /\ Never # second
  BY DEF STypeOK, Never
<1>2. r.called <= second /\ r.called # second
  BY <1>1 DEF Never
<1> QED
  BY <1>2, CallIsKept

(* Before it asks. *)
LEMMA BeforeTheCall ==
  ASSUME STypeOK, CallsSilence, NEW h \in Poster,
         Known(h) \/ Track(h) \/ Stamp(h) \/ LoadPressure(h) \/ StorePressure(h) \/ Counted(h)
  PROVE  CallsSilence'
<1>1. post[h].called = Never /\ post[h] \in Handling
  BY DEF CallsSilence, STypeOK, Known, Track, Stamp, LoadPressure, StorePressure, Counted
<1>2. Idle.called = Never
  BY DEF Idle
<1>3. second' = second /\ timeout' = timeout
  BY DEF Known, Track, Stamp, LoadPressure, StorePressure, Counted
<1>4. PICK r : Becomes(h, r) /\ r.called = Never
  <2>1. CASE Known(h)
    <3> DEFINE r == IF silenced # Never /\ second < silenced THEN Idle
                   ELSE [post[h] EXCEPT !.at = "track", !.wasSilenced = silenced]
    <3>1. Becomes(h, r)
      BY <2>1 DEF Known
    <3>2. r.called = Never
      BY <1>1, <1>2, <2>1 DEF Handling
    <3> HIDE DEF r
    <3> QED
      BY <3>1, <3>2
  <2>2. CASE Track(h)
    <3> DEFINE r == [post[h] EXCEPT !.at = "stamp", !.last = track'.last]
    <3>1. Becomes(h, r)
      BY <2>2 DEF Track
    <3>2. r.called = Never
      BY <1>1, <2>2 DEF Handling
    <3> HIDE DEF r
    <3> QED
      BY <3>1, <3>2
  <2>3. CASE Stamp(h)
    <3> DEFINE r == IF post[h].sent < post[h].last THEN Idle
                   ELSE [post[h] EXCEPT !.at = "load", !.due = <<BasePressure, Weight[post[h].text], Repeated>>]
    <3>1. Becomes(h, r)
      BY <2>3 DEF Stamp
    <3>2. r.called = Never
      BY <1>1, <1>2, <2>3 DEF Handling
    <3> HIDE DEF r
    <3> QED
      BY <3>1, <3>2
  <2>4. CASE LoadPressure(h)
    <3> DEFINE r == [post[h] EXCEPT !.at = "store", !.read = track.pressure + Amount(h)]
    <3>1. Becomes(h, r)
      BY <2>4 DEF LoadPressure
    <3>2. r.called = Never
      BY <1>1, <2>4 DEF Handling
    <3> HIDE DEF r
    <3> QED
      BY <3>1, <3>2
  <2>5. CASE StorePressure(h)
    <3> DEFINE r == [post[h] EXCEPT !.at = IF post[h].read > MaxPressure THEN "kill" ELSE "load",
                                    !.due = Tail(post[h].due)]
    <3>1. Becomes(h, r)
      BY <2>5 DEF StorePressure
    <3>2. r.called = Never
      BY <1>1, <2>5 DEF Handling
    <3> HIDE DEF r
    <3> QED
      BY <3>1, <3>2
  <2>6. CASE Counted(h)
    BY <1>2, <2>6, Zenon DEF Counted
  <2> QED
    BY <2>1, <2>2, <2>3, <2>4, <2>5, <2>6
<1> QED
  BY <1>3, <1>4, UncalledIsKept

(* It asks: until when is decided by SilenceTimeout alone. *)
LEMMA TheCall ==
  ASSUME STypeOK, CallsSilence, silenceTimeout > 0, NEW h \in Poster, Kill(h) PROVE CallsSilence'
<1>1. post[h].called = Never /\ post[h] \in Handling /\ second \in Nat /\ silenceTimeout \in Nat
  BY DEF CallsSilence, STypeOK, Kill
<1>2. second' = second
  BY DEF Kill
<1>3. CASE timeout' = Timeout /\ Becomes(h, [post[h] EXCEPT !.at = "mark", !.called = second])
  <2>1. timeout' > second
    BY <1>1, <1>3 DEF Timeout
  <2>2. PICK r : r = [post[h] EXCEPT !.at = "mark", !.called = second]
    OBVIOUS
  <2>3. r.at = "mark" /\ r.called = second
    BY <1>1, <2>2 DEF Handling
  <2>4. r.called <= second
    BY <1>1, <2>3
  <2> QED
    BY <1>2, <1>3, <2>1, <2>2, <2>3, <2>4, CallIsKept
<1>4. CASE UNCHANGED timeout /\ Becomes(h, [post[h] EXCEPT !.at = "mark"])
  <2>1. [post[h] EXCEPT !.at = "mark"].called = Never
    BY <1>1 DEF Handling
  <2> QED
    BY <1>2, <1>4, <2>1, UncalledIsKept
<1> QED
  BY <1>3, <1>4 DEF Kill

(* After it asked. *)
LEMMA AfterTheCall ==
  ASSUME STypeOK, CallsSilence, NEW h \in Poster, Mark(h) \/ Judge(h) PROVE CallsSilence'
<1>1. second' = second /\ timeout' = timeout
  BY DEF Mark, Judge
<1>2. CASE Mark(h)
  <2>1. PICK r : r = Marked(post[h]) /\ Becomes(h, r)
    BY <1>2 DEF Mark
  <2>2. post[h] \in Handling
    BY DEF STypeOK
  <2>3. r.at = "judge" /\ r.called = post[h].called
    BY <2>1, <2>2 DEF Marked, Handling
  <2>4. r.called <= second /\ (r.called = second => timeout' > second)
    BY <1>1, <2>3 DEF CallsSilence
  <2> QED
    BY <1>1, <2>1, <2>3, <2>4, CallIsKept
<1>3. CASE Judge(h)
  <2>1. Becomes(h, Idle) /\ Idle.called = Never
    BY <1>3 DEF Judge, Idle
  <2> QED
    BY <1>1, <2>1, UncalledIsKept
<1> QED
  BY <1>2, <1>3

(* A message that arrives has asked for nothing. *)
LEMMA BeginningCalls ==
  ASSUME STypeOK, CallsSilence, NEW h \in Poster,
         Filtered(h) \/ \E text \in Text, sent \in second - allowed.late .. second : Post(h, text, sent)
  PROVE  CallsSilence'
<1>1. second' = second /\ timeout' = timeout
  BY DEF Filtered, Post
<1>2. CASE Filtered(h)
  <2>0. PICK scale \in allowed.scales : Becomes(h, [Idle EXCEPT !.at = "load", !.scale = scale, !.due = <<FilterPressure>>])
    BY <1>2 DEF Filtered
  <2> DEFINE r == [Idle EXCEPT !.at = "load", !.scale = scale, !.due = <<FilterPressure>>]
  <2>1. Becomes(h, r)
    BY <2>0
  <2>2. r.called = Never
    BY DEF Idle
  <2> HIDE DEF r
  <2> QED
    BY <1>1, <2>1, <2>2, UncalledIsKept
<1>3. ASSUME NEW text \in Text, NEW sent \in second - allowed.late .. second, Post(h, text, sent)
      PROVE  CallsSilence'
  <2>0. PICK scale \in allowed.scales :
          Becomes(h, [Idle EXCEPT !.at = "known", !.sent = sent, !.text = text, !.scale = scale])
    BY <1>3 DEF Post
  <2> DEFINE r == [Idle EXCEPT !.at = "known", !.sent = sent, !.text = text, !.scale = scale]
  <2>1. Becomes(h, r)
    BY <2>0
  <2>2. r.called = Never
    BY DEF Idle
  <2> HIDE DEF r
  <2> QED
    BY <1>1, <2>1, <2>2, UncalledIsKept
<1> QED
  BY <1>2, <1>3

(* What others do, and the clock. *)
LEMMA OthersCall ==
  ASSUME STypeOK, CallsSilence, silenceTimeout > 0, Leave \/ SilenceByHand \/ Lift \/ SecondPasses
  PROVE  CallsSilence'
<1>1. second \in Nat /\ silenceTimeout \in Nat
  BY DEF STypeOK
<1>2. CASE Leave
  BY <1>2 DEF Leave, CallsSilence
<1>3. CASE SilenceByHand
  <2>1. timeout' > second /\ UNCHANGED <<second, post>>
    BY <1>1, <1>3 DEF SilenceByHand, Timeout
  <2> QED
    BY <2>1 DEF CallsSilence
<1>4. CASE Lift
  <2>1. second' = second /\ post' = [h \in Poster |-> [post[h] EXCEPT !.called = Never]]
    BY <1>4 DEF Lift
  <2>2. \A h \in Poster : post[h] \in Handling
    BY DEF STypeOK
  <2>3. \A h \in Poster : post'[h].called = Never
    BY <2>1, <2>2 DEF Handling
  <2>4. Never <= second /\ Never # second
    BY <1>1 DEF Never
  <2> QED
    BY <2>1, <2>3, <2>4 DEF CallsSilence
<1>5. CASE SecondPasses
  <2>1. second' = second + 1 /\ post' = post
    BY <1>5 DEF SecondPasses
  <2>2. \A h \in Poster : post[h].called \in Int
    BY DEF STypeOK, Handling, Never
  <2>3. \A h \in Poster : post[h].called <= second' /\ post[h].called # second'
    BY <1>1, <2>1, <2>2 DEF CallsSilence
  <2> QED
    BY <2>1, <2>3 DEF CallsSilence
<1> QED
  BY <1>2, <1>3, <1>4, <1>5

(***************************************************************************)
(* Where SilenceTimeout is set, whoever exceeds the pressure is silenced by *)
(* the call that succeeds, for any messages at a time and whatever          *)
(* moderators do: only the default of no timeout breaks what BotConfig.go   *)
(* says of maxpressure.                                                     *)
(***************************************************************************)
THEOREM SilencedWhereConfigured ==
  ASSUME \A s \in SpamScopes : s.silenceTimeout > 0
  PROVE  SSpec => []SpammerIsSilenced
<1>1. SInit => CallsSilence
  <2> SUFFICES ASSUME SInit PROVE CallsSilence
    OBVIOUS
  <2>1. \A h \in Poster : post[h].called = Never
    BY DEF SInit, Idle
  <2>2. Never <= second /\ Never # second
    BY DEF SInit, Never
  <2> QED
    BY <2>1, <2>2 DEF CallsSilence
<1>2. SSound /\ CallsSilence /\ [SNext]_svars => CallsSilence'
  <2> SUFFICES ASSUME SSound, CallsSilence, [SNext]_svars PROVE CallsSilence'
    OBVIOUS
  <2>1. STypeOK /\ silenceTimeout > 0
    BY DEF SSound, STypeOK, silenceTimeout
  <2>2. CASE UNCHANGED svars
    BY <2>2 DEF svars, CallsSilence
  <2>3. ASSUME NEW h \in Poster, Handle(h) PROVE CallsSilence'
    BY <2>1, <2>3, BeforeTheCall, TheCall, AfterTheCall DEF Handle
  <2> QED
    BY <2>1, <2>2, <2>3, BeginningCalls, OthersCall DEF SNext
<1>3. CallsSilence => SpammerIsSilenced
  BY DEF CallsSilence, SpammerIsSilenced
<1> QED
  BY <1>1, <1>2, <1>3, SpamIsSound, PTL DEF SSpec

-----------------------------------------------------------------------------
(***************************************************************************)
(* The pressure is that of a leaky bucket.  What was charged is a sum over  *)
(* a set, defined by recursion over its subsets: induction, with a set in   *)
(* place of a predicate, shows that the recursion defines it, and that the  *)
(* next charge adds to every run of charges up to the last.                 *)
(***************************************************************************)
LEMMA SetInduction ==
  ASSUME NEW S, 0 \in S, \A n \in Nat : n \in S => n + 1 \in S
  PROVE  Nat \subseteq S
<1> DEFINE Wrong == {n \in Nat : n \notin S}
           Initials == {0..n : n \in Wrong}
           Below == StrictSubsetOrdering(Nat)
<1>1. ASSUME NEW w \in Wrong PROVE FALSE
  <2>1. IsWellFoundedOn(Below, FiniteSubsetsOf(Nat))
    BY FS_StrictSubsetOrderingWellFounded
  <2>2. Initials \subseteq FiniteSubsetsOf(Nat) /\ Initials # {}
    <3>1. ASSUME NEW n \in Wrong PROVE 0..n \in FiniteSubsetsOf(Nat)
      BY FS_Interval DEF FiniteSubsetsOf
    <3> QED
      BY <1>1, <3>1
  <2>3. PICK U \in Initials : \A V \in Initials : ~(<<V, U>> \in Below)
    <3> HIDE DEF Below, Initials
    <3> QED
      BY <2>1, <2>2, WFMin
  <2>4. PICK n \in Wrong : U = 0..n
    OBVIOUS
  <2>5. n \in Nat /\ n # 0 /\ n - 1 \in Nat /\ n - 1 + 1 = n
    OBVIOUS
  <2>6. 0..(n - 1) \subseteq 0..n /\ 0..(n - 1) # 0..n
    <3>1. n \in 0..n /\ n \notin 0..(n - 1)
      BY <2>5
    <3> QED
      BY <2>5, <3>1
  <2>7. <<0..(n - 1), 0..n>> \in Below
    BY <2>5, <2>6 DEF StrictSubsetOrdering
  <2>8. n - 1 \in S
    BY <2>3, <2>4, <2>5, <2>7
  <2> QED
    BY <2>5, <2>8
<1> QED
  BY <1>1

(* What MapThenSumSet defines: of every subset, one element and the sum of the rest. *)
SomeOf(s) == CHOOSE x \in s : TRUE
SumRule(sum, c, S) == [s \in SUBSET S |-> IF s = {} THEN 0 ELSE c[SomeOf(s)].amount + sum[s \ {SomeOf(s)}]]
SumOver(c, S) == MapThenSumSet(LAMBDA j : c[j].amount, S)
Amounts(c, S) == IsFiniteSet(S) /\ \A j \in S : c[j].amount \in Int
SameAmounts(c, d, t) == \A j \in t : c[j].amount = d[j].amount
Sums(sum, c, S) == Amounts(c, S) /\ sum = SumRule(sum, c, S)

LEMMA SomeOfIsIn == ASSUME NEW s, s # {} PROVE SomeOf(s) \in s
BY DEF SomeOf

LEMMA OneLess ==
  ASSUME NEW s, IsFiniteSet(s), NEW x \in s
  PROVE  IsFiniteSet(s \ {x}) /\ Cardinality(s) \in Nat \ {0} /\ Cardinality(s \ {x}) = Cardinality(s) - 1
BY FS_RemoveElement, FS_EmptySet, FS_CardinalityType

LEMMA SumExists == ASSUME NEW c, NEW S, Amounts(c, S) PROVE \E sum : sum = SumRule(sum, c, S)
<1> DEFINE Upto(k) == {s \in SUBSET S : Cardinality(s) <= k}
           Good(g, k) == g = [s \in Upto(k) |-> IF s = {} THEN 0 ELSE c[SomeOf(s)].amount + g[s \ {SomeOf(s)}]]
           K == {k \in Nat : \E g : Good(g, k)}
<1>1. \A s \in SUBSET S : IsFiniteSet(s) /\ Cardinality(s) \in Nat
  BY FS_Subset, FS_CardinalityType DEF Amounts
<1>2. 0 \in K
  <2>1. \A s \in Upto(0) : s = {}
    BY <1>1, FS_EmptySet
  <2>2. Good([s \in Upto(0) |-> 0], 0)
    BY <2>1
  <2> QED
    BY <2>2
<1>3. ASSUME NEW k \in Nat, k \in K PROVE k + 1 \in K
  <2>1. PICK g : Good(g, k)
    BY <1>3
  <2> DEFINE h == [s \in Upto(k + 1) |-> IF s = {} THEN 0 ELSE c[SomeOf(s)].amount + g[s \ {SomeOf(s)}]]
  <2>2. ASSUME NEW s \in Upto(k + 1), s # {} PROVE s \ {SomeOf(s)} \in Upto(k)
    BY <2>2, <1>1, SomeOfIsIn, OneLess
  <2>3. ASSUME NEW s \in Upto(k) PROVE s \in Upto(k + 1) /\ h[s] = g[s]
    <3>1. Cardinality(s) \in Nat /\ Cardinality(s) <= k
      BY <1>1
    <3>2. s \in Upto(k + 1)
      BY <3>1
    <3>3. g[s] = IF s = {} THEN 0 ELSE c[SomeOf(s)].amount + g[s \ {SomeOf(s)}]
      BY <2>1
    <3> QED
      BY <3>2, <3>3
  <2>4. ASSUME NEW s \in Upto(k + 1)
        PROVE  h[s] = IF s = {} THEN 0 ELSE c[SomeOf(s)].amount + h[s \ {SomeOf(s)}]
    <3>1. CASE s = {}
      BY <3>1
    <3>2. CASE s # {}
      <4>1. h[s] = c[SomeOf(s)].amount + g[s \ {SomeOf(s)}]
        BY <3>2
      <4>2. h[s \ {SomeOf(s)}] = g[s \ {SomeOf(s)}]
        BY <2>2, <2>3, <3>2
      <4> HIDE DEF h
      <4> QED
        BY <3>2, <4>1, <4>2
    <3> QED
      BY <3>1, <3>2
  <2>5. PICK f : f = h
    OBVIOUS
  <2>6. Good(f, k + 1)
    <3>1. f = [s \in Upto(k + 1) |-> f[s]]
      BY <2>5
    <3>2. \A s \in Upto(k + 1) : f[s] = IF s = {} THEN 0 ELSE c[SomeOf(s)].amount + f[s \ {SomeOf(s)}]
      BY <2>4, <2>5
    <3> HIDE DEF h, Upto
    <3> QED
      BY <3>1, <3>2
  <2> HIDE DEF Good
  <2> QED
    BY <2>6
<1>4. Cardinality(S) \in K
  <2>1. Nat \subseteq K
    <3> HIDE DEF K
    <3> QED
      BY <1>2, <1>3, SetInduction
  <2> QED
    BY <1>1, <2>1
<1>5. Upto(Cardinality(S)) = SUBSET S
  BY <1>1, FS_Subset DEF Amounts
<1>6. PICK g : Good(g, Cardinality(S))
  BY <1>4
<1>7. g = SumRule(g, c, S)
  <2> HIDE DEF Upto
  <2> QED
    BY <1>5, <1>6 DEF SumRule
<1> QED
  BY <1>7

LEMMA SumIsOne ==
  ASSUME NEW c, NEW S, Amounts(c, S)
  PROVE  \E sum : Sums(sum, c, S) /\ SumOver(c, S) = sum[S]
<1> DEFINE sum == CHOOSE g : g = SumRule(g, c, S)
<1>1. sum = SumRule(sum, c, S)
  BY SumExists
<1>2. SumOver(c, S) = sum[S]
  BY DEF SumOver, MapThenSumSet, MapThenFoldSet, SumRule, SomeOf
<1> QED
  BY <1>1, <1>2 DEF Sums

(* Whatever the element, it can be taken out first. *)
LEMMA SumTakesAny ==
  ASSUME NEW c, NEW S, NEW sum, Sums(sum, c, S), NEW t \in SUBSET S
  PROVE  sum[t] \in Int /\ \A x \in t : sum[t] = c[x].amount + sum[t \ {x}]
<1> DEFINE TakesAny(s) == sum[s] \in Int /\ \A x \in s : sum[s] = c[x].amount + sum[s \ {x}]
           K == {k \in Nat : \A s \in SUBSET S : Cardinality(s) <= k => TakesAny(s)}
<1>1. \A s \in SUBSET S : IsFiniteSet(s) /\ Cardinality(s) \in Nat
  BY FS_Subset, FS_CardinalityType DEF Amounts, Sums
<1>2. \A s \in SUBSET S : sum[s] = IF s = {} THEN 0 ELSE c[SomeOf(s)].amount + sum[s \ {SomeOf(s)}]
  BY DEF SumRule, Sums
<1>3. 0 \in K
  <2>1. \A s \in SUBSET S : Cardinality(s) <= 0 => s = {}
    BY <1>1, FS_EmptySet
  <2>2. {} \in SUBSET S /\ sum[{}] = 0
    BY <1>2
  <2> QED
    BY <2>1, <2>2
<1>4. ASSUME NEW k \in Nat, k \in K PROVE k + 1 \in K
  <2>1. SUFFICES ASSUME NEW s \in SUBSET S, Cardinality(s) = k + 1 PROVE TakesAny(s)
    BY <1>1, <1>4
  <2>2. s # {}
    BY <2>1, FS_EmptySet
  <2>3. PICK y : y = SomeOf(s)
    OBVIOUS
  <2>4. y \in s /\ sum[s] = c[y].amount + sum[s \ {y}]
    BY <1>2, <2>2, <2>3, SomeOfIsIn
  <2>5. \A x \in s : s \ {x} \in SUBSET S /\ Cardinality(s \ {x}) = k
    BY <1>1, <2>1, OneLess
  <2>6. \A x \in s : TakesAny(s \ {x}) /\ c[x].amount \in Int
    <3> HIDE DEF TakesAny
    <3>1. \A x \in s : Cardinality(s \ {x}) <= k
      BY <2>5
    <3> QED
      BY <1>4, <2>5, <3>1 DEF Amounts, Sums
  <2>7. sum[s] \in Int
    <3>1. sum[s \ {y}] \in Int /\ c[y].amount \in Int
      BY <2>4, <2>6
    <3> QED
      BY <2>4, <3>1
  <2>8. ASSUME NEW x \in s PROVE sum[s] = c[x].amount + sum[s \ {x}]
    <3>1. CASE x = y
      BY <2>4, <3>1
    <3>2. CASE x # y
      <4>1. x \in s \ {y} /\ y \in s \ {x}
        BY <2>4, <3>2
      <4>2. sum[s \ {y}] = c[x].amount + sum[(s \ {y}) \ {x}]
        BY <2>4, <2>6, <4>1
      <4>3. sum[s \ {x}] = c[y].amount + sum[(s \ {x}) \ {y}]
        BY <2>6, <4>1
      <4>4. (s \ {y}) \ {x} = (s \ {x}) \ {y}
        OBVIOUS
      <4>5. PICK r : r = sum[(s \ {x}) \ {y}]
        OBVIOUS
      <4>6. r \in Int
        <5>1. (s \ {x}) \ {y} \in SUBSET S
          OBVIOUS
        <5>2. Cardinality((s \ {x}) \ {y}) = k - 1
          BY <1>1, <2>5, <4>1, OneLess
        <5>3. TakesAny((s \ {x}) \ {y})
          <6> HIDE DEF TakesAny
          <6> QED
            BY <1>4, <5>1, <5>2
        <5> QED
          BY <4>5, <5>3
      <4>7. c[x].amount \in Int /\ c[y].amount \in Int
        BY <2>4, <2>6
      <4>8. sum[s \ {y}] = c[x].amount + r /\ sum[s \ {x}] = c[y].amount + r
        BY <4>2, <4>3, <4>4, <4>5
      <4> QED
        BY <2>4, <4>6, <4>7, <4>8
    <3> QED
      BY <3>1, <3>2
  <2> QED
    BY <2>7, <2>8
<1>5. Nat \subseteq K
  <2> HIDE DEF K
  <2> QED
    BY <1>3, <1>4, SetInduction
<1> QED
  BY <1>1, <1>5

(* The sum looks at nothing but the amounts. *)
LEMMA SumsAgree ==
  ASSUME NEW c, NEW S, NEW sum, Sums(sum, c, S), NEW d, NEW R, NEW mus, Sums(mus, d, R),
         NEW t, t \subseteq S, t \subseteq R, SameAmounts(c, d, t)
  PROVE  sum[t] = mus[t]
<1> DEFINE K == {k \in Nat : \A s \in SUBSET t : Cardinality(s) = k => sum[s] = mus[s]}
<1>1. \A s \in SUBSET t : s \in SUBSET S /\ s \in SUBSET R /\ IsFiniteSet(s) /\ Cardinality(s) \in Nat
  BY FS_Subset, FS_CardinalityType DEF Amounts, Sums
<1>2. \A s \in SUBSET t : /\ sum[s] = IF s = {} THEN 0 ELSE c[SomeOf(s)].amount + sum[s \ {SomeOf(s)}]
                          /\ mus[s] = IF s = {} THEN 0 ELSE d[SomeOf(s)].amount + mus[s \ {SomeOf(s)}]
  BY <1>1 DEF SumRule, Sums
<1>3. 0 \in K
  <2>1. \A s \in SUBSET t : Cardinality(s) = 0 => s = {}
    BY <1>1, FS_EmptySet
  <2> QED
    BY <1>2, <2>1
<1>4. ASSUME NEW k \in Nat, k \in K PROVE k + 1 \in K
  <2>1. SUFFICES ASSUME NEW s \in SUBSET t, Cardinality(s) = k + 1 PROVE sum[s] = mus[s]
    OBVIOUS
  <2>2. s # {}
    BY <2>1, FS_EmptySet
  <2>3. PICK y : y = SomeOf(s)
    OBVIOUS
  <2>4. y \in s /\ sum[s] = c[y].amount + sum[s \ {y}] /\ mus[s] = d[y].amount + mus[s \ {y}]
    BY <1>2, <2>2, <2>3, SomeOfIsIn
  <2>5. s \ {y} \in SUBSET t /\ Cardinality(s \ {y}) = k
    BY <1>1, <2>1, <2>4, OneLess
  <2> QED
    BY <1>4, <2>4, <2>5 DEF SameAmounts
<1>5. Nat \subseteq K
  <2> HIDE DEF K
  <2> QED
    BY <1>3, <1>4, SetInduction
<1> QED
  BY <1>1, <1>5

Charges == Seq([at : Int, amount : Nat])

LEMMA SumGrows ==
  ASSUME NEW c \in Charges, NEW r \in [at : Int, amount : Nat], NEW i \in 1..(Len(c) + 1)
  PROVE  /\ SumOver(c, i..Len(c)) \in Int
         /\ SumOver(Append(c, r), i..(Len(c) + 1)) = SumOver(c, i..Len(c)) + r.amount
         /\ i = Len(c) + 1 => SumOver(c, i..Len(c)) = 0
<1> DEFINE n == Len(c)
           d == Append(c, r)
<1>1. /\ n \in Nat /\ d[n + 1] = r /\ \A j \in 1..n : d[j] = c[j]
      /\ \A j \in 1..n : c[j].amount \in Nat
  <2>1. c \in Seq([at : Int, amount : Nat]) /\ n \in Nat
    BY LenProperties DEF Charges
  <2>2. \A j \in 1..n : c[j] \in [at : Int, amount : Nat]
    BY <2>1, ElementOfSeq
  <2>3. d[n + 1] = r /\ \A j \in 1..n : d[j] = c[j]
    BY <2>1, AppendProperties
  <2> QED
    BY <2>1, <2>2, <2>3
<1> HIDE DEF n, d
<1>2. Amounts(c, i..n) /\ Amounts(d, i..(n + 1))
  <2>1. i \in Int /\ n \in Int /\ n + 1 \in Int /\ r.amount \in Nat
    BY <1>1 DEF n
  <2>2. IsFiniteSet(i..n) /\ IsFiniteSet(i..(n + 1))
    BY <2>1, FS_Interval
  <2>3. \A j \in i..(n + 1) : j \in 1..n \/ j = n + 1
    BY <1>1, <2>1 DEF n
  <2>4. \A j \in i..n : j \in 1..n
    BY <1>1, <2>1 DEF n
  <2> QED
    BY <1>1, <2>1, <2>2, <2>3, <2>4 DEF Amounts
<1>3. PICK sum : Sums(sum, c, i..n) /\ SumOver(c, i..n) = sum[i..n]
  BY <1>2, SumIsOne
<1>4. PICK mus : Sums(mus, d, i..(n + 1)) /\ SumOver(d, i..(n + 1)) = mus[i..(n + 1)]
  BY <1>2, SumIsOne
<1>5. sum[i..n] \in Int
  BY <1>3, SumTakesAny
<1>6. i \in 1..(n + 1) /\ n + 1 \in i..(n + 1) /\ (i..(n + 1)) \ {n + 1} = i..n
  BY <1>1 DEF n
<1>7. mus[i..(n + 1)] = d[n + 1].amount + mus[i..n]
  <2>1. PICK R : R = i..(n + 1)
    OBVIOUS
  <2>2. Sums(mus, d, R) /\ R \in SUBSET R /\ n + 1 \in R
    BY <1>4, <1>6, <2>1
  <2>3. \A x \in R : mus[R] = d[x].amount + mus[R \ {x}]
    BY <2>2, SumTakesAny
  <2> QED
    BY <1>6, <2>1, <2>2, <2>3
<1>8. mus[i..n] = sum[i..n]
  <2>1. \A j \in i..n : c[j].amount = d[j].amount
    BY <1>1, <1>6
  <2>2. PICK S, R : S = i..n /\ R = i..(n + 1)
    OBVIOUS
  <2>3. S \subseteq S /\ S \subseteq R /\ SameAmounts(c, d, S)
    BY <1>6, <2>1, <2>2 DEF SameAmounts
  <2>4. Sums(sum, c, S) /\ Sums(mus, d, R)
    BY <1>3, <1>4, <2>2
  <2>5. PICK e : e = d
    OBVIOUS
  <2>6. S \subseteq S /\ S \subseteq R /\ SameAmounts(c, e, S) /\ Sums(sum, c, S) /\ Sums(mus, e, R)
    BY <2>3, <2>4, <2>5
  <2>7. sum[S] = mus[S]
    BY <2>6, SumsAgree
  <2> QED
    BY <2>2, <2>7
<1>9. i = n + 1 => sum[i..n] = 0
  <2>1. i = n + 1 => i..n = {}
    BY <1>1
  <2> QED
    BY <1>3, <2>1 DEF SumRule, Sums
<1>10. r.amount \in Int
  OBVIOUS
<1> QED
  BY <1>1, <1>3, <1>4, <1>5, <1>6, <1>7, <1>8, <1>9, <1>10 DEF n, d

(* What the charges from the i-th on have left at a time, and the most of any. *)
LeftAt(c, i, t) == SumOver(c, i..Len(c)) - Lost(t - c[i].at)
IsPeak(p, c, t) ==
  /\ p \in Nat /\ \A i \in 1..Len(c) : LeftAt(c, i, t) <= p
  /\ p = 0 \/ \E i \in 1..Len(c) : p = LeftAt(c, i, t)

(* In turn: what has been drained since the last charge is about to be charged anew. *)
Fresh(r) == r.at = "load" /\ Len(r.due) = 3
UpToDate(c, t) == c = << >> \/ BasePressure = 0 \/ c[Len(c)].at = t
Going(r, t, c) ==
  /\ c \in Charges /\ (t.last = Never => c = << >>)
  /\ r.at \in {"known", "track", "stamp"} => r.sent >= 0
  /\ r.at \in {"stamp", "load", "store"} => t.last # Never
  /\ r.at = "stamp" => r.last = t.last
  /\ r.at \in {"load", "store"} => Len(r.due) <= 3
  /\ Fresh(r) => Head(r.due) = BasePressure
  /\ IsPeak(IF r.at = "store" THEN r.read ELSE t.pressure, c, t.last)
  /\ Fresh(r) \/ UpToDate(c, t.last)
Leaking ==
  /\ second >= 1
  /\ \A g, h \in Poster : post[g].at # "idle" /\ post[h].at # "idle" => g = h
  /\ \A h \in Poster : post[h].at # "idle" => Going(post[h], track, charged)
  /\ AllIdle => Going(Idle, track, charged)
Leaks == inTurn => Leaking

LEMMA Losing ==
  ASSUME NEW x \in Int, NEW y \in Int
  PROVE  /\ Lost(x) \in Int /\ Lost(x + y) = Lost(x) + Lost(y) /\ Lost(0) = 0
         /\ x >= 0 => Lost(x) >= 0
         /\ BasePressure = 0 => Lost(x) = 0
<1>1. PICK k \in Nat : k = BasePressure \div PressureDecay /\ (BasePressure = 0 => k = 0)
  BY SpamAssumption
<1>2. /\ k * x \in Int /\ k * (x + y) = k * x + k * y /\ k * 0 = 0
      /\ x >= 0 => k * x >= 0
      /\ k = 0 => k * x = 0
  OBVIOUS
<1> QED
  BY <1>1, <1>2 DEF Lost

LEMMA ChargeTimes ==
  ASSUME NEW c \in Charges
  PROVE  Len(c) \in Nat /\ \A i \in 1..Len(c) : c[i].at \in Int
<1>1. c \in Seq([at : Int, amount : Nat]) /\ Len(c) \in Nat
  BY LenProperties DEF Charges
<1>2. \A i \in 1..Len(c) : c[i] \in [at : Int, amount : Nat]
  BY <1>1, ElementOfSeq
<1> QED
  BY <1>1, <1>2

LEMMA SumIsInt == ASSUME NEW c \in Charges, NEW i \in 1..Len(c) PROVE SumOver(c, i..Len(c)) \in Int
<1>1. [at |-> 0, amount |-> 0] \in [at : Int, amount : Nat]
  OBVIOUS
<1>2. i \in 1..(Len(c) + 1)
  BY ChargeTimes
<1> QED
  BY <1>1, <1>2, SumGrows

LEMMA LargerIs == ASSUME NEW e \in Int PROVE Max({0, e}) = IF e >= 0 THEN e ELSE 0
<1>1. PICK m : m = IF e >= 0 THEN e ELSE 0
  OBVIOUS
<1>2. m \in {0, e} /\ \A y \in {0, e} : m >= y
  BY <1>1
<1>3. \A x \in {0, e} : (\A y \in {0, e} : x >= y) => x = m
  BY <1>1
<1> QED
  BY <1>1, <1>2, <1>3 DEF Max

LEMMA PeakDrains ==
  ASSUME NEW c \in Charges, NEW t \in Int, NEW u \in Int, u >= t, NEW p, IsPeak(p, c, t)
  PROVE  IsPeak(Max({0, p - Lost(u - t)}), c, u)
<1>1. PICK d \in Nat : d = Lost(u - t)
  <2>1. PICK x \in Int : x = u - t /\ x >= 0
    OBVIOUS
  <2>2. Lost(x) \in Int /\ Lost(x) >= 0
    BY <2>1, Losing
  <2> QED
    BY <2>1, <2>2
<1>2. PICK q : q = Max({0, p - Lost(u - t)})
  OBVIOUS
<1>3. p \in Nat /\ q = IF p - d >= 0 THEN p - d ELSE 0
  BY <1>1, <1>2, LargerIs DEF IsPeak
<1>4. ASSUME NEW i \in 1..Len(c) PROVE LeftAt(c, i, t) \in Int /\ LeftAt(c, i, u) = LeftAt(c, i, t) - d
  <2>1. PICK a \in Int : a = c[i].at
    BY ChargeTimes
  <2>2. PICK x \in Int, y \in Int : x = t - a /\ y = u - t /\ x + y = u - a
    BY <2>1
  <2>3. Lost(u - a) = Lost(t - a) + Lost(u - t) /\ Lost(t - a) \in Int
    <3>1. Lost(x + y) = Lost(x) + Lost(y) /\ Lost(x) \in Int
      BY Losing
    <3> QED
      BY <2>2, <3>1
  <2>4. PICK s \in Int : s = SumOver(c, i..Len(c))
    BY SumIsInt
  <2> QED
    BY <1>1, <2>1, <2>3, <2>4 DEF LeftAt
<1>5. q \in Nat /\ \A i \in 1..Len(c) : LeftAt(c, i, u) <= q
  BY <1>3, <1>4 DEF IsPeak
<1>6. q = 0 \/ \E i \in 1..Len(c) : q = LeftAt(c, i, u)
  BY <1>3, <1>4 DEF IsPeak
<1> QED
  BY <1>2, <1>5, <1>6 DEF IsPeak

LEMMA PeakCharges ==
  ASSUME NEW c \in Charges, NEW t \in Int, NEW a \in Nat, NEW p, IsPeak(p, c, t)
  PROVE  IsPeak(p + a, Append(c, [at |-> t, amount |-> a]), t)
<1> DEFINE r == [at |-> t, amount |-> a]
<1>1. PICK n \in Nat : n = Len(c)
  BY ChargeTimes
<1>2. PICK d : d = Append(c, r)
  OBVIOUS
<1>3. r \in [at : Int, amount : Nat] /\ r.at = t /\ r.amount = a
  OBVIOUS
<1> HIDE DEF r
<1>4. Len(d) = n + 1 /\ d[n + 1] = r /\ \A i \in 1..n : d[i] = c[i]
  BY <1>1, <1>2, <1>3, AppendProperties DEF Charges
<1>5. ASSUME NEW i \in 1..n PROVE LeftAt(c, i, t) \in Int /\ LeftAt(d, i, t) = LeftAt(c, i, t) + a
  <2>1. PICK s \in Int : s = SumOver(c, i..n)
    BY <1>1, SumIsInt
  <2>2. i \in 1..(n + 1)
    OBVIOUS
  <2>3. SumOver(d, i..(n + 1)) = s + a
    BY <1>1, <1>2, <1>3, <2>1, <2>2, SumGrows
  <2>4. PICK l \in Int : l = Lost(t - c[i].at)
    BY <1>1, ChargeTimes, Losing
  <2>5. LeftAt(c, i, t) = s - l /\ LeftAt(d, i, t) = (s + a) - l
    BY <1>1, <1>4, <2>1, <2>3, <2>4 DEF LeftAt
  <2> QED
    BY <2>5
<1>6. LeftAt(d, n + 1, t) = a
  <2>1. PICK i \in 1..(n + 1) : i = n + 1
    OBVIOUS
  <2>2. SumOver(d, i..(n + 1)) = 0 + a
    BY <1>1, <1>2, <1>3, <2>1, SumGrows
  <2>3. d[i].at = t /\ t - t = 0 /\ Lost(0) = 0
    BY <1>3, <1>4, <2>1, Losing
  <2> QED
    BY <1>4, <2>1, <2>2, <2>3 DEF LeftAt
<1>7. p \in Nat /\ \A i \in 1..n : LeftAt(c, i, t) <= p
  BY <1>1 DEF IsPeak
<1>8. \A i \in 1..Len(d) : LeftAt(d, i, t) <= p + a
  <2>1. \A i \in 1..Len(d) : i \in 1..n \/ i = n + 1
    BY <1>4
  <2> QED
    BY <1>5, <1>6, <1>7, <2>1
<1>9. \E i \in 1..Len(d) : p + a = LeftAt(d, i, t)
  <2>1. CASE p = 0
    <3>1. n + 1 \in 1..Len(d)
      BY <1>4
    <3> QED
      BY <1>6, <2>1, <3>1
  <2>2. ASSUME NEW i \in 1..n, p = LeftAt(c, i, t) PROVE \E j \in 1..Len(d) : p + a = LeftAt(d, j, t)
    <3>1. i \in 1..Len(d)
      BY <1>4
    <3> QED
      BY <1>5, <2>2, <3>1
  <2> QED
    BY <1>1, <2>1, <2>2 DEF IsPeak
<1> QED
  BY <1>2, <1>7, <1>8, <1>9 DEF IsPeak, r

LEMMA PeakIsMax ==
  ASSUME NEW c \in Charges, NEW t \in Int, NEW p, IsPeak(p, c, t), UpToDate(c, t)
  PROVE  p = Max({0} \cup {SumOver(c, i..Len(c)) - Lost(c[Len(c)].at - c[i].at) : i \in 1..Len(c)})
<1> DEFINE Left == {SumOver(c, i..Len(c)) - Lost(c[Len(c)].at - c[i].at) : i \in 1..Len(c)}
<1>1. ASSUME NEW i \in 1..Len(c)
      PROVE  SumOver(c, i..Len(c)) - Lost(c[Len(c)].at - c[i].at) = LeftAt(c, i, t) /\ LeftAt(c, i, t) \in Int
  <2>0. PICK n \in Nat : n = Len(c) /\ n \in 1..Len(c)
    BY ChargeTimes
  <2>1. PICK a \in Int, b \in Int : a = c[i].at /\ b = c[n].at
    BY <2>0, ChargeTimes
  <2>2. Lost(b - a) = Lost(t - a) /\ Lost(t - a) \in Int
    <3>1. CASE BasePressure = 0
      <4>1. t - a \in Int /\ b - a \in Int
        OBVIOUS
      <4> QED
        BY <3>1, <4>1, Losing
    <3>2. CASE BasePressure # 0
      <4>1. b = t
        BY <2>0, <2>1, <3>2, ChargeTimes DEF UpToDate
      <4> QED
        BY <4>1, Losing
    <3> QED
      BY <3>1, <3>2
  <2>3. SumOver(c, i..Len(c)) \in Int
    BY SumIsInt
  <2> QED
    BY <2>0, <2>1, <2>2, <2>3 DEF LeftAt
<1>2. Left = {LeftAt(c, i, t) : i \in 1..Len(c)}
  BY <1>1
<1> HIDE DEF Left
<1>3. p \in {0} \cup Left /\ p \in Nat
  BY <1>2 DEF IsPeak
<1>4. \A y \in {0} \cup Left : p >= y /\ y \in Int
  <2>1. \A y \in Left : y <= p /\ y \in Int
    BY <1>1, <1>2 DEF IsPeak
  <2> QED
    BY <1>3, <2>1
<1>5. \A x \in {0} \cup Left : (\A y \in {0} \cup Left : x >= y) => x = p
  <2>1. ASSUME NEW x \in {0} \cup Left, \A y \in {0} \cup Left : x >= y PROVE x = p
    <3>1. x >= p /\ p >= x /\ x \in Int
      BY <1>3, <1>4, <2>1
    <3> QED
      BY <1>3, <3>1
  <2> QED
    BY <2>1
<1>6. p = Max({0} \cup Left)
  BY <1>3, <1>4, <1>5 DEF Max
<1> QED
  BY <1>6 DEF Left

(* One goroutine goes on while the others are idle. *)
Standing(h) == IF post[h].at = "idle" THEN Idle ELSE post[h]

LEMMA OneGoesOn ==
  ASSUME STypeOK, Leaking, NEW h \in Poster, post[h].at # "idle" \/ AllIdle,
         NEW r, Becomes(h, r), r.at = "idle" => r = Idle,
         Going(Standing(h), track, charged) => Going(r, track', charged'),
         second' = second
  PROVE  Leaking'
<1>1. Going(r, track', charged')
  BY DEF Leaking, Standing
<1>2. \A g \in Poster \ {h} : post[g].at = "idle"
  BY DEF Leaking, AllIdle
<1>3. post' = [post EXCEPT ![h] = r] /\ post \in [Poster -> Handling]
  BY DEF Becomes, STypeOK
<1>4. post'[h] = r /\ \A g \in Poster \ {h} : post'[g].at = "idle"
  BY <1>2, <1>3
<1>5. AllIdle' => r = Idle
  BY <1>4 DEF AllIdle
<1>6. second' >= 1
  BY DEF Leaking
<1>7. \A f, g \in Poster : post'[f].at # "idle" /\ post'[g].at # "idle" => f = g
  BY <1>4
<1>8. \A g \in Poster : post'[g].at # "idle" => Going(post'[g], track', charged')
  BY <1>1, <1>4
<1> QED
  BY <1>1, <1>5, <1>6, <1>7, <1>8 DEF Leaking

LEMMA NoPeak == ASSUME NEW p, NEW t, NEW u, IsPeak(p, << >>, t) PROVE p = 0 /\ IsPeak(p, << >>, u)
BY DEF IsPeak

LEMMA BeginsToLeak ==
  ASSUME STypeOK, Leaking, inTurn, NEW h \in Poster,
         Filtered(h) \/ \E text \in Text, sent \in second - allowed.late .. second : Post(h, text, sent)
  PROVE  Leaking'
<1>1. post[h].at = "idle" /\ AllIdle /\ second' = second /\ charged' = charged
  BY DEF Filtered, Post, MayBegin, shistory
<1>2. second \in Nat /\ second >= 1 /\ track \in [pressure : Nat, last : Int, cache : Text \cup {NoText}]
  BY DEF STypeOK, Leaking
<1>3. Standing(h) = Idle /\ Idle.at = "idle"
  BY <1>1 DEF Standing, Idle
<1>4. ASSUME NEW text \in Text, NEW sent \in second - allowed.late .. second, Post(h, text, sent) PROVE Leaking'
  <2>0. PICK scale \in allowed.scales :
          Becomes(h, [Idle EXCEPT !.at = "known", !.sent = sent, !.text = text, !.scale = scale])
    BY <1>4 DEF Post
  <2> DEFINE r == [Idle EXCEPT !.at = "known", !.sent = sent, !.text = text, !.scale = scale]
  <2>1. r.at = "known" /\ r.sent = sent
    BY DEF Idle
  <2>2. sent >= 0
    BY <1>2, SpamNumbers
  <2>3. Becomes(h, r) /\ track' = track
    BY <1>4, <2>0 DEF Post
  <2> HIDE DEF r
  <2>4. Going(Idle, track, charged) => Going(r, track', charged')
    BY <1>1, <1>3, <2>1, <2>2, <2>3 DEF Going, Fresh
  <2> QED
    BY <1>1, <1>3, <2>1, <2>3, <2>4, OneGoesOn
<1>5. CASE Filtered(h)
  <2>0. PICK scale \in allowed.scales : Becomes(h, [Idle EXCEPT !.at = "load", !.scale = scale, !.due = <<FilterPressure>>])
    BY <1>5 DEF Filtered
  <2> DEFINE r == [Idle EXCEPT !.at = "load", !.scale = scale, !.due = <<FilterPressure>>]
  <2>1. r.at = "load" /\ Len(r.due) = 1
    BY DEF Idle
  <2>2. Becomes(h, r) /\ track' = IF track.last = Never THEN [track EXCEPT !.last = second] ELSE track
    BY <1>5, <2>0 DEF Filtered
  <2>3. track'.last # Never /\ track'.pressure = track.pressure /\ (track.last # Never => track' = track)
    BY <1>2, <2>2 DEF Never
  <2> HIDE DEF r
  <2>4. ASSUME Going(Idle, track, charged) PROVE Going(r, track', charged')
    <3>1. IsPeak(track.pressure, charged, track.last) /\ UpToDate(charged, track.last) /\ charged \in Charges
          /\ (track.last = Never => charged = << >>)
      BY <1>3, <2>4 DEF Going, Fresh
    <3>2. IsPeak(track'.pressure, charged, track'.last) /\ UpToDate(charged, track'.last)
      BY <2>3, <3>1, NoPeak DEF UpToDate
    <3> QED
      BY <1>1, <2>1, <2>3, <3>1, <3>2 DEF Going, Fresh
  <2> QED
    BY <1>1, <1>3, <2>1, <2>2, <2>4, OneGoesOn
<1> QED
  BY <1>4, <1>5

LEMMA LoadLeaks == ASSUME STypeOK, Leaking, inTurn, NEW h \in Poster, LoadPressure(h) PROVE Leaking'
<1> DEFINE p == post[h]
           a == Amount(h)
           r == [post[h] EXCEPT !.at = "store", !.read = track.pressure + Amount(h)]
<1>1. /\ post[h].at = "load" /\ post[h].due # << >> /\ Becomes(h, r) /\ UNCHANGED <<second, track>>
      /\ charged' = IF a = 0 THEN charged ELSE Append(charged, [at |-> track.last, amount |-> a])
  BY DEF LoadPressure
<1>2. p \in Handling /\ p.at = "load" /\ p.due \in Seq(Nat \cup {Repeated}) /\ p.due # << >>
  BY <1>1 DEF STypeOK, Handling
<1>3. Head(p.due) \in Nat \cup {Repeated}
  BY <1>2
<1>4. a \in Nat /\ (Head(p.due) \in Nat /\ a = 0 => Head(p.due) = 0)
  <2>1. Pressure(h) \in Nat /\ (Head(p.due) \in Nat => Pressure(h) = Head(p.due))
    BY <1>3, SpamNumbers DEF Pressure, Repeated
  <2>2. p.scale \in Nat \ {0}
    BY <1>2 DEF Handling
  <2>3. \A m \in Nat, n \in Nat \ {0} : m * n \in Nat /\ (m * n = 0 => m = 0)
    OBVIOUS
  <2>4. a = Pressure(h) * p.scale
    BY DEF Amount
  <2> HIDE DEF a, p
  <2>5. a \in Nat /\ (a = 0 => Pressure(h) = 0)
    BY <2>1, <2>2, <2>3, <2>4
  <2> QED
    BY <2>1, <2>5
<1>5. r.at = "store" /\ r.due = p.due /\ r.read = track.pressure + a
  BY <1>2 DEF Handling
<1>6. Standing(h) = p
  BY <1>2 DEF Standing
<1>7. track.last \in Int /\ BasePressure \in Nat
  BY SpamNumbers DEF STypeOK
<1> HIDE DEF r, a, p
<1>8. ASSUME Going(p, track, charged) PROVE Going(r, track', charged')
  <2>1. /\ charged \in Charges /\ track.last # Never /\ Len(p.due) <= 3
        /\ IsPeak(track.pressure, charged, track.last)
        /\ (Fresh(p) => Head(p.due) = BasePressure) /\ (Fresh(p) \/ UpToDate(charged, track.last))
    BY <1>2, <1>8 DEF Going
  <2>2. track.pressure \in Nat
    BY <2>1 DEF IsPeak
  <2>3. CASE a = 0
    <3>1. UpToDate(charged, track.last)
      BY <1>4, <1>7, <2>1, <2>3 DEF UpToDate
    <3>2. charged' = charged /\ track' = track /\ r.read = track.pressure
      BY <1>1, <1>5, <2>2, <2>3
    <3> QED
      BY <1>5, <2>1, <3>1, <3>2 DEF Going, Fresh
  <2>4. CASE a # 0
    <3>1. PICK c : c = Append(charged, [at |-> track.last, amount |-> a])
      OBVIOUS
    <3>2. [at |-> track.last, amount |-> a] \in [at : Int, amount : Nat]
      BY <1>4, <1>7
    <3>3. c \in Charges /\ Len(c) = Len(charged) + 1 /\ c[Len(c)] = [at |-> track.last, amount |-> a]
      BY <2>1, <3>1, <3>2, AppendProperties DEF Charges
    <3>4. IsPeak(track.pressure + a, c, track.last)
      BY <1>4, <1>7, <2>1, <3>1, PeakCharges
    <3>5. UpToDate(c, track.last)
      BY <3>3 DEF UpToDate
    <3>6. charged' = c /\ track' = track
      BY <1>1, <2>4, <3>1
    <3> QED
      BY <1>5, <2>1, <3>3, <3>4, <3>5, <3>6 DEF Going, Fresh
  <2> QED
    BY <2>3, <2>4
<1> QED
  BY <1>1, <1>2, <1>5, <1>6, <1>8, OneGoesOn DEF p

LEMMA StoreLeaks == ASSUME STypeOK, Leaking, NEW h \in Poster, StorePressure(h) PROVE Leaking'
<1> DEFINE p == post[h]
           r == [post[h] EXCEPT !.at = IF post[h].read > MaxPressure THEN "kill" ELSE "load", !.due = Tail(@)]
<1>1. /\ p.at = "store" /\ Becomes(h, r) /\ second' = second /\ charged' = charged
      /\ track' = [track EXCEPT !.pressure = p.read]
  BY DEF StorePressure, shistory
<1>2. p \in Handling /\ p.due \in Seq(Nat \cup {Repeated}) /\ p.due # << >>
  BY <1>1 DEF STypeOK, Handling
<1>3. r.at \in {"kill", "load"} /\ Len(r.due) = Len(p.due) - 1 /\ Len(p.due) \in Nat
  BY <1>2 DEF Handling
<1>4. track'.pressure = p.read /\ track'.last = track.last
  BY <1>1 DEF STypeOK
<1>5. Standing(h) = p
  BY <1>1 DEF Standing
<1> HIDE DEF r, p
<1>6. ASSUME Going(p, track, charged) PROVE Going(r, track', charged')
  <2>1. /\ charged \in Charges /\ track.last # Never /\ Len(p.due) <= 3 /\ IsPeak(p.read, charged, track.last)
        /\ UpToDate(charged, track.last)
    BY <1>1, <1>6 DEF Going, Fresh
  <2>2. Len(r.due) <= 3 /\ Len(r.due) # 3
    <3>1. Len(p.due) \in Nat /\ Len(p.due) <= 3 /\ Len(r.due) = Len(p.due) - 1
      BY <1>3, <2>1
    <3>2. \A n \in Nat : n <= 3 => n - 1 <= 3 /\ n - 1 # 3
      OBVIOUS
    <3>3. Len(p.due) - 1 <= 3 /\ Len(p.due) - 1 # 3
      BY <3>1, <3>2, Zenon
    <3> QED
      BY <3>1, <3>3, Zenon
  <2>3. ~Fresh(r) /\ (r.at \in {"load", "store"} => Len(r.due) <= 3)
    BY <2>2, Zenon DEF Fresh
  <2> QED
    BY <1>1, <1>3, <1>4, <2>1, <2>3 DEF Going
<1> QED
  BY <1>1, <1>3, <1>5, <1>6, OneGoesOn DEF p

LEMMA StampLeaks == ASSUME STypeOK, Leaking, NEW h \in Poster, Stamp(h) PROVE Leaking'
<1> DEFINE p == post[h]
           r == [post[h] EXCEPT !.at = "load", !.due = <<BasePressure, Weight[post[h].text], Repeated>>]
<1>1. p.at = "stamp" /\ second' = second /\ charged' = charged
  BY DEF Stamp, shistory
<1>2. p \in Handling /\ track \in [pressure : Nat, last : Int, cache : Text \cup {NoText}]
  BY DEF STypeOK
<1>3. Standing(h) = p
  BY <1>1 DEF Standing
<1>4. CASE p.sent < p.last
  <2>1. Becomes(h, Idle) /\ track' = [track EXCEPT !.last = p.last]
    BY <1>4 DEF Stamp
  <2> HIDE DEF p
  <2>2. ASSUME Going(p, track, charged) PROVE Going(Idle, track', charged')
    <3>1. p.last = track.last
      BY <1>1, <2>2 DEF Going
    <3>2. track' = track
      BY <1>2, <2>1, <3>1
    <3> QED
      BY <1>1, <2>2, <3>2 DEF Going, Fresh, Idle
  <2> QED
    BY <1>1, <1>3, <2>1, <2>2, OneGoesOn DEF p
<1>5. CASE ~(p.sent < p.last)
  <2>1. /\ Becomes(h, r)
        /\ track' = [track EXCEPT !.last = p.sent, !.pressure = Max({0, @ - Lost(p.sent - p.last)})]
    BY <1>5 DEF Stamp
  <2>2. r.at = "load" /\ Len(r.due) = 3 /\ Head(r.due) = BasePressure
    BY <1>2 DEF Handling
  <2>3. p.sent \in Int /\ p.last \in Int
    BY <1>2 DEF Handling
  <2> HIDE DEF p, r
  <2>4. track'.last = p.sent /\ track'.pressure = Max({0, track.pressure - Lost(p.sent - p.last)})
    BY <1>2, <2>1
  <2>5. ASSUME Going(p, track, charged) PROVE Going(r, track', charged')
    <3>1. p.last = track.last /\ p.sent >= 0 /\ charged \in Charges /\ IsPeak(track.pressure, charged, track.last)
      BY <1>1, <2>5 DEF Going
    <3>2. IsPeak(track'.pressure, charged, track'.last)
      BY <1>5, <2>3, <2>4, <3>1, PeakDrains
    <3>3. track'.last # Never
      BY <2>3, <2>4, <3>1 DEF Never
    <3> QED
      BY <1>1, <2>2, <3>1, <3>2, <3>3 DEF Going, Fresh
  <2> QED
    BY <1>1, <1>3, <2>1, <2>2, <2>5, OneGoesOn DEF p
<1> QED
  BY <1>4, <1>5

LEMMA TrackLeaks == ASSUME STypeOK, Leaking, NEW h \in Poster, Track(h) PROVE Leaking'
<1> DEFINE p == post[h]
           r == [post[h] EXCEPT !.at = "stamp", !.last = track'.last]
<1>1. /\ p.at = "track" /\ second' = second /\ charged' = charged /\ Becomes(h, r)
      /\ track' = IF track.last = Never THEN [track EXCEPT !.last = p.sent] ELSE track
  BY DEF Track, shistory
<1>2. p \in Handling /\ track \in [pressure : Nat, last : Int, cache : Text \cup {NoText}]
  BY DEF STypeOK
<1>3. r.at = "stamp" /\ r.sent = p.sent /\ r.last = track'.last
  BY <1>2 DEF Handling
<1>4. p.sent \in Int
  BY <1>2 DEF Handling
<1>5. Standing(h) = p
  BY <1>1 DEF Standing
<1> HIDE DEF p, r
<1>6. ASSUME Going(p, track, charged) PROVE Going(r, track', charged')
  <2>1. /\ p.sent >= 0 /\ charged \in Charges /\ IsPeak(track.pressure, charged, track.last)
        /\ (track.last = Never => charged = << >>) /\ UpToDate(charged, track.last)
    BY <1>1, <1>6 DEF Going, Fresh
  <2>2. track'.last # Never /\ track'.pressure = track.pressure /\ (track.last # Never => track' = track)
    BY <1>1, <1>2, <1>4, <2>1 DEF Never
  <2>3. IsPeak(track'.pressure, charged, track'.last) /\ UpToDate(charged, track'.last)
    BY <2>1, <2>2, NoPeak DEF UpToDate
  <2> QED
    BY <1>1, <1>3, <2>1, <2>2, <2>3 DEF Going, Fresh
<1> QED
  BY <1>1, <1>3, <1>5, <1>6, OneGoesOn DEF p

(* What neither charges nor drains. *)
LEMMA OtherwiseLeaks ==
  ASSUME STypeOK, Leaking, NEW h \in Poster, Known(h) \/ Counted(h) \/ Kill(h) \/ Mark(h) \/ Judge(h)
  PROVE  Leaking'
<1> DEFINE p == post[h]
<1>1. /\ p.at \in {"known", "load", "kill", "mark", "judge"} /\ (p.at = "load" => p.due = << >>)
      /\ second' = second /\ charged' = charged
  BY DEF Known, Counted, Kill, Mark, Judge, shistory
<1>2. track'.pressure = track.pressure /\ track'.last = track.last
  BY DEF Known, Counted, Kill, Mark, Judge, STypeOK
<1>3. p \in Handling
  BY DEF STypeOK
<1>4. PICK r : Becomes(h, r) /\ (r = Idle \/ (r.at \in {"track", "mark", "judge"} /\ r.sent = p.sent))
               /\ (r.at = "track" => p.at = "known")
  <2>1. CASE Known(h)
    <3>1. PICK r : r = IF silenced # Never /\ second < silenced THEN Idle
                       ELSE [post[h] EXCEPT !.at = "track", !.wasSilenced = silenced]
      OBVIOUS
    <3>2. Becomes(h, r) /\ (r = Idle \/ (r.at = "track" /\ r.sent = p.sent)) /\ p.at = "known"
      BY <1>3, <2>1, <3>1 DEF Known, Handling
    <3> QED
      BY <3>2
  <2>2. CASE Counted(h) \/ Judge(h)
    <3>1. Becomes(h, Idle) /\ Idle.at = "idle"
      BY <2>2 DEF Counted, Judge, Idle
    <3> QED
      BY <3>1
  <2>3. CASE Kill(h)
    <3>1. PICK r \in {[post[h] EXCEPT !.at = "mark", !.called = second], [post[h] EXCEPT !.at = "mark"]} : Becomes(h, r)
      BY <2>3 DEF Kill
    <3>2. r.at = "mark" /\ r.sent = p.sent
      BY <1>3, <3>1 DEF Handling
    <3> QED
      BY <3>1, <3>2
  <2>4. CASE Mark(h)
    <3>1. Becomes(h, Marked(post[h])) /\ Marked(post[h]).at = "judge" /\ Marked(post[h]).sent = p.sent
      BY <1>3, <2>4 DEF Mark, Marked, Handling
    <3> QED
      BY <3>1
  <2> QED
    BY <2>1, <2>2, <2>3, <2>4
<1>5. Standing(h) = p
  BY <1>1 DEF Standing
<1>6. Idle.at = "idle"
  BY DEF Idle
<1> HIDE DEF p
<1>7. ASSUME Going(p, track, charged) PROVE Going(r, track', charged')
  <2>1. ~Fresh(p)
    BY <1>1 DEF Fresh
  <2>2. /\ charged \in Charges /\ (track.last = Never => charged = << >>)
        /\ (p.at = "known" => p.sent >= 0)
        /\ IsPeak(track.pressure, charged, track.last) /\ UpToDate(charged, track.last)
    BY <1>1, <1>7, <2>1 DEF Going
  <2>3. r.at \in {"idle", "track", "mark", "judge"} /\ (r.at = "track" => r.sent >= 0)
    BY <1>4, <1>6, <2>2
  <2> QED
    BY <1>1, <1>2, <2>2, <2>3 DEF Going, Fresh
<1> QED
  BY <1>1, <1>4, <1>5, <1>6, <1>7, OneGoesOn DEF p

LEMMA OthersLeak ==
  ASSUME STypeOK, Leaking, Leave \/ SilenceByHand \/ Lift \/ SecondPasses \/ UNCHANGED svars
  PROVE  Leaking'
<1>1. UNCHANGED <<track, charged>> /\ second' \in {second, second + 1}
  BY DEF Leave, SilenceByHand, Lift, SecondPasses, svars, shistory
<1>2. \A h \in Poster : \/ post'[h] = post[h]
                        \/ post'[h] = [post[h] EXCEPT !.called = Never]
  BY DEF Leave, SilenceByHand, Lift, SecondPasses, svars
<1>3. post \in [Poster -> Handling] /\ second \in Nat
  BY DEF STypeOK
<1>4. ASSUME NEW h \in Poster
      PROVE  /\ post'[h].at = post[h].at /\ post'[h].sent = post[h].sent /\ post'[h].last = post[h].last
             /\ post'[h].due = post[h].due /\ post'[h].read = post[h].read
  BY <1>2, <1>3 DEF Handling
<1>5. ASSUME NEW h \in Poster, Going(post[h], track, charged) PROVE Going(post'[h], track', charged')
  BY <1>1, <1>4, <1>5 DEF Going, Fresh
<1>6. AllIdle' = AllIdle
  BY <1>4 DEF AllIdle
<1>7. second' >= 1
  BY <1>1, <1>3 DEF Leaking
<1> QED
  BY <1>1, <1>4, <1>5, <1>6, <1>7 DEF Leaking

LEMMA AlwaysLeaks == SSpec => []Leaks
<1>1. SInit => Leaks
  <2> SUFFICES ASSUME SInit PROVE Leaking
    BY DEF Leaks
  <2>1. post = [h \in Poster |-> Idle] /\ Idle.at = "idle" /\ second = 1 /\ charged = << >>
        /\ track.pressure = 0
    BY DEF SInit, Idle
  <2>2. << >> \in Charges /\ IsPeak(0, << >>, track.last) /\ UpToDate(<< >>, track.last)
    BY DEF Charges, IsPeak, UpToDate
  <2>3. Going(Idle, track, charged)
    BY <2>1, <2>2 DEF Going, Fresh
  <2> QED
    BY <2>1, <2>3 DEF Leaking
<1>2. SSound /\ Leaks /\ [SNext]_svars => Leaks'
  <2> SUFFICES ASSUME SSound, Leaks, [SNext]_svars, inTurn' PROVE Leaking'
    BY DEF Leaks
  <2>1. allowed' = allowed
    BY DEF SNext, Handle, Known, Track, Stamp, LoadPressure, StorePressure, Counted, Kill, Mark, Judge, Filtered, Post,
           Leave, SilenceByHand, Lift, SecondPasses, svars
  <2>2. STypeOK /\ inTurn /\ Leaking
    BY <2>1 DEF SSound, Leaks, inTurn
  <2> QED
    BY <2>2, BeginsToLeak, LoadLeaks, StoreLeaks, StampLeaks, TrackLeaks, OtherwiseLeaks, OthersLeak DEF SNext, Handle
<1> QED
  BY <1>1, <1>2, SpamIsSound, PTL DEF SSpec

(* Though kept by drains and additions of one message after the other, the pressure is that   *)
(* of a leaky bucket, for any weights, limit, order and age of the messages (checkSpam,        *)
(* AddPressure, matchFilter).                                                                   *)
THEOREM PressureAlwaysLeaks == SSpec => []PressureIsLeakyBucket
<1>1. Leaks /\ STypeOK => PressureIsLeakyBucket
  <2> SUFFICES ASSUME Leaks, STypeOK, inTurn, AllIdle
               PROVE  track.pressure = Max({0} \cup {LeftOf(i) : i \in 1..Len(charged)})
    BY DEF PressureIsLeakyBucket
  <2>1. Idle.at = "idle" /\ Going(Idle, track, charged) /\ track.last \in Int
    BY DEF Leaks, Leaking, Idle, STypeOK
  <2>2. charged \in Charges /\ IsPeak(track.pressure, charged, track.last) /\ UpToDate(charged, track.last)
    BY <2>1 DEF Going, Fresh
  <2>3. track.pressure = Max({0} \cup {SumOver(charged, i..Len(charged)) - Lost(charged[Len(charged)].at - charged[i].at)
                                       : i \in 1..Len(charged)})
    BY <2>1, <2>2, PeakIsMax
  <2>4. \A i : LeftOf(i) = SumOver(charged, i..Len(charged)) - Lost(charged[Len(charged)].at - charged[i].at)
    BY DEF LeftOf, SumOver
  <2> QED
    BY <2>3, <2>4
<1> QED
  BY <1>1, AlwaysLeaks, PressureTypeCorrect, PTL

-----------------------------------------------------------------------------
(***************************************************************************)
(* WordFilters.                                                             *)
(***************************************************************************)
Regex == [words : SUBSET Word, template : Template]

FTypeOK ==
  /\ exists \subseteq Filter /\ words \in [Filter -> SUBSET Word] /\ template \in [Filter -> Template]
  /\ excluded \in [Filter -> SUBSET Room] /\ quiet \subseteq Filter
  /\ filters \in [Filter -> SUBSET Regex]
  /\ stored \in [exists : SUBSET Filter, words : [Filter -> SUBSET Word], template : [Filter -> Template],
                 excluded : [Filter -> SUBSET Room], quiet : SUBSET Filter]
  /\ edit \in [Editor -> [at : {"idle", "save"}]
                         \cup [at : {"clear", "compile"}, filter : Filter,
                               word : Word \cup {CHOOSE w \in Word : TRUE}]]
  /\ stale \subseteq Filter

(* A filter that nobody is compiling and whose template has not changed is compiled *)
(* from its words, if it has any.  One that does not exist has none.                *)
InWork(f) == \E h \in Editor : edit[h].at \in {"clear", "compile"} /\ edit[h].filter = f

Compiled ==
  /\ \A f \in Filter : f \notin exists => words[f] = {}
  /\ \A f \in Filter : f \notin stored.exists => stored.words[f] = {}
  /\ \A f \in Filter : f \in stale \/ InWork(f) \/ filters[f] = RegexOf(f) \/ (words[f] = {} /\ filters[f] = NoRegex)

(* The regular expression of the witty module is that of the triggers it has. *)
Wits == ~tainted => /\ Usable(wits)
                    /\ IF wits = {} THEN wittyregex = NoRegex ELSE wittyregex = {wits} /\ triggers = wits
(* Together: *)
FSound == FTypeOK /\ Compiled
Busy(f, e) == e.at \in {"clear", "compile"} /\ e.filter = f

LEMMA FiltersInit == FInit => FSound
<1> SUFFICES ASSUME FInit PROVE FSound
  OBVIOUS
<1>1. exists \subseteq Filter /\ quiet = {} /\ stale = {}
  BY DEF FInit
<1>2. words \in [Filter -> SUBSET Word] /\ excluded \in [Filter -> SUBSET Room] /\ \A f \in Filter : words[f] = {}
  BY DEF FInit
<1>3. template \in [Filter -> Template]
  BY DEF FInit, Template
<1>4. filters \in [Filter -> SUBSET Regex] /\ \A f \in Filter : filters[f] = NoRegex
  BY DEF FInit, NoRegex
<1>5. edit \in [Editor -> [at : {"idle", "save"}]
                         \cup [at : {"clear", "compile"}, filter : Filter,
                               word : Word \cup {CHOOSE w \in Word : TRUE}]]
  BY DEF FInit, Resting
<1>6. stored = [exists |-> exists, words |-> words, template |-> template, excluded |-> excluded, quiet |-> quiet]
  BY DEF FInit, Settings
<1>7. FTypeOK
  BY <1>1, <1>2, <1>3, <1>4, <1>5, <1>6 DEF FTypeOK
<1>8. Compiled
  BY <1>2, <1>4, <1>6 DEF Compiled
<1> QED
  BY <1>7, <1>8 DEF FSound

LEMMA RegexIsTyped == ASSUME FTypeOK, NEW f \in Filter PROVE RegexOf(f) \subseteq Regex
<1>1. words[f] \in SUBSET Word /\ template[f] \in Template
  BY DEF FTypeOK
<1> QED
  BY <1>1 DEF RegexOf, Regex, NoRegex

(* A command that begins: whose filter is compiled, or nobody's. *)
LEMMA BeginsToEdit ==
  ASSUME FTypeOK, NEW h \in Editor, NEW r, Begin(h, r),
         \/ r \in [at : {"idle", "save"}]
         \/ r \in [at : {"clear", "compile"}, filter : Filter, word : Word \cup {CHOOSE w \in Word : TRUE}]
  PROVE  /\ edit' \in [Editor -> [at : {"idle", "save"}]
                                 \cup [at : {"clear", "compile"}, filter : Filter,
                                       word : Word \cup {CHOOSE w \in Word : TRUE}]]
         /\ \A f \in Filter : InWork(f) => InWork(f)'
         /\ \A f \in Filter : Busy(f, r) => InWork(f)'
<1>1. edit \in [Editor -> [at : {"idle", "save"}]
                         \cup [at : {"clear", "compile"}, filter : Filter,
                               word : Word \cup {CHOOSE w \in Word : TRUE}]]
  BY DEF FTypeOK
<1>2. edit' = [edit EXCEPT ![h] = r] /\ edit[h].at = "idle"
  BY DEF Begin, Resting
<1>3. edit'[h] = r /\ \A g \in Editor \ {h} : edit'[g] = edit[g]
  BY <1>1, <1>2
<1>4. edit' \in [Editor -> [at : {"idle", "save"}]
                          \cup [at : {"clear", "compile"}, filter : Filter,
                                word : Word \cup {CHOOSE w \in Word : TRUE}]]
  BY <1>1, <1>2
<1> QED
  BY <1>2, <1>3, <1>4 DEF InWork, Busy

(* The handlers of commands, up to the change of the configuration: what they compile *)
(* afterwards is in work.                                                              *)
LEMMA SettersAreSound ==
  ASSUME FSound, NEW h \in Editor, NEW f \in Filter,
         \/ \E silent \in BOOLEAN, rooms \in SUBSET Room : SetFilter(h, f, silent, rooms)
         \/ \E t \in Template : SetTemplate(h, f, t)
  PROVE  FSound'
<1>0. FTypeOK /\ Compiled
  BY DEF FSound
<1>1. PICK r \in [at : {"idle", "save"}] : Begin(h, r)
  <2>1. [at |-> "save"] \in [at : {"idle", "save"}]
    OBVIOUS
  <2> QED
    BY <2>1 DEF SetFilter, SetTemplate
<1>2. /\ edit' \in [Editor -> [at : {"idle", "save"}]
                              \cup [at : {"clear", "compile"}, filter : Filter,
                                    word : Word \cup {CHOOSE w \in Word : TRUE}]]
      /\ \A g \in Filter : InWork(g) => InWork(g)'
  BY <1>0, <1>1, BeginsToEdit
<1>3. CASE \E silent \in BOOLEAN, rooms \in SUBSET Room : SetFilter(h, f, silent, rooms)
  <2>1. PICK silent \in BOOLEAN, rooms \in SUBSET Room : SetFilter(h, f, silent, rooms)
    BY <1>3
  <2>2. /\ exists' = exists \cup {f} /\ excluded' = [excluded EXCEPT ![f] = rooms]
        /\ quiet' \in {quiet \cup {f}, quiet \ {f}}
        /\ UNCHANGED <<words, template, filters, stored, stale>>
    BY <2>1 DEF SetFilter
  <2>3. FTypeOK'
    BY <1>0, <1>2, <2>2 DEF FTypeOK
  <2>4. Compiled'
    BY <1>0, <1>2, <2>2 DEF Compiled, RegexOf, Compiles
  <2> QED
    BY <2>3, <2>4 DEF FSound
<1>4. CASE \E t \in Template : SetTemplate(h, f, t)
  <2>1. PICK t \in Template : SetTemplate(h, f, t)
    BY <1>4
  <2>2. /\ template' = [template EXCEPT ![f] = t] /\ stale' = stale \cup {f}
        /\ UNCHANGED <<exists, words, excluded, quiet, filters, stored>>
    BY <2>1 DEF SetTemplate
  <2>3. FTypeOK'
    BY <1>0, <1>2, <2>2 DEF FTypeOK
  <2>4. \A g \in Filter \ {f} : template'[g] = template[g]
    BY <1>0, <2>2 DEF FTypeOK
  <2>5. Compiled'
    BY <1>0, <1>2, <2>2, <2>4 DEF Compiled, RegexOf, Compiles
  <2> QED
    BY <2>3, <2>5 DEF FSound
<1> QED
  BY <1>3, <1>4

LEMMA WordsAreInWork ==
  ASSUME FSound, NEW h \in Editor, NEW f \in Filter,
         \/ \E w \in Word : AddFilter(h, f, w) \/ RemoveFilter(h, f, w)
         \/ DeleteFilter(h, f)
  PROVE  FSound'
<1>0. FTypeOK /\ Compiled
  BY DEF FSound
<1>1. PICK w \in Word \cup {CHOOSE w \in Word : TRUE} : Begin(h, Steps(f, w))
  BY DEF AddFilter, RemoveFilter, DeleteFilter
<1>2. /\ Steps(f, w) \in [at : {"clear", "compile"}, filter : Filter, word : Word \cup {CHOOSE w1 \in Word : TRUE}]
      /\ Busy(f, Steps(f, w))
  BY DEF Steps, Busy
<1>3. /\ edit' \in [Editor -> [at : {"idle", "save"}]
                              \cup [at : {"clear", "compile"}, filter : Filter,
                                    word : Word \cup {CHOOSE w1 \in Word : TRUE}]]
      /\ \A g \in Filter : InWork(g) => InWork(g)'
      /\ InWork(f)'
  BY <1>0, <1>1, <1>2, BeginsToEdit
<1>4. CASE \E v \in Word : AddFilter(h, f, v) \/ RemoveFilter(h, f, v)
  <2>1. PICK v \in Word : AddFilter(h, f, v) \/ RemoveFilter(h, f, v)
    BY <1>4
  <2>2. PICK S \in SUBSET Word : words' = [words EXCEPT ![f] = S] /\ (f \notin exists => S = {})
    <3>1. words[f] \in SUBSET Word /\ (f \notin exists => words[f] = {})
      BY <1>0 DEF FTypeOK, Compiled
    <3>2. CASE AddFilter(h, f, v)
      <4>1. words' = [words EXCEPT ![f] = words[f] \cup {v}] /\ f \in exists
        BY <3>2 DEF AddFilter
      <4>2. words[f] \cup {v} \in SUBSET Word
        BY <3>1
      <4> QED
        BY <4>1, <4>2
    <3>3. CASE RemoveFilter(h, f, v)
      <4>1. words' = [words EXCEPT ![f] = words[f] \ {v}]
        BY <3>3 DEF RemoveFilter
      <4>2. words[f] \ {v} \in SUBSET Word /\ (f \notin exists => words[f] \ {v} = {})
        BY <3>1
      <4> QED
        BY <4>1, <4>2
    <3> QED
      BY <2>1, <3>2, <3>3
  <2>3. UNCHANGED <<exists, template, excluded, quiet, filters, stored, stale>>
    BY <2>1 DEF AddFilter, RemoveFilter
  <2>4. words' \in [Filter -> SUBSET Word] /\ words'[f] = S /\ \A g \in Filter \ {f} : words'[g] = words[g]
    BY <1>0, <2>2 DEF FTypeOK
  <2>5. FTypeOK'
    BY <1>0, <1>3, <2>3, <2>4 DEF FTypeOK
  <2>6. Compiled'
    BY <1>0, <1>3, <2>2, <2>3, <2>4 DEF Compiled, RegexOf, Compiles
  <2> QED
    BY <2>5, <2>6 DEF FSound
<1>5. CASE DeleteFilter(h, f)
  <2>1. /\ exists' = exists \ {f} /\ words' = [words EXCEPT ![f] = {}]
        /\ template' = [template EXCEPT ![f] = "none"] /\ excluded' = [excluded EXCEPT ![f] = {}]
        /\ quiet' = quiet \ {f} /\ filters' = [filters EXCEPT ![f] = NoRegex]
        /\ UNCHANGED <<stored, stale>>
    BY <1>5 DEF DeleteFilter
  <2>2. /\ words' \in [Filter -> SUBSET Word] /\ words'[f] = {}
        /\ \A g \in Filter \ {f} : words'[g] = words[g]
    BY <1>0, <2>1 DEF FTypeOK
  <2>3. template' \in [Filter -> Template] /\ \A g \in Filter \ {f} : template'[g] = template[g]
    BY <1>0, <2>1 DEF FTypeOK, Template
  <2>4. filters' \in [Filter -> SUBSET Regex] /\ \A g \in Filter \ {f} : filters'[g] = filters[g]
    BY <1>0, <2>1 DEF FTypeOK, NoRegex
  <2>5. excluded' \in [Filter -> SUBSET Room]
    BY <1>0, <2>1 DEF FTypeOK
  <2>6. FTypeOK'
    BY <1>0, <1>3, <2>1, <2>2, <2>3, <2>4, <2>5 DEF FTypeOK
  <2>7. Compiled'
    BY <1>0, <1>3, <2>1, <2>2, <2>3, <2>4 DEF Compiled, RegexOf, Compiles
  <2> QED
    BY <2>6, <2>7 DEF FSound
<1> QED
  BY <1>4, <1>5

(* UpdateRegex, and the file. *)
LEMMA ClearRegexIsSound == ASSUME FSound, NEW h \in Editor, ClearRegex(h) PROVE FSound'
<1>0. FTypeOK /\ Compiled
  BY DEF FSound
<1>10. PICK f \in Filter : edit[h].filter = f
  BY <1>0 DEF FTypeOK, ClearRegex
<1>1. /\ edit[h].at = "clear" /\ filters' = [filters EXCEPT ![f] = NoRegex]
      /\ edit' = [edit EXCEPT ![h].at = "compile"]
      /\ UNCHANGED <<exists, words, template, excluded, quiet, stored, stale>>
  BY <1>10 DEF ClearRegex, config
<1>2. /\ edit \in [Editor -> [at : {"idle", "save"}]
                             \cup [at : {"clear", "compile"}, filter : Filter,
                                   word : Word \cup {CHOOSE w \in Word : TRUE}]]
      /\ filters \in [Filter -> SUBSET Regex]
  BY <1>0 DEF FTypeOK
<1>3. edit[h] \in [at : {"clear", "compile"}, filter : Filter, word : Word \cup {CHOOSE w \in Word : TRUE}]
  BY <1>1, <1>2
<1>4. filters' \in [Filter -> SUBSET Regex] /\ \A g \in Filter \ {f} : filters'[g] = filters[g]
  BY <1>1, <1>2, <1>3 DEF NoRegex
<1>5. /\ edit' \in [Editor -> [at : {"idle", "save"}]
                              \cup [at : {"clear", "compile"}, filter : Filter,
                                    word : Word \cup {CHOOSE w \in Word : TRUE}]]
      /\ edit'[h].at = "compile" /\ edit'[h].filter = edit[h].filter
      /\ \A g \in Editor \ {h} : edit'[g] = edit[g]
  BY <1>1, <1>2, <1>3
<1>6. \A g \in Filter : InWork(g) => InWork(g)'
  BY <1>1, <1>5 DEF InWork
<1>7. InWork(f)'
  BY <1>5, <1>10 DEF InWork
<1>8. FTypeOK'
  BY <1>0, <1>1, <1>4, <1>5 DEF FTypeOK
<1>9. Compiled'
  BY <1>0, <1>1, <1>4, <1>6, <1>7 DEF Compiled, RegexOf, Compiles
<1> QED
  BY <1>8, <1>9 DEF FSound

LEMMA CompileIsSound == ASSUME FSound, NEW h \in Editor, Compile(h) PROVE FSound'
<1>0. FTypeOK /\ Compiled
  BY DEF FSound
<1> DEFINE w == edit[h].word
<1>10. PICK f \in Filter : edit[h].filter = f
  BY <1>0 DEF FTypeOK, Compile
<1>1. /\ edit[h].at = "compile" /\ filters' = [filters EXCEPT ![f] = RegexOf(f)] /\ stale' = stale \ {f}
      /\ UNCHANGED <<exists, template, excluded, quiet, stored>>
      /\ \/ words' = [words EXCEPT ![f] = words[f] \ {w}] /\ edit' = [edit EXCEPT ![h].at = "clear"]
         \/ words' = words /\ edit' = [edit EXCEPT ![h] = [at |-> "save"]]
  BY <1>10 DEF Compile
<1>2. /\ edit \in [Editor -> [at : {"idle", "save"}]
                             \cup [at : {"clear", "compile"}, filter : Filter,
                                   word : Word \cup {CHOOSE x \in Word : TRUE}]]
      /\ filters \in [Filter -> SUBSET Regex] /\ words \in [Filter -> SUBSET Word]
  BY <1>0 DEF FTypeOK
<1>3. edit[h] \in [at : {"clear", "compile"}, filter : Filter, word : Word \cup {CHOOSE x \in Word : TRUE}]
  BY <1>1, <1>2
<1>4. /\ filters' \in [Filter -> SUBSET Regex] /\ filters'[f] = RegexOf(f)
      /\ \A g \in Filter \ {f} : filters'[g] = filters[g]
  <2>1. RegexOf(f) \in SUBSET Regex
    BY <1>0, <1>3, RegexIsTyped
  <2> QED
    BY <1>1, <1>2, <1>3, <2>1
<1>5. stale' \subseteq Filter /\ \A g \in Filter \ {f} : g \in stale => g \in stale'
  BY <1>0, <1>1 DEF FTypeOK
<1>6. CASE words' = [words EXCEPT ![f] = words[f] \ {w}] /\ edit' = [edit EXCEPT ![h].at = "clear"]
  <2>1. /\ words' \in [Filter -> SUBSET Word] /\ words'[f] \subseteq words[f]
        /\ \A g \in Filter \ {f} : words'[g] = words[g]
    <3> HIDE DEF w
    <3> QED
      BY <1>2, <1>3, <1>6
  <2>2. /\ edit' \in [Editor -> [at : {"idle", "save"}]
                                \cup [at : {"clear", "compile"}, filter : Filter,
                                      word : Word \cup {CHOOSE x \in Word : TRUE}]]
        /\ edit'[h].at = "clear" /\ edit'[h].filter = edit[h].filter
        /\ \A g \in Editor \ {h} : edit'[g] = edit[g]
    BY <1>2, <1>3, <1>6
  <2>3. \A g \in Filter : InWork(g) => InWork(g)'
    BY <1>1, <2>2 DEF InWork
  <2>4. InWork(f)'
    BY <1>10, <2>2 DEF InWork
  <2> HIDE DEF w
  <2>5. FTypeOK'
    BY <1>0, <1>1, <1>4, <1>5, <2>1, <2>2 DEF FTypeOK
  <2>6. Compiled'
    BY <1>0, <1>1, <1>4, <1>5, <2>1, <2>3, <2>4 DEF Compiled, RegexOf, Compiles
  <2> QED
    BY <2>5, <2>6 DEF FSound
<1>7. CASE words' = words /\ edit' = [edit EXCEPT ![h] = [at |-> "save"]]
  <2>1. /\ edit' \in [Editor -> [at : {"idle", "save"}]
                                \cup [at : {"clear", "compile"}, filter : Filter,
                                      word : Word \cup {CHOOSE x \in Word : TRUE}]]
        /\ \A g \in Editor \ {h} : edit'[g] = edit[g]
    <3>1. [at |-> "save"] \in [at : {"idle", "save"}]
      OBVIOUS
    <3> QED
      BY <1>2, <1>7, <3>1
  <2>2. \A g \in Filter \ {f} : InWork(g) => InWork(g)'
    BY <1>1, <1>10, <2>1 DEF InWork
  <2>3. RegexOf(f)' = RegexOf(f)
    BY <1>1, <1>7 DEF RegexOf, Compiles
  <2> HIDE DEF w
  <2>4. FTypeOK'
    BY <1>0, <1>1, <1>4, <1>5, <1>7, <2>1 DEF FTypeOK
  <2>5. Compiled'
    <3>1. \A g \in Filter : RegexOf(g)' = RegexOf(g)
      BY <1>1, <1>7 DEF RegexOf, Compiles
    <3>2. filters'[f] = RegexOf(f)'
      BY <1>4, <2>3
    <3> QED
      BY <1>0, <1>1, <1>4, <1>5, <1>7, <2>2, <3>1, <3>2 DEF Compiled
  <2> QED
    BY <2>4, <2>5 DEF FSound
<1> QED
  BY <1>1, <1>6, <1>7

LEMMA SaveFiltersIsSound == ASSUME FSound, NEW h \in Editor, SaveFilters(h) PROVE FSound'
<1>0. FTypeOK /\ Compiled
  BY DEF FSound
<1>1. /\ edit[h].at = "save" /\ edit' = [edit EXCEPT ![h] = [at |-> "idle"]]
      /\ UNCHANGED <<exists, words, template, excluded, quiet, filters, stale>>
      /\ \/ stored' = stored
         \/ stored' = [exists |-> exists, words |-> words, template |-> template, excluded |-> excluded, quiet |-> quiet]
  BY DEF SaveFilters, config, Settings, Resting
<1>2. /\ edit' \in [Editor -> [at : {"idle", "save"}]
                              \cup [at : {"clear", "compile"}, filter : Filter,
                                    word : Word \cup {CHOOSE w \in Word : TRUE}]]
      /\ \A g \in Editor \ {h} : edit'[g] = edit[g]
  <2>1. [at |-> "idle"] \in [at : {"idle", "save"}]
    OBVIOUS
  <2> QED
    BY <1>0, <1>1, <2>1 DEF FTypeOK
<1>3. \A g \in Filter : InWork(g) => InWork(g)'
  BY <1>1, <1>2 DEF InWork
<1>4. FTypeOK'
  BY <1>0, <1>1, <1>2 DEF FTypeOK
<1>5. Compiled'
  <2>1. stored' = stored \/ (stored'.exists = exists /\ stored'.words = words)
    BY <1>1
  <2> QED
    BY <1>0, <1>1, <1>3, <2>1 DEF Compiled, RegexOf, Compiles
<1> QED
  BY <1>4, <1>5 DEF FSound

LEMMA ReloadIsSound == ASSUME FSound, Reload PROVE FSound'
<1>0. FTypeOK /\ Compiled
  BY DEF FSound
<1>1. /\ exists' = stored.exists /\ words' = stored.words /\ template' = stored.template
      /\ excluded' = stored.excluded /\ quiet' = stored.quiet
      /\ filters' = [f \in Filter |-> IF f \in exists' THEN RegexOf(f)' ELSE NoRegex]
      /\ stale' = {} /\ UNCHANGED <<stored, edit>>
  BY DEF Reload
<1>2. /\ exists' \subseteq Filter /\ words' \in [Filter -> SUBSET Word] /\ template' \in [Filter -> Template]
      /\ excluded' \in [Filter -> SUBSET Room] /\ quiet' \subseteq Filter
  BY <1>0, <1>1 DEF FTypeOK
<1>3. \A f \in Filter : RegexOf(f)' \subseteq Regex
  <2> TAKE f \in Filter
  <2>1. words'[f] \in SUBSET Word /\ template'[f] \in Template
    BY <1>2
  <2> QED
    BY <2>1 DEF RegexOf, Regex, NoRegex
<1>4. filters' \in [Filter -> SUBSET Regex]
  BY <1>1, <1>3 DEF NoRegex
<1>5. FTypeOK'
  BY <1>0, <1>1, <1>2, <1>4 DEF FTypeOK
<1>6. \A f \in Filter : filters'[f] = IF f \in exists' THEN RegexOf(f)' ELSE NoRegex
  BY <1>1
<1>7. Compiled'
  BY <1>0, <1>1, <1>6 DEF Compiled
<1> QED
  BY <1>5, <1>7 DEF FSound

LEMMA FiltersAreSound == FSpec => []FSound
<1>1. FSound /\ [FNext]_fvars => FSound'
  <2> SUFFICES ASSUME FSound, [FNext]_fvars PROVE FSound'
    OBVIOUS
  <2>1. ASSUME NEW t \in Trigger, AddWit(t) \/ RemoveWit(t) PROVE FSound'
    BY <2>1 DEF AddWit, RemoveWit, config, FSound, FTypeOK, Compiled, InWork, RegexOf, Compiles
  <2>2. CASE UNCHANGED fvars
    BY <2>2 DEF fvars, config, FSound, FTypeOK, Compiled, InWork, RegexOf, Compiles
  <2> QED
    BY <2>1, <2>2, SettersAreSound, WordsAreInWork, ClearRegexIsSound, CompileIsSound, SaveFiltersIsSound,
       ReloadIsSound DEF FNext
<1> QED
  BY <1>1, FiltersInit, PTL DEF FSpec

(***************************************************************************)
(* Between commands the compiled filters and the configuration give every   *)
(* message the same verdicts in every channel, for any filters and words,   *)
(* whatever was refused, deleted, restarted or added at the same time       *)
(* before.                                                                  *)
(***************************************************************************)
THEOREM FiltersAlwaysFollow == FSpec => []FiltersFollowConfig
<1>1. FSound => FiltersFollowConfig
  <2> SUFFICES ASSUME FSound, Settled, stale = {}, \A f \in Filter : Compiles(f),
                      NEW message \in SUBSET Word, NEW room \in Room
               PROVE  Verdicts(message, room) = Wanted(message, room)
    BY DEF FiltersFollowConfig
  <2>1. ASSUME NEW f \in Filter
        PROVE  Matches(f, message, room) <=> words[f] \cap message # {} /\ room \notin excluded[f]
    <3>1. ~InWork(f)
      BY DEF Settled, Resting, InWork
    <3>2. filters[f] = RegexOf(f) \/ (words[f] = {} /\ filters[f] = NoRegex)
      BY <3>1 DEF FSound, Compiled
    <3>3. Compiles(f)
      OBVIOUS
    <3>4. (\E regex \in filters[f] : regex.words \cap message # {}) <=> words[f] \cap message # {}
      <4>1. CASE filters[f] = NoRegex /\ words[f] = {}
        BY <4>1 DEF NoRegex
      <4>2. CASE filters[f] = {[words |-> words[f], template |-> template[f]]}
        BY <4>2
      <4> QED
        BY <3>2, <3>3, <4>1, <4>2 DEF RegexOf
    <3> QED
      BY <3>4 DEF Matches
  <2>2. {f \in Filter : Matches(f, message, room)} = {f \in Filter : words[f] \cap message # {} /\ room \notin excluded[f]}
    BY <2>1
  <2> QED
    BY <2>2 DEF Verdicts, Wanted
<1> QED
  BY <1>1, FiltersAreSound, PTL

-----------------------------------------------------------------------------
LEMMA FewerAreUsable == ASSUME NEW set, Usable(set), NEW t PROVE Usable(set \ {t})
BY DEF Usable, Joined, Alone

LEMMA UsableAreAnswered ==
  ASSUME Usable(wits'), UpdateWits(wits')
  PROVE  IF wits' = {} THEN wittyregex' = NoRegex ELSE wittyregex' = {wits'} /\ triggers' = wits'
BY DEF Usable, UpdateWits, Joined, Alone

LEMMA WitsStep == ASSUME Wits, [FNext]_fvars PROVE Wits'
<1>1. ASSUME NEW t \in Trigger, AddWit(t) PROVE Wits'
  <2>1. /\ wits' = IF Usable(wits \cup {t}) THEN wits \cup {t} ELSE wits \ {t}
        /\ UpdateWits(wits') /\ tainted' = tainted
    BY <1>1 DEF AddWit
  <2>2. ~tainted => Usable(wits')
    BY <2>1, FewerAreUsable DEF Wits
  <2> QED
    BY <2>1, <2>2, UsableAreAnswered DEF Wits
<1>2. ASSUME NEW t \in Trigger, RemoveWit(t) PROVE Wits'
  <2>1. wits' = wits \ {t} /\ UpdateWits(wits') /\ tainted' = tainted
    BY <1>2 DEF RemoveWit
  <2>2. ~tainted => Usable(wits')
    BY <2>1, FewerAreUsable DEF Wits
  <2> QED
    BY <2>1, <2>2, UsableAreAnswered DEF Wits
<1>3. CASE Reload
  <2>1. wits' = storedWits /\ UpdateWits(wits') /\ tainted' = ~Usable(wits')
    BY <1>3 DEF Reload
  <2>2. ~tainted' => Usable(wits')
    BY <2>1, Zenon
  <2> QED
    BY <2>1, <2>2, UsableAreAnswered DEF Wits
<1>4. ASSUME UNCHANGED witty PROVE Wits'
  BY <1>4 DEF Wits, witty
<1>5. ASSUME NEW h \in Editor, NEW f \in Filter,
             \/ \E w \in Word : AddFilter(h, f, w) \/ RemoveFilter(h, f, w)
             \/ \E silent \in BOOLEAN, rooms \in SUBSET Room : SetFilter(h, f, silent, rooms)
             \/ \E t \in Template : SetTemplate(h, f, t)
             \/ DeleteFilter(h, f)
      PROVE  UNCHANGED witty
  BY <1>5 DEF AddFilter, RemoveFilter, SetFilter, SetTemplate, DeleteFilter
<1>6. ASSUME NEW h \in Editor, ClearRegex(h) \/ Compile(h) \/ SaveFilters(h) PROVE UNCHANGED witty
  BY <1>6 DEF ClearRegex, Compile, SaveFilters
<1>7. CASE UNCHANGED fvars
  BY <1>4, <1>7 DEF fvars
<1> QED
  BY <1>1, <1>2, <1>3, <1>4, <1>5, <1>6, <1>7 DEF FNext

(***************************************************************************)
(* A refused trigger leaves the others at work, for any set of triggers,    *)
(* those included that compile only among others.                           *)
(***************************************************************************)
THEOREM WitsAlwaysWork == FSpec => []WitsKeepWorking
<1>1. FInit => Wits
  BY DEF FInit, Wits, Usable
<1>2. Wits => WitsKeepWorking
  BY DEF Wits, WitsKeepWorking, Answered, NoRegex
<1> QED
  BY <1>1, <1>2, WitsStep, PTL DEF FSpec
-----------------------------------------------------------------------------
(***************************************************************************)
(* GuildStores.  The types of a configuration and of a command under way.   *)
(***************************************************************************)
Values == UNION {[S -> Int] : S \in SUBSET Name}

Configuration == [items : SUBSET Item, counters : Values,
                  quotes : [User -> Seq(Item)], lines : SUBSET Name,
                  roles : SUBSET Role, modRole : Role \cup {None}, done : BOOLEAN]

Underway == [at : {"idle"}] \cup [at : {"created"}, role : Role]
            \cup [at : {"marshal"}, later : SUBSET Item]
            \cup [at : {"open", "write"}, data : Configuration, later : SUBSET Item]

GTypeOK ==
  /\ stores \in [about : Groups, inTurn : BOOLEAN]
  /\ mem \in Configuration /\ file \in Configuration
  /\ call \in [Caller -> Underway]
  /\ server \subseteq Role /\ deletions \subseteq Role /\ joined \subseteq Role
  /\ condition \in {"whole", "empty", "garbled"} /\ unsaved \in BOOLEAN
  /\ overlapped \in BOOLEAN /\ abandoned \in BOOLEAN /\ cut \in BOOLEAN

Marshalled(c) == call[c].at \in {"open", "write"}
Saving(c) == call[c].at \in {"marshal", "open", "write"}

(* Of commands whose saves do not overlap there is one at a time, so that nobody has *)
(* written what it has truncated.  What it has marshalled is what is in memory, and   *)
(* what a save that did not fail has left in the file, unless !setup has stopped      *)
(* meanwhile.                                                                         *)
SavedInTurn == ~overlapped =>
  /\ \A c, d \in Caller : Saving(c) /\ Saving(d) => c = d
  /\ \A c \in Caller : call[c].at = "write" => condition = "empty"
  /\ (\A c \in Caller : ~Saving(c)) /\ ~unsaved => condition = "whole" /\ (~abandoned => file = mem)
  /\ ~abandoned => \A c \in Caller : Marshalled(c) => call[c].data = mem

(* In turn there is one command, and nothing happens to a role meanwhile. *)
Tidy == stores.inTurn /\ ~cut =>
  /\ \A c, d \in Caller : call[c].at # "idle" /\ call[d].at # "idle" => c = d
  /\ mem.roles \subseteq server \cup deletions
  /\ NoCommand /\ ~unsaved => file.roles \subseteq server \cup deletions
  /\ \A c \in Caller : /\ Marshalled(c) => call[c].data.roles \subseteq server \cup deletions
                       /\ call[c].at = "created" => call[c].role \in server

LEMMA NoValues == [n \in {} |-> 0] \in Values
<1>1. [n \in {} |-> 0] \in [{} -> Int]
  OBVIOUS
<1> QED
  BY <1>1 DEF Values

LEMMA DefaultsAreTyped ==
  ASSUME NEW r \in Role \cup {None} PROVE Defaults(r) \in Configuration /\ Defaults(r).roles = {}
<1> DEFINE v == [n \in {} |-> 0]
           q == [u \in User |-> << >>]
<1>1. q \in [User -> Seq(Item)]
  OBVIOUS
<1>2. Defaults(r) = [items |-> {}, counters |-> v, quotes |-> q, lines |-> {},
                     roles |-> {}, modRole |-> r, done |-> FALSE]
  <2>1. Defaults(r) = [Empty EXCEPT !.counters = v, !.modRole = r]
    BY DEF Defaults
  <2>2. Empty = [items |-> {}, counters |-> << >>, quotes |-> q, lines |-> {},
                 roles |-> {}, modRole |-> None, done |-> FALSE]
    BY DEF Empty
  <2> HIDE DEF v, q
  <2> QED
    BY <2>1, <2>2
<1> HIDE DEF v, q
<1>3. v \in Values
  BY NoValues DEF v
<1> QED
  BY <1>1, <1>2, <1>3 DEF Configuration

LEMMA StoresInit == GInit => GTypeOK /\ SavedInTurn /\ Tidy
<1> SUFFICES ASSUME GInit PROVE GTypeOK /\ SavedInTurn /\ Tidy
  OBVIOUS
<1> DEFINE v == [n \in {} |-> 0]
<1>1. [u \in User |-> << >>] \in [User -> Seq(Item)]
  OBVIOUS
<1>2. mem = [items |-> {}, counters |-> v, quotes |-> [u \in User |-> << >>], lines |-> {},
             roles |-> {}, modRole |-> None, done |-> TRUE] /\ file = mem
  BY DEF GInit, Empty
<1> HIDE DEF v
<1>3. v \in Values
  BY NoValues DEF v
<1>4. mem \in Configuration /\ file \in Configuration
  BY <1>1, <1>2, <1>3 DEF Configuration
<1>5. \A c \in Caller : call[c].at = "idle"
  BY DEF GInit
<1>6. call \in [Caller -> Underway]
  BY DEF GInit, Underway
<1>7. GTypeOK
  BY <1>4, <1>6 DEF GInit, GTypeOK
<1>8. mem.roles = {} /\ file.roles = {}
  BY <1>2
<1> QED
  BY <1>5, <1>7, <1>8 DEF GInit, SavedInTurn, Saving, Marshalled, Tidy

(* SaveConfig is called. *)
LEMMA SaveIsTyped ==
  ASSUME GTypeOK, NEW c \in Caller, NEW new \in Configuration, NEW later \in SUBSET Item,
         SaveAndThen(c, new, later)
  PROVE  /\ mem' \in Configuration /\ call' \in [Caller -> Underway] /\ overlapped' \in BOOLEAN
         /\ mem' = new /\ call'[c] = [at |-> "marshal", later |-> later]
         /\ \A d \in Caller \ {c} : call'[d] = call[d]
<1>1. call \in [Caller -> Underway] /\ overlapped \in BOOLEAN
  BY DEF GTypeOK
<1>2. [at |-> "marshal", later |-> later] \in Underway
  BY DEF Underway
<1> QED
  BY <1>1, <1>2 DEF SaveAndThen

(* What commands that change the configuration do: only roles of the server are *)
(* added to the list.                                                             *)
Kept == UNCHANGED <<stores, json, unsaved, discord, cut>> /\ abandoned' \in {abandoned, FALSE}
Saves(c) == \E new \in Configuration, later \in SUBSET Item :
  /\ SaveAndThen(c, new, later) /\ Kept
  /\ new.roles \subseteq mem.roles \cup server

LEMMA ItemsAreSaved ==
  ASSUME GTypeOK, NEW c \in Caller, NEW i \in Item, Give(c, i) \/ Drop(c, i) PROVE Saves(c)
<1>1. mem \in Configuration
  BY DEF GTypeOK
<1>2. \A S \in SUBSET Item : /\ [mem EXCEPT !.items = S] \in Configuration
                             /\ [mem EXCEPT !.items = S].roles = mem.roles
  BY <1>1 DEF Configuration
<1>3. mem.items \in SUBSET Item
  BY <1>1 DEF Configuration
<1>0. ASSUME NEW S \in SUBSET Item, NEW later \in SUBSET Item, SaveAndThen(c, [mem EXCEPT !.items = S], later),
             Kept
      PROVE  Saves(c)
  BY <1>0, <1>2 DEF Saves
<1>4. CASE Drop(c, i)
  <2>1. SaveAndThen(c, [mem EXCEPT !.items = mem.items \ {i}], {}) /\ Kept
    BY <1>4 DEF Drop, Save, Kept
  <2>2. mem.items \ {i} \in SUBSET Item /\ {} \in SUBSET Item
    BY <1>3
  <2> QED
    BY <1>0, <2>1, <2>2
<1>5. CASE Give(c, i)
  <2>1. Kept
    BY <1>5 DEF Give, Kept
  <2>2. CASE SaveAndThen(c, [mem EXCEPT !.items = mem.items \cup {i}], {})
    <3>1. mem.items \cup {i} \in SUBSET Item /\ {} \in SUBSET Item
      BY <1>3
    <3> QED
      BY <1>0, <2>1, <2>2, <3>1
  <2>3. ASSUME NEW dropped \in mem.items, SaveAndThen(c, [mem EXCEPT !.items = mem.items \ {dropped}], {i})
        PROVE  Saves(c)
    <3>1. mem.items \ {dropped} \in SUBSET Item /\ {i} \in SUBSET Item
      BY <1>3
    <3> QED
      BY <1>0, <2>1, <2>3, <3>1
  <2> QED
    BY <1>5, <2>2, <2>3 DEF Give, Save
<1> QED
  BY <1>4, <1>5

LEMMA CountersAreSaved ==
  ASSUME GTypeOK, NEW c \in Caller, NEW n \in Name,
         AddCounter(c, n) \/ RemoveCounter(c, n) \/ Increment(c, n) \/ Decrement(c, n)
  PROVE  Saves(c)
<1>1. mem \in Configuration /\ Counters \in Values
  BY DEF GTypeOK, Configuration, Counters
<1>2. PICK S \in SUBSET Name : Counters \in [S -> Int]
  BY <1>1 DEF Values
<1>3. \A v \in Values : /\ [mem EXCEPT !.counters = v] \in Configuration
                        /\ [mem EXCEPT !.counters = v].roles = mem.roles
  BY <1>1 DEF Configuration
<1>4. ASSUME NEW v, v \in Values, SaveAndThen(c, [mem EXCEPT !.counters = v], {}),
             Kept
      PROVE  Saves(c)
  <2>1. {} \in SUBSET Item
    OBVIOUS
  <2> QED
    BY <1>3, <1>4, <2>1 DEF Saves
<1>5. CASE AddCounter(c, n)
  <2>1. PICK x \in -1..1 :
          SaveAndThen(c, [mem EXCEPT !.counters = [m \in DOMAIN @ \cup {n} |-> IF m = n THEN x ELSE @[m]]], {})
    BY <1>5 DEF AddCounter, Save
  <2> DEFINE v == [m \in S \cup {n} |-> IF m = n THEN x ELSE Counters[m]]
  <2>2. v \in [S \cup {n} -> Int]
    BY <1>2
  <2>3. v \in Values
    <3> HIDE DEF v
    <3> QED
      BY <2>2 DEF Values
  <2>4. SaveAndThen(c, [mem EXCEPT !.counters = v], {})
    BY <1>2, <2>1 DEF Counters
  <2> HIDE DEF v
  <2> QED
    BY <1>4, <1>5, <2>3, <2>4 DEF AddCounter, Kept
<1>6. CASE RemoveCounter(c, n)
  <2> DEFINE v == [m \in S \ {n} |-> Counters[m]]
  <2>2. v \in [S \ {n} -> Int]
    BY <1>2
  <2>3. v \in Values
    <3> HIDE DEF v
    <3> QED
      BY <2>2 DEF Values
  <2>4. SaveAndThen(c, [mem EXCEPT !.counters = v], {})
    BY <1>2, <1>6 DEF RemoveCounter, Save, Counters
  <2> HIDE DEF v
  <2> QED
    BY <1>4, <1>6, <2>3, <2>4 DEF RemoveCounter, Kept
<1>7. CASE Increment(c, n) \/ Decrement(c, n)
  <2>1. PICK x \in {1, -1} : SaveAndThen(c, [mem EXCEPT !.counters = [Counters EXCEPT ![n] = @ + x]], {})
    <3>1. CASE Increment(c, n)
      BY <3>1 DEF Increment, Save, Counters
    <3>2. CASE Decrement(c, n)
      <4>1. Counters[n] - 1 = Counters[n] + (-1)
        BY <1>2, <3>2 DEF Decrement
      <4>2. SaveAndThen(c, [mem EXCEPT !.counters = [Counters EXCEPT ![n] = @ - 1]], {})
        BY <3>2 DEF Decrement, Save, Counters
      <4>3. [Counters EXCEPT ![n] = @ - 1] = [Counters EXCEPT ![n] = @ + (-1)]
        BY <4>1
      <4> QED
        BY <4>2, <4>3
    <3> QED
      BY <1>7, <3>1, <3>2
  <2> DEFINE v == [Counters EXCEPT ![n] = @ + x]
  <2>2. v \in [S -> Int]
    <3>1. n \in S
      BY <1>2, <1>7 DEF Increment, Decrement
    <3>2. Counters[n] + x \in Int
      BY <1>2, <3>1
    <3> QED
      BY <1>2, <3>1, <3>2
  <2>3. v \in Values
    <3> HIDE DEF v
    <3> QED
      BY <2>2 DEF Values
  <2>4. SaveAndThen(c, [mem EXCEPT !.counters = v], {})
    BY <2>1
  <2> HIDE DEF v
  <2> QED
    BY <1>4, <1>7, <2>3, <2>4 DEF Increment, Decrement, Kept
<1> QED
  BY <1>5, <1>6, <1>7

LEMMA LinesAreSaved ==
  ASSUME GTypeOK, NEW c \in Caller, NEW n \in Name, AddStatus(c, n) \/ RemoveStatus(c, n) PROVE Saves(c)
<1>1. mem \in Configuration /\ mem.lines \in SUBSET Name
  BY DEF GTypeOK, Configuration
<1>2. PICK S \in SUBSET Name : SaveAndThen(c, [mem EXCEPT !.lines = S], {})
  <2>1. mem.lines \cup {n} \in SUBSET Name /\ mem.lines \ {n} \in SUBSET Name
    BY <1>1
  <2> QED
    BY <2>1 DEF AddStatus, RemoveStatus, Save
<1>3. [mem EXCEPT !.lines = S] \in Configuration /\ [mem EXCEPT !.lines = S].roles = mem.roles
  BY <1>1 DEF Configuration
<1>4. Kept /\ {} \in SUBSET Item
  BY DEF AddStatus, RemoveStatus, Kept
<1> QED
  BY <1>2, <1>3, <1>4 DEF Saves

LEMMA QuotesAreSaved ==
  ASSUME GTypeOK, NEW c \in Caller, NEW u \in User,
         (\E text \in Item : AddQuote(c, u, text)) \/ (\E number \in 0..MaxQuotes + 1 : RemoveQuote(c, u, number))
  PROVE  Saves(c)
<1>1. mem \in Configuration /\ mem.quotes \in [User -> Seq(Item)]
  BY DEF GTypeOK, Configuration
<1>2. ASSUME NEW q \in Seq(Item), SaveAndThen(c, [mem EXCEPT !.quotes[u] = q], {}), Kept
      PROVE  Saves(c)
  <2> DEFINE new == [mem EXCEPT !.quotes[u] = q]
  <2>1. new \in Configuration /\ new.roles = mem.roles
    BY <1>1 DEF Configuration
  <2>2. {} \in SUBSET Item
    OBVIOUS
  <2> HIDE DEF new
  <2> QED
    BY <1>2, <2>1, <2>2 DEF Saves, new
<1>3. ASSUME NEW text \in Item, AddQuote(c, u, text) PROVE Saves(c)
  <2>1. Append(mem.quotes[u], text) \in Seq(Item)
    BY <1>1
  <2>2. SaveAndThen(c, [mem EXCEPT !.quotes[u] = Append(mem.quotes[u], text)], {}) /\ Kept
    BY <1>3 DEF AddQuote, Save, Kept
  <2> QED
    BY <1>2, <2>1, <2>2
<1>4. ASSUME NEW number \in 0..MaxQuotes + 1, RemoveQuote(c, u, number) PROVE Saves(c)
  <2> DEFINE q == mem.quotes[u]
             index == number - 1
  <2>1. q \in Seq(Item) /\ Len(q) \in Nat /\ number \in Int
    BY <1>1
  <2>2. index < Len(q) /\ index >= 0
    BY <1>4 DEF RemoveQuote
  <2> HIDE DEF q
  <2>3. SubSeq(q, 1, (index + 1) - 1) \in Seq(Item) /\ SubSeq(q, (index + 1) + 1, Len(q)) \in Seq(Item)
    BY <2>1, <2>2
  <2>4. RemoveAt(q, index + 1) \in Seq(Item)
    BY <2>3 DEF RemoveAt
  <2>5. SaveAndThen(c, [mem EXCEPT !.quotes[u] = RemoveAt(q, index + 1)], {}) /\ Kept
    BY <1>4 DEF RemoveQuote, Save, Kept, q
  <2> QED
    BY <1>2, <2>4, <2>5
<1> QED
  BY <1>3, <1>4

LEMMA RolesAreSaved ==
  ASSUME GTypeOK, NEW c \in Caller, NEW r \in Role, AddRole(c, r) \/ RemoveRole(c, r) PROVE Saves(c)
<1>1. mem \in Configuration /\ mem.roles \in SUBSET Role /\ server \in SUBSET Role
  BY DEF GTypeOK, Configuration
<1>2. PICK S \in SUBSET Role : S \subseteq mem.roles \cup server /\ SaveAndThen(c, [mem EXCEPT !.roles = S], {})
  <2>1. CASE AddRole(c, r)
    <3>1. SaveAndThen(c, [mem EXCEPT !.roles = mem.roles \cup {r}], {}) /\ r \in server
      BY <2>1 DEF AddRole, Save
    <3> QED
      BY <1>1, <3>1
  <2>2. CASE RemoveRole(c, r)
    <3>1. SaveAndThen(c, [mem EXCEPT !.roles = mem.roles \ {r}], {})
      BY <2>2 DEF RemoveRole, Save
    <3> QED
      BY <1>1, <3>1
  <2> QED
    BY <2>1, <2>2
<1>3. [mem EXCEPT !.roles = S] \in Configuration /\ [mem EXCEPT !.roles = S].roles = S
  BY <1>1 DEF Configuration
<1>4. Kept /\ {} \in SUBSET Item
  BY DEF AddRole, RemoveRole, Kept
<1> QED
  BY <1>2, <1>3, <1>4 DEF Saves

LEMMA SetupIsSaved ==
  ASSUME GTypeOK, NEW c \in Caller, NEW r \in Role, Setup(c, r) \/ SetModRole(c, r) PROVE Saves(c)
<1>1. mem \in Configuration /\ Defaults(r) \in Configuration /\ Defaults(r).roles = {}
  BY DefaultsAreTyped DEF GTypeOK
<1>2. PICK new \in Configuration : new.roles \subseteq mem.roles /\ SaveAndThen(c, new, {})
  <2>1. CASE Setup(c, r)
    <3>1. SaveAndThen(c, [Defaults(r) EXCEPT !.done = TRUE], {})
      BY <2>1 DEF Setup, Save
    <3>2. [Defaults(r) EXCEPT !.done = TRUE] \in Configuration /\ [Defaults(r) EXCEPT !.done = TRUE].roles = {}
      BY <1>1 DEF Configuration
    <3> QED
      BY <3>1, <3>2
  <2>2. CASE SetModRole(c, r)
    <3>1. SaveAndThen(c, [mem EXCEPT !.modRole = r], {})
      BY <2>2 DEF SetModRole, Save
    <3>2. [mem EXCEPT !.modRole = r] \in Configuration /\ [mem EXCEPT !.modRole = r].roles = mem.roles
      BY <1>1 DEF Configuration
    <3> QED
      BY <3>1, <3>2
  <2> QED
    BY <2>1, <2>2
<1>4. Kept /\ {} \in SUBSET Item
  BY DEF Setup, SetModRole, Kept
<1> QED
  BY <1>2, <1>4 DEF Saves

Begins(c) == call[c].at = "idle" /\ (stores.inTurn => NoCommand)

(* What changes nothing but Discord's side, where a deleted role is one to hear of. *)
Elsewhere ==
  /\ stores.inTurn => NoCommand
  /\ UNCHANGED <<stores, mem, json, unsaved, call, overlapped, abandoned, cut>>
  /\ server' \subseteq Role /\ deletions' \subseteq Role /\ joined' \subseteq Role
  /\ server \cup deletions \subseteq server' \cup deletions'

LEMMA StepKinds ==
  ASSUME GTypeOK, GNext
  PROVE  \/ \E c \in Caller : \/ Saves(c) /\ Begins(c)
                              \/ Marshal(c) \/ Open(c) \/ Write(c) \/ Created(c) \/ SetupFails(c)
                              \/ \E r \in Role : CreateRole(c, r) \/ RoleDeleted(c, r)
         \/ Elsewhere \/ Reread
<1> DEFINE Goal == \/ \E c \in Caller : \/ Saves(c) /\ Begins(c)
                                        \/ Marshal(c) \/ Open(c) \/ Write(c) \/ Created(c) \/ SetupFails(c)
                                        \/ \E r \in Role : CreateRole(c, r) \/ RoleDeleted(c, r)
                   \/ Elsewhere \/ Reread
<1>0. server \subseteq Role /\ deletions \subseteq Role /\ joined \subseteq Role
  BY DEF GTypeOK
<1>1. ASSUME NEW c \in Caller, NEW store, Call(c, store) PROVE Begins(c)
  BY <1>1 DEF Call, Begins
<1>2. ASSUME NEW c \in Caller, NEW i \in Item, Give(c, i) \/ Drop(c, i) PROVE Goal
  <2>1. Begins(c)
    BY <1>1, <1>2 DEF Give, Drop
  <2> QED
    BY <1>2, <2>1, ItemsAreSaved
<1>3. ASSUME NEW c \in Caller, NEW n \in Name,
             \/ AddCounter(c, n) \/ RemoveCounter(c, n) \/ Increment(c, n) \/ Decrement(c, n)
             \/ AddStatus(c, n) \/ RemoveStatus(c, n)
      PROVE  Goal
  <2>1. Begins(c)
    BY <1>1, <1>3 DEF AddCounter, RemoveCounter, Increment, Decrement, AddStatus, RemoveStatus
  <2>2. Saves(c)
    BY <1>3, CountersAreSaved, LinesAreSaved
  <2> QED
    BY <2>1, <2>2
<1>4. ASSUME NEW c \in Caller, NEW u \in User,
             (\E text \in Item : AddQuote(c, u, text)) \/ (\E number \in 0..MaxQuotes + 1 : RemoveQuote(c, u, number))
      PROVE  Goal
  <2>1. Begins(c)
    BY <1>1, <1>4 DEF AddQuote, RemoveQuote
  <2> QED
    BY <1>4, <2>1, QuotesAreSaved
<1>5. ASSUME NEW c \in Caller, NEW r \in Role, AddRole(c, r) \/ RemoveRole(c, r) \/ Setup(c, r) \/ SetModRole(c, r)
      PROVE  Goal
  <2>1. Begins(c)
    BY <1>1, <1>5 DEF AddRole, RemoveRole, Setup, SetModRole
  <2>2. Saves(c)
    BY <1>5, RolesAreSaved, SetupIsSaved
  <2> QED
    BY <2>1, <2>2
<1>6. ASSUME NEW c \in Caller, Engage(c) PROVE Goal
  <2>1. Begins(c)
    BY <1>1, <1>6 DEF Engage
  <2>2. Elsewhere
    BY <1>0, <1>6, <2>1 DEF Engage, NoSave, discord, Begins, Elsewhere
  <2> QED
    BY <2>2
<1>7. ASSUME NEW c \in Caller, Fight(c) PROVE Goal
  <2>1. Begins(c)
    BY <1>1, <1>7 DEF Fight
  <2>2. CASE NoSave
    <3>1. Elsewhere
      BY <1>0, <1>7, <2>1, <2>2 DEF Fight, NoSave, discord, Begins, Elsewhere
    <3> QED
      BY <3>1
  <2>3. ASSUME NEW thrown \in mem.items, Save(c, [mem EXCEPT !.items = mem.items \ {thrown}]) PROVE Goal
    <3>1. mem \in Configuration /\ mem.items \ {thrown} \in SUBSET Item /\ {} \in SUBSET Item
      BY DEF GTypeOK, Configuration
    <3>2. /\ [mem EXCEPT !.items = mem.items \ {thrown}] \in Configuration
          /\ [mem EXCEPT !.items = mem.items \ {thrown}].roles = mem.roles
      BY <3>1 DEF Configuration
    <3>3. Kept
      BY <1>7 DEF Fight, Kept
    <3>4. Saves(c)
      BY <2>3, <3>1, <3>2, <3>3 DEF Save, Saves
    <3> QED
      BY <2>1, <3>4
  <2>4. NoSave \/ \E thrown \in mem.items : Save(c, [mem EXCEPT !.items = mem.items \ {thrown}])
    BY <1>7 DEF Fight
  <2> QED
    BY <2>2, <2>3, <2>4
<1>8. ASSUME NEW c \in Caller, NEW r \in Role, DeleteRole(c, r) \/ LeaveRole(c, r) PROVE Goal
  <2>1. Begins(c)
    BY <1>1, <1>8 DEF DeleteRole, LeaveRole
  <2>2. Elsewhere
    BY <1>0, <1>8, <2>1 DEF DeleteRole, LeaveRole, NoSave, Begins, Elsewhere
  <2> QED
    BY <2>2
<1>9. ASSUME NEW c \in Caller, NEW rs \in SUBSET Role, JoinRole(c, rs) PROVE Goal
  <2>1. Begins(c)
    BY <1>1, <1>9 DEF JoinRole
  <2>2. Elsewhere
    BY <1>0, <1>9, <2>1 DEF JoinRole, NoSave, Begins, Elsewhere
  <2> QED
    BY <2>2
<1>10. ASSUME NEW r \in Role, DeletedByHand(r) PROVE Goal
  <2>1. Elsewhere
    BY <1>0, <1>10 DEF DeletedByHand, Elsewhere
  <2> QED
    BY <2>1
<1>11. ASSUME NEW c \in Caller, NEW r \in Role, CreateRole(c, r) \/ RoleDeleted(c, r) PROVE Goal
  BY <1>11
<1>12. ASSUME NEW c \in Caller, Marshal(c) \/ Open(c) \/ Write(c) \/ Created(c) \/ SetupFails(c) PROVE Goal
  BY <1>12
<1> HIDE DEF Goal
<1>13. Reread => Goal
  BY DEF Goal
<1>14. Goal
  BY <1>2, <1>3, <1>4, <1>5, <1>6, <1>7, <1>8, <1>9, <1>10, <1>11, <1>12, <1>13 DEF GNext
<1> QED
  BY <1>14 DEF Goal

GSound == GTypeOK /\ SavedInTurn /\ Tidy

(* Somebody begins to save. *)
LEMMA SaveKeepsOrder ==
  ASSUME GTypeOK, NEW c \in Caller, NEW new \in Configuration, NEW later \in SUBSET Item,
         SaveAndThen(c, new, later)
  PROVE  SavedInTurn'
<1>1. /\ call'[c] = [at |-> "marshal", later |-> later]
      /\ \A d \in Caller \ {c} : call'[d] = call[d]
  BY SaveIsTyped
<1>2. ~overlapped' => \A d \in Caller \ {c} : call'[d].at = "idle"
  BY <1>1 DEF SaveAndThen
<1> QED
  BY <1>1, <1>2 DEF SavedInTurn, Saving, Marshalled

LEMMA SaveKeepsTidy ==
  ASSUME GTypeOK, NEW c \in Caller, NEW new \in Configuration, NEW later \in SUBSET Item,
         SaveAndThen(c, new, later),
         stores'.inTurn /\ ~cut' => /\ new.roles \subseteq server' \cup deletions'
                                    /\ \A d \in Caller \ {c} : call[d].at = "idle"
  PROVE  Tidy'
<1>1. /\ call'[c] = [at |-> "marshal", later |-> later] /\ mem' = new
      /\ \A d \in Caller \ {c} : call'[d] = call[d]
  BY SaveIsTyped
<1> QED
  BY <1>1 DEF Tidy, NoCommand, Marshalled

LEMMA SavesAreSound == ASSUME GSound, NEW c \in Caller, Saves(c), Begins(c) PROVE GSound'
<1>1. PICK new \in Configuration, later \in SUBSET Item :
        SaveAndThen(c, new, later) /\ Kept /\ new.roles \subseteq mem.roles \cup server
  BY DEF Saves
<1>2. GTypeOK /\ Tidy
  BY DEF GSound
<1>3. GTypeOK'
  <2>1. mem' \in Configuration /\ call' \in [Caller -> Underway] /\ overlapped' \in BOOLEAN
    BY <1>1, <1>2, SaveIsTyped
  <2> QED
    BY <1>1, <1>2, <2>1 DEF GTypeOK, Kept, discord, json
<1>4. stores'.inTurn /\ ~cut' => /\ new.roles \subseteq server' \cup deletions'
                                 /\ \A d \in Caller \ {c} : call[d].at = "idle"
  <2>1. stores' = stores /\ cut' = cut /\ server' = server /\ deletions' = deletions
    BY <1>1 DEF Kept, discord, json
  <2> QED
    BY <1>1, <1>2, <2>1 DEF Tidy, Begins, NoCommand
<1>5. SavedInTurn' /\ Tidy'
  BY <1>1, <1>2, <1>4, SaveKeepsOrder, SaveKeepsTidy
<1> QED
  BY <1>3, <1>5 DEF GSound

LEMMA ElsewhereIsSound == ASSUME GSound, Elsewhere PROVE GSound'
<1> USE DEF GSound
<1>1. GTypeOK'
  BY DEF GTypeOK, Elsewhere, json
<1>2. SavedInTurn'
  BY DEF SavedInTurn, Saving, Marshalled, Elsewhere, json
<1>3. Tidy'
  BY DEF Tidy, NoCommand, Marshalled, Elsewhere, json
<1> QED
  BY <1>1, <1>2, <1>3

(* A command goes on, with r in place of what it was. *)
LEMMA CallBecomes ==
  ASSUME GTypeOK, NEW c \in Caller, NEW r \in Underway, call' = [call EXCEPT ![c] = r]
  PROVE  call' \in [Caller -> Underway] /\ call'[c] = r /\ \A d \in Caller \ {c} : call'[d] = call[d]
BY DEF GTypeOK

(* SaveConfig returns: what it left in the file is still to be said. *)
LEMMA GoesOn ==
  ASSUME GTypeOK, NEW c \in Caller, Saving(c), GoOn(c)
  PROVE  /\ mem' \in Configuration /\ mem'.roles = mem.roles /\ call' \in [Caller -> Underway]
         /\ \A d \in Caller \ {c} : call'[d] = call[d]
         /\ \/ call'[c].at = "idle" /\ mem' = mem
            \/ call'[c].at = "marshal"
<1>1. call \in [Caller -> Underway] /\ mem \in Configuration
  BY DEF GTypeOK
<1>2. call[c].later \in SUBSET Item
  BY <1>1 DEF Underway, Saving
<1>3. CASE call[c].later = {}
  <2>1. call' = [call EXCEPT ![c] = [at |-> "idle"]] /\ mem' = mem
    BY <1>3 DEF GoOn
  <2>2. [at |-> "idle"] \in Underway
    BY DEF Underway
  <2> QED
    BY <1>1, <2>1, <2>2
<1>4. CASE call[c].later # {}
  <2> DEFINE new == [mem EXCEPT !.items = mem.items \cup call[c].later]
             r == [at |-> "marshal", later |-> {}]
  <2>1. call' = [call EXCEPT ![c] = r] /\ mem' = new
    BY <1>4 DEF GoOn
  <2>2. r \in Underway /\ r.at = "marshal"
    BY DEF Underway
  <2>3. new \in Configuration /\ new.roles = mem.roles
    BY <1>1, <1>2 DEF Configuration
  <2> HIDE DEF new, r
  <2>4. call' \in [Caller -> Underway] /\ call'[c] = r /\ \A d \in Caller \ {c} : call'[d] = call[d]
    BY <2>1, <2>2, CallBecomes
  <2> QED
    BY <2>1, <2>2, <2>3, <2>4
<1> QED
  BY <1>3, <1>4

LEMMA FailIsSound ==
  ASSUME GSound, NEW c \in Caller, Saving(c), Fail(c), file' = file,
         condition' \in {"whole", "empty", "garbled"}, condition' = condition \/ call[c].at = "write",
         UNCHANGED <<stores, discord, overlapped, abandoned, cut>>
  PROVE  GSound'
<1>0. GTypeOK /\ SavedInTurn /\ Tidy /\ unsaved' = TRUE
      /\ UNCHANGED <<stores, file, server, deletions, joined, overlapped, abandoned, cut>>
  BY DEF GSound, Fail, discord
<1>1. /\ mem' \in Configuration /\ mem'.roles = mem.roles /\ call' \in [Caller -> Underway]
      /\ \A d \in Caller \ {c} : call'[d] = call[d]
      /\ call'[c].at \in {"idle", "marshal"}
  BY <1>0, GoesOn DEF Fail
<1>2. GTypeOK'
  BY <1>0, <1>1 DEF GTypeOK
<1>3. SavedInTurn'
  BY <1>0, <1>1 DEF SavedInTurn, Saving, Marshalled
<1>4. Tidy'
  BY <1>0, <1>1 DEF Tidy, NoCommand, Saving, Marshalled
<1> QED
  BY <1>2, <1>3, <1>4 DEF GSound

LEMMA MarshalIsSound == ASSUME GSound, NEW c \in Caller, Marshal(c) PROVE GSound'
<1> DEFINE r == [at |-> "open", data |-> mem, later |-> call[c].later]
<1>0. GTypeOK /\ SavedInTurn /\ Tidy
  BY DEF GSound
<1>1. /\ call[c].at = "marshal" /\ call \in [Caller -> Underway] /\ mem \in Configuration
      /\ UNCHANGED <<stores, file, condition, server, deletions, joined, overlapped, abandoned, cut>>
  BY <1>0 DEF Marshal, discord, json, GTypeOK
<1>2. CASE Fail(c)
  <2>1. condition' \in {"whole", "empty", "garbled"}
    BY <1>0, <1>1 DEF GTypeOK
  <2> QED
    BY <1>1, <1>2, <2>1, FailIsSound DEF Saving, discord
<1>3. CASE call' = [call EXCEPT ![c] = r] /\ UNCHANGED <<mem, unsaved>>
  <2>1. r \in Underway
    <3>1. call[c].later \in SUBSET Item
      BY <1>1 DEF Underway
    <3> QED
      BY <1>1, <3>1 DEF Underway
  <2>2. r.at = "open" /\ r.data = mem
    OBVIOUS
  <2> HIDE DEF r
  <2>3. call' \in [Caller -> Underway] /\ call'[c] = r /\ \A d \in Caller \ {c} : call'[d] = call[d]
    BY <1>0, <1>3, <2>1, CallBecomes
  <2>4. GTypeOK'
    BY <1>0, <1>1, <1>3, <2>3 DEF GTypeOK
  <2>5. SavedInTurn'
    BY <1>0, <1>1, <1>3, <2>2, <2>3 DEF SavedInTurn, Saving, Marshalled
  <2>6. Tidy'
    BY <1>0, <1>1, <1>3, <2>2, <2>3 DEF Tidy, NoCommand, Marshalled
  <2> QED
    BY <2>4, <2>5, <2>6 DEF GSound
<1> QED
  BY <1>2, <1>3 DEF Marshal

LEMMA OpenIsSound == ASSUME GSound, NEW c \in Caller, Open(c) PROVE GSound'
<1>0. GTypeOK /\ SavedInTurn /\ Tidy
  BY DEF GSound
<1>1. /\ call[c].at = "open" /\ call \in [Caller -> Underway]
      /\ UNCHANGED <<stores, file, server, deletions, joined, overlapped, abandoned, cut>>
  BY <1>0 DEF Open, discord, GTypeOK
<1>2. CASE UNCHANGED condition /\ Fail(c)
  <2>1. condition' \in {"whole", "empty", "garbled"}
    BY <1>0, <1>2 DEF GTypeOK
  <2> QED
    BY <1>1, <1>2, <2>1, FailIsSound DEF Saving, discord
<1>3. CASE condition' = "empty" /\ call' = [call EXCEPT ![c].at = "write"] /\ UNCHANGED <<mem, unsaved>>
  <2>1. PICK r \in Underway : r.at = "write" /\ r.data = call[c].data /\ call' = [call EXCEPT ![c] = r]
    <3> DEFINE q == [call[c] EXCEPT !.at = "write"]
    <3>1. q \in Underway /\ q.at = "write" /\ q.data = call[c].data
      BY <1>1 DEF Underway
    <3>2. call' = [call EXCEPT ![c] = q]
      BY <1>3
    <3> QED
      BY <3>1, <3>2
  <2>2. call' \in [Caller -> Underway] /\ call'[c] = r /\ \A d \in Caller \ {c} : call'[d] = call[d]
    BY <1>0, <2>1, CallBecomes
  <2>3. GTypeOK'
    BY <1>0, <1>1, <1>3, <2>2 DEF GTypeOK
  <2>4. SavedInTurn'
    BY <1>0, <1>1, <1>3, <2>1, <2>2 DEF SavedInTurn, Saving, Marshalled
  <2>5. Tidy'
    BY <1>0, <1>1, <1>3, <2>1, <2>2 DEF Tidy, NoCommand, Marshalled
  <2> QED
    BY <2>3, <2>4, <2>5 DEF GSound
<1> QED
  BY <1>2, <1>3 DEF Open

LEMMA WriteIsSound == ASSUME GSound, NEW c \in Caller, Write(c) PROVE GSound'
<1>0. GTypeOK /\ SavedInTurn /\ Tidy
  BY DEF GSound
<1>1. /\ call[c].at = "write" /\ call \in [Caller -> Underway]
      /\ UNCHANGED <<stores, server, deletions, joined, overlapped, abandoned, cut>>
  BY <1>0 DEF Write, discord, GTypeOK
<1>2. CASE WriteFails(c) /\ Fail(c)
  <2>1. condition' \in {"whole", "empty", "garbled"} /\ file' = file
    BY <1>0, <1>2 DEF GTypeOK, WriteFails
  <2> QED
    BY <1>1, <1>2, <2>1, FailIsSound DEF Saving, discord
<1>3. CASE Written(c) /\ GoOn(c)
  <2>1. /\ file' = call[c].data /\ unsaved' = FALSE /\ condition' \in {"whole", "garbled"}
        /\ (condition = "empty" => condition' = "whole")
    BY <1>3 DEF Written
  <2>2. call[c].data \in Configuration
    BY <1>1 DEF Underway
  <2>3. /\ mem' \in Configuration /\ mem'.roles = mem.roles /\ call' \in [Caller -> Underway]
        /\ \A d \in Caller \ {c} : call'[d] = call[d]
        /\ \/ call'[c].at = "idle" /\ mem' = mem
           \/ call'[c].at = "marshal"
    BY <1>0, <1>1, <1>3, GoesOn DEF Saving
  <2>4. GTypeOK'
    BY <1>0, <1>1, <2>1, <2>2, <2>3 DEF GTypeOK
  <2>5. SavedInTurn'
    BY <1>0, <1>1, <2>1, <2>3 DEF SavedInTurn, Saving, Marshalled
  <2>6. Tidy'
    BY <1>0, <1>1, <2>1, <2>3 DEF Tidy, NoCommand, Marshalled
  <2> QED
    BY <2>4, <2>5, <2>6 DEF GSound
<1> QED
  BY <1>2, <1>3 DEF Write

LEMMA CreateRoleIsSound == ASSUME GSound, NEW c \in Caller, NEW r \in Role, CreateRole(c, r) PROVE GSound'
<1> DEFINE new == [at |-> "created", role |-> r]
<1>0. GTypeOK /\ SavedInTurn /\ Tidy
  BY DEF GSound
<1>1. /\ call[c].at = "idle" /\ (stores.inTurn => NoCommand) /\ call \in [Caller -> Underway]
      /\ server' = server \cup {r} /\ call' = [call EXCEPT ![c] = new]
      /\ UNCHANGED <<stores, mem, json, unsaved, deletions, joined, overlapped, abandoned, cut>>
  BY <1>0 DEF CreateRole, Call, GTypeOK
<1>2. new \in Underway /\ new.at = "created" /\ new.role = r
  BY DEF Underway
<1> HIDE DEF new
<1>3. call' \in [Caller -> Underway] /\ call'[c] = new /\ \A d \in Caller \ {c} : call'[d] = call[d]
  BY <1>1, <1>2
<1>4. GTypeOK'
  BY <1>0, <1>1, <1>3 DEF GTypeOK, json
<1>5. SavedInTurn'
  BY <1>0, <1>1, <1>2, <1>3 DEF SavedInTurn, Saving, Marshalled, json
<1>6. Tidy'
  BY <1>0, <1>1, <1>2, <1>3 DEF Tidy, NoCommand, Marshalled
<1> QED
  BY <1>4, <1>5, <1>6 DEF GSound

LEMMA CreatedIsSound == ASSUME GSound, NEW c \in Caller, Created(c) PROVE GSound'
<1> DEFINE new == [mem EXCEPT !.roles = mem.roles \cup {call[c].role}]
<1>0. GTypeOK /\ SavedInTurn /\ Tidy
  BY DEF GSound
<1>1. /\ call[c].at = "created" /\ call \in [Caller -> Underway] /\ mem \in Configuration
      /\ SaveAndThen(c, new, {})
      /\ UNCHANGED <<stores, json, unsaved, server, deletions, joined, abandoned, cut>>
  BY <1>0 DEF Created, Save, discord, GTypeOK
<1>2. call[c].role \in Role
  BY <1>1 DEF Underway
<1>3. new \in Configuration /\ new.roles = mem.roles \cup {call[c].role} /\ {} \in SUBSET Item
  BY <1>1, <1>2 DEF Configuration
<1> HIDE DEF new
<1>4. GTypeOK'
  <2>1. mem' \in Configuration /\ call' \in [Caller -> Underway] /\ overlapped' \in BOOLEAN
    BY <1>0, <1>1, <1>3, SaveIsTyped
  <2> QED
    BY <1>0, <1>1, <2>1 DEF GTypeOK, json
<1>5. stores'.inTurn /\ ~cut' => /\ new.roles \subseteq server' \cup deletions'
                                 /\ \A d \in Caller \ {c} : call[d].at = "idle"
  BY <1>0, <1>1, <1>3 DEF Tidy, Marshalled
<1>6. SavedInTurn' /\ Tidy'
  BY <1>0, <1>1, <1>3, <1>5, SaveKeepsOrder, SaveKeepsTidy
<1> QED
  BY <1>4, <1>6 DEF GSound

LEMMA RoleDeletedIsSound == ASSUME GSound, NEW c \in Caller, NEW r \in Role, RoleDeleted(c, r) PROVE GSound'
<1> DEFINE new == [mem EXCEPT !.roles = mem.roles \ {r}]
<1>0. GTypeOK /\ SavedInTurn /\ Tidy
  BY DEF GSound
<1>1. /\ (stores.inTurn => NoCommand) /\ call \in [Caller -> Underway] /\ mem \in Configuration
      /\ SaveAndThen(c, new, {}) /\ deletions' = deletions \ {r}
      /\ UNCHANGED <<stores, json, unsaved, server, joined, abandoned, cut>>
  BY <1>0 DEF RoleDeleted, Save, GTypeOK
<1>3. new \in Configuration /\ new.roles = mem.roles \ {r} /\ {} \in SUBSET Item
  BY <1>1 DEF Configuration
<1> HIDE DEF new
<1>4. GTypeOK'
  <2>1. mem' \in Configuration /\ call' \in [Caller -> Underway] /\ overlapped' \in BOOLEAN
    BY <1>0, <1>1, <1>3, SaveIsTyped
  <2> QED
    BY <1>0, <1>1, <2>1 DEF GTypeOK, json
<1>5. stores'.inTurn /\ ~cut' => /\ new.roles \subseteq server' \cup deletions'
                                 /\ \A d \in Caller \ {c} : call[d].at = "idle"
  BY <1>0, <1>1, <1>3 DEF Tidy, NoCommand, Marshalled
<1>6. SavedInTurn' /\ Tidy'
  BY <1>0, <1>1, <1>3, <1>5, SaveKeepsOrder, SaveKeepsTidy
<1> QED
  BY <1>4, <1>6 DEF GSound

LEMMA SetupFailsIsSound == ASSUME GSound, NEW c \in Caller, SetupFails(c) PROVE GSound'
<1>0. GTypeOK /\ SavedInTurn /\ Tidy
  BY DEF GSound
<1>1. /\ (stores.inTurn => NoCommand) /\ abandoned' = TRUE
      /\ UNCHANGED <<stores, json, unsaved, call, server, deletions, joined, overlapped, cut>>
  BY DEF SetupFails, Call, discord
<1>2. mem' \in Configuration /\ mem'.roles \subseteq mem.roles
  <2>1. PICK r \in Role \cup {None} : mem' = IF mem.done THEN Defaults(r) ELSE [mem EXCEPT !.modRole = r]
    BY DEF SetupFails
  <2>2. Defaults(r) \in Configuration /\ Defaults(r).roles = {}
    BY DefaultsAreTyped
  <2>3. mem \in Configuration
    BY <1>0 DEF GTypeOK
  <2>4. [mem EXCEPT !.modRole = r] \in Configuration /\ [mem EXCEPT !.modRole = r].roles = mem.roles
    BY <2>3 DEF Configuration
  <2> QED
    BY <2>1, <2>2, <2>4
<1>3. GTypeOK'
  BY <1>0, <1>1, <1>2 DEF GTypeOK, json
<1>4. SavedInTurn'
  BY <1>0, <1>1 DEF SavedInTurn, Saving, Marshalled, json
<1>5. Tidy'
  BY <1>0, <1>1, <1>2 DEF Tidy, NoCommand, Marshalled, json
<1> QED
  BY <1>3, <1>4, <1>5 DEF GSound

LEMMA RereadIsSound == ASSUME GSound, Reread PROVE GSound'
<1>0. GTypeOK /\ Tidy
  BY DEF GSound
<1>1. /\ mem' = IF condition = "whole" THEN file ELSE Defaults(None)
      /\ unsaved' = (condition # "whole") /\ overlapped' = FALSE /\ abandoned' = FALSE
      /\ deletions' = {} /\ cut' = (cut \/ deletions # {} \/ ~NoCommand \/ unsaved)
      /\ UNCHANGED <<stores, file, condition, server, joined>> /\ call' = [c \in Caller |-> [at |-> "idle"]]
  BY DEF Reread, json
<1>2. [at |-> "idle"] \in Underway
  BY DEF Underway
<1>3. call' \in [Caller -> Underway] /\ \A c \in Caller : call'[c].at = "idle"
  BY <1>1, <1>2
<1>4. cut' \in BOOLEAN /\ (~cut' => ~cut /\ deletions = {} /\ NoCommand /\ ~unsaved)
  <2>1. cut \in BOOLEAN /\ unsaved \in BOOLEAN
    BY <1>0 DEF GTypeOK
  <2> QED
    BY <1>1, <2>1, Zenon
<1>5. Defaults(None) \in Configuration /\ Defaults(None).roles = {}
  BY DefaultsAreTyped
<1>6. mem' \in Configuration /\ (condition = "whole" => mem' = file) /\ (condition # "whole" => mem'.roles = {})
  BY <1>0, <1>1, <1>5 DEF GTypeOK
<1>7. unsaved' \in BOOLEAN /\ (unsaved' <=> condition # "whole")
  BY <1>1, Zenon
<1>8. GTypeOK'
  BY <1>0, <1>1, <1>3, <1>4, <1>6, <1>7 DEF GTypeOK
<1>9. SavedInTurn'
  BY <1>1, <1>3, <1>6, <1>7 DEF SavedInTurn, Saving, Marshalled
<1>10. Tidy'
  BY <1>0, <1>1, <1>3, <1>4, <1>6 DEF Tidy, Marshalled
<1> QED
  BY <1>8, <1>9, <1>10 DEF GSound

LEMMA StoresAreSound == GSpec => []GSound
<1>1. GInit => GSound
  BY StoresInit DEF GSound
<1>2. GSound /\ [GNext]_gvars => GSound'
  <2> SUFFICES ASSUME GSound, [GNext]_gvars PROVE GSound'
    OBVIOUS
  <2>1. CASE GNext
    <3>1. GTypeOK
      BY DEF GSound
    <3> QED
      BY <2>1, <3>1, StepKinds, SavesAreSound, ElsewhereIsSound, MarshalIsSound, OpenIsSound, WriteIsSound, CreatedIsSound,
         CreateRoleIsSound, RoleDeletedIsSound, SetupFailsIsSound, RereadIsSound
  <2>2. CASE UNCHANGED gvars
    BY <2>2 DEF gvars, discord, GSound, GTypeOK, SavedInTurn, Saving, Marshalled, Tidy, NoCommand, json
  <2> QED
    BY <2>1, <2>2
<1> QED
  BY <1>1, <1>2, PTL DEF GSpec

(* The configuration keeps the shape of BotConfig whichever commands change it. *)
THEOREM StoresTypeCorrect == GSpec => []GTypeOK
<1>1. GSound => GTypeOK
  BY DEF GSound
<1> QED
  BY <1>1, StoresAreSound, PTL

(***************************************************************************)
(* Between commands the file is whole and holds what is in memory, for      *)
(* every store, if the latest save has not failed, the saves of two         *)
(* commands have not overlapped and !setup has not stopped halfway: every   *)
(* command saves after its last change, and a save writes all there is.     *)
(***************************************************************************)
THEOREM StoresAreDurable == GSpec => []Durable
<1>1. GSound => Durable
  BY DEF GSound, SavedInTurn, Saving, Marshalled, Durable, NoCommand
<1> QED
  BY <1>1, StoresAreSound, PTL

(***************************************************************************)
(* A role that was deleted, by a command or by hand, leaves the list of the *)
(* user-assignable ones when its event is heard, for any number of roles.   *)
(***************************************************************************)
THEOREM ListIsTidy == GSpec => []NoDeletedRoles
<1>1. GSound => NoDeletedRoles
  BY DEF GSound, Tidy, NoDeletedRoles
<1> QED
  BY <1>1, StoresAreSound, PTL

-----------------------------------------------------------------------------
(***************************************************************************)
(* MemberRecords.  Tasks of a member of a server, by who writes them: the   *)
(* handlers of joining and leaving, or the queue.                           *)
(***************************************************************************)
Of(t, p, g) == t.person = p /\ t.guild = g
Late == ({work[Deferred]} \ {Free}) \cup ToSet(deferChan)
AtHand(p, g) == \E h \in Hand : Of(work[h], p, g)
Dated(t) == IF t.does = "write" THEN t.task.date ELSE t.date

Reading == [does : {"read", "member"}, person : Person, name : Username, guild : Guild \cup {NoGuild}, date : Nat]
Writing == [does : {"write"}, task : Reading, person : Person, guild : Guild \cup {NoGuild}, old : Username \cup {NoName}]
Removing == [does : {"remove"}, person : Person, guild : Guild]
Messaging == [does : {"chat", "sent", "saw"}, person : Person, name : Username, guild : Guild]

HandTask == {Free} \cup Reading \cup Writing \cup Removing
QueueTask == {Free} \cup Reading \cup Writing \cup Messaging

InTask(t) ==
  /\ t.does = "write" => t.task.person = t.person /\ t.task.guild = t.guild
  /\ t.does = "member" => t.guild \in Guild
WorkOK ==
  /\ DOMAIN work = Hand \cup {Deferred}
  /\ work[Deferred] \in QueueTask /\ \A h \in Hand : work[h] \in HandTask
  /\ \A h \in Hand \cup {Deferred} : InTask(work[h])
  /\ deferChan \in Seq(Reading \cup Messaging)
  /\ \A t \in ToSet(deferChan) : t.does # "member"

RTypeOK ==
  /\ WorkOK
  /\ account \in [Person -> Username] /\ since \in [Place -> Nat] /\ spoke \subseteq Place
  /\ DOMAIN users \subseteq Person /\ \A p \in DOMAIN users : users[p] \in Username
  /\ DOMAIN members \subseteq Place
  /\ \A x \in DOMAIN members : members[x] \in [firstSeen : Nat, firstMessage : Nat]
  /\ today \in Nat /\ today > LongAgo /\ \A x \in Place : since[x] <= today

(* What the row of a member says when no handler is at it. *)
RowTells(p, g) ==
  /\ <<p, g>> \in DOMAIN members =>
       /\ since[<<p, g>>] # NoDate /\ members[<<p, g>>].firstSeen \in {NoDate, since[<<p, g>>]}
       /\ members[<<p, g>>].firstMessage # NoDate =>
            <<p, g>> \in spoke /\ members[<<p, g>>].firstMessage >= since[<<p, g>>]
  /\ since[<<p, g>>] > LongAgo =>
       /\ <<p, g>> \in DOMAIN members /\ members[<<p, g>>].firstSeen = since[<<p, g>>]
       /\ <<p, g>> \in spoke =>
            members[<<p, g>>].firstMessage # NoDate \/ \E t \in Late : Of(t, p, g) /\ t.does = "sent"

(* At most one handler, and nothing in the queue behind it. *)
OneWriter(p, g) ==
  /\ \A h, k \in Hand : Of(work[h], p, g) /\ Of(work[k], p, g) => h = k
  /\ AtHand(p, g) => ~At(Late, p, g)

Joining(t, p, g) ==
  /\ t.does \in {"read", "write", "member"}
  /\ since[<<p, g>>] > LongAgo /\ Dated(t) = since[<<p, g>>]
  /\ <<p, g>> \notin spoke /\ <<p, g>> \notin DOMAIN members
  /\ t.does = "member" => p \in DOMAIN users
Leaving(t, p, g) == t.does = "remove" /\ since[<<p, g>>] = NoDate

(* A queued task is of a member who is still there. *)
Queued(t, p, g) ==
  /\ since[<<p, g>>] # NoDate
  /\ t.does \in {"read", "write", "member"} => Dated(t) \in {NoDate, since[<<p, g>>]}
  /\ t.does = "sent" => <<p, g>> \in spoke
  /\ t.does = "member" => p \in DOMAIN users

RowInTurn(p, g) ==
  /\ OneWriter(p, g)
  /\ \A h \in Hand : Of(work[h], p, g) => Joining(work[h], p, g) \/ Leaving(work[h], p, g)
  /\ ~AtHand(p, g) => RowTells(p, g)
  /\ \A t \in Late : Of(t, p, g) => Queued(t, p, g)

RowsInTurn == \A p \in Person, g \in Guild : <<p, g>> \notin crossed.rows => RowInTurn(p, g)

LEMMA TaskKinds ==
  ASSUME NEW t \in HandTask \cup QueueTask
  PROVE  /\ t.does \in {"read", "member"} => t \in Reading
         /\ t.does = "write" => t \in Writing
         /\ t.does = "remove" => t \in Removing /\ t \in HandTask
         /\ t.does \in {"chat", "sent", "saw"} => t \in Messaging
         /\ t \in HandTask => t.does \notin {"chat", "sent", "saw"}
         /\ t \in QueueTask => t.does # "remove"
         /\ t.does = "idle" => t = Free
  BY DEF HandTask, QueueTask, Reading, Writing, Removing, Messaging, Free

LEMMA SetOfAppend ==
  ASSUME NEW S, NEW s \in Seq(S), NEW e \in S
  PROVE  Append(s, e) \in Seq(S) /\ ToSet(Append(s, e)) = ToSet(s) \cup {e}
  <1>1. DOMAIN Append(s, e) = 1..(Len(s) + 1) /\ Append(s, e)[Len(s) + 1] = e /\ \A i \in 1..Len(s) : Append(s, e)[i] = s[i]
    OBVIOUS
  <1>2. DOMAIN s = 1..Len(s) /\ Len(s) \in Nat
    OBVIOUS
  <1>3. 1..(Len(s) + 1) = 1..Len(s) \cup {Len(s) + 1}
    BY <1>2
  <1> QED
    BY <1>1, <1>2, <1>3 DEF ToSet

LEMMA SetOfHead ==
  ASSUME NEW S, NEW s \in Seq(S), s # << >>
  PROVE  /\ Head(s) \in S /\ Tail(s) \in Seq(S)
         /\ ToSet(s) = {Head(s)} \cup ToSet(Tail(s)) /\ ToSet(s) \subseteq S
  <1>1. Len(s) \in Nat /\ Len(s) >= 1 /\ DOMAIN s = 1..Len(s) /\ Head(s) = s[1]
    OBVIOUS
  <1>2. Len(Tail(s)) = Len(s) - 1 /\ DOMAIN Tail(s) = 1..(Len(s) - 1) /\ \A i \in 1..(Len(s) - 1) : Tail(s)[i] = s[i + 1]
    OBVIOUS
  <1>3. ASSUME NEW i \in 1..Len(s), i # 1 PROVE s[i] \in ToSet(Tail(s))
    <2>1. i - 1 \in 1..(Len(s) - 1) /\ Tail(s)[i - 1] = s[i]
      BY <1>1, <1>2, <1>3
    <2> QED
      BY <1>2, <2>1 DEF ToSet
  <1>4. ASSUME NEW i \in 1..(Len(s) - 1) PROVE Tail(s)[i] \in ToSet(s)
    <2>1. i + 1 \in 1..Len(s)
      BY <1>1
    <2> QED
      BY <1>1, <1>2, <2>1 DEF ToSet
  <1>5. Head(s) \in S /\ Tail(s) \in Seq(S) /\ \A i \in 1..Len(s) : s[i] \in S
    OBVIOUS
  <1> QED
    BY <1>1, <1>2, <1>3, <1>4, <1>5 DEF ToSet

LEMMA SetInSeq ==
  ASSUME NEW S, NEW s \in Seq(S)
  PROVE  ToSet(s) \subseteq S
  BY DEF ToSet

(* Nobody of a member without a handler at them is in the hands of one. *)
LEMMA PendingKinds ==
  ASSUME NEW p \in Person, NEW g \in Guild
  PROVE  /\ At(InHand, p, g) <=> AtHand(p, g)
         /\ At(Pending, p, g) <=> (AtHand(p, g) \/ At(Late, p, g))
  <1>1. ~Of(Free, p, g)
    BY RecordsAssumption DEF Of, Free
  <1>2. At(InHand, p, g) <=> AtHand(p, g)
    BY <1>1 DEF At, InHand, AtHand, Of
  <1>3. Pending = InHand \cup Late
    BY DEF Pending, Late
  <1> QED
    BY <1>2, <1>3 DEF At

LEMMA RecordsStart == MRInit => RTypeOK /\ RowsInTurn
  <1> SUFFICES ASSUME MRInit PROVE RTypeOK /\ RowsInTurn
    OBVIOUS
  <1>1. ToSet(<< >>) = {} /\ << >> \in Seq(Reading \cup Messaging)
    BY DEF ToSet
  <1>2. \A h \in Hand \cup {Deferred} : work[h] = Free
    BY DEF MRInit
  <1>3. InTask(Free) /\ Free \in HandTask /\ Free \in QueueTask
    BY DEF InTask, Free, HandTask, QueueTask
  <1>4. DOMAIN users = {} /\ DOMAIN members = {} /\ deferChan = << >> /\ spoke = {}
    BY DEF MRInit
  <1>5. WorkOK
    BY <1>1, <1>2, <1>3, <1>4 DEF WorkOK, MRInit
  <1>6. since \in [Place -> Nat] /\ today = 2 /\ \A x \in Place : since[x] \in {0, 1}
    BY DEF MRInit, NoDate, LongAgo
  <1>7. RTypeOK
    BY <1>4, <1>5, <1>6 DEF RTypeOK, MRInit, LongAgo
  <1>8. Late = {}
    BY <1>1, <1>2, <1>4 DEF Late
  <1>9. ASSUME NEW p \in Person, NEW g \in Guild PROVE RowInTurn(p, g)
    <2>1. \A h \in Hand : ~Of(work[h], p, g)
      BY <1>2, RecordsAssumption DEF Of, Free
    <2>2. ~(since[<<p, g>>] > LongAgo)
      BY <1>6 DEF Place, LongAgo
    <2> QED
      BY <1>4, <1>8, <2>1, <2>2 DEF RowInTurn, OneWriter, AtHand, RowTells, At
  <1> QED
    BY <1>7, <1>9 DEF RowsInTurn

(* A step that is about another member, or another server. *)
Untouched(p, g) ==
  /\ \A h \in Hand : Of(work[h], p, g) \/ Of(work'[h], p, g) => work'[h] = work[h]
  /\ \A t : Of(t, p, g) => (t \in Late <=> t \in Late')
  /\ since'[<<p, g>>] = since[<<p, g>>] /\ (<<p, g>> \in spoke' <=> <<p, g>> \in spoke)
  /\ (<<p, g>> \in DOMAIN members' <=> <<p, g>> \in DOMAIN members)
  /\ <<p, g>> \in DOMAIN members => members'[<<p, g>>] = members[<<p, g>>]
  /\ p \in DOMAIN users => p \in DOMAIN users' \/ ~(AtHand(p, g) \/ At(Late, p, g))

LEMMA UntouchedStays ==
  ASSUME NEW p \in Person, NEW g \in Guild, RowInTurn(p, g), Untouched(p, g)
  PROVE  RowInTurn(p, g)'
  <1>0. \A h \in Hand : (Of(work'[h], p, g) <=> Of(work[h], p, g)) /\ (Of(work[h], p, g) => work'[h] = work[h])
    BY DEF Untouched
  <1>1. (AtHand(p, g)' <=> AtHand(p, g)) /\ (At(Late, p, g)' <=> At(Late, p, g))
    BY <1>0 DEF Untouched, AtHand, At, Of
  <1>2. OneWriter(p, g)'
    BY <1>0, <1>1 DEF RowInTurn, OneWriter
  <1>3. ASSUME NEW h \in Hand, Of(work'[h], p, g) PROVE (Joining(work[h], p, g) \/ Leaving(work[h], p, g))'
    <2>1. work'[h] = work[h] /\ Of(work[h], p, g) /\ AtHand(p, g)
      BY <1>0, <1>3 DEF AtHand
    <2>2. Joining(work[h], p, g) \/ Leaving(work[h], p, g)
      BY <2>1 DEF RowInTurn
    <2> QED
      BY <2>1, <2>2 DEF Untouched, Joining, Leaving, Dated
  <1>4. ~AtHand(p, g)' => RowTells(p, g)'
    BY <1>1 DEF RowInTurn, RowTells, Untouched
  <1>5. ASSUME NEW t \in Late', Of(t, p, g) PROVE Queued(t, p, g)'
    <2>1. t \in Late /\ At(Late, p, g)
      BY <1>5 DEF Untouched, At, Of
    <2> QED
      BY <1>5, <2>1 DEF RowInTurn, Untouched, Queued, Dated
  <1> QED
    BY <1>2, <1>3, <1>4, <1>5 DEF RowInTurn

RSound == RTypeOK /\ RowsInTurn

(* What remains to be shown of a step: the members it is about. *)
LEMMA SoundByCases ==
  ASSUME RSound, RTypeOK', crossed.rows \subseteq crossed'.rows,
         \A p \in Person, g \in Guild : <<p, g>> \notin crossed'.rows /\ RowInTurn(p, g) => Untouched(p, g) \/ RowInTurn(p, g)'
  PROVE  RSound'
  <1> SUFFICES ASSUME NEW p \in Person, NEW g \in Guild, <<p, g>> \notin crossed'.rows PROVE RowInTurn(p, g)'
    BY DEF RSound, RowsInTurn
  <1>1. RowInTurn(p, g)
    BY DEF RSound, RowsInTurn
  <1> QED
    BY <1>1, UntouchedStays

(* A handler takes a task up while nothing of the queue changes. *)
LEMMA TakesUp ==
  ASSUME WorkOK, NEW h \in Hand, NEW t \in HandTask, InTask(t), work' = [work EXCEPT ![h] = t], deferChan' = deferChan
  PROVE  WorkOK' /\ Late' = Late /\ work'[h] = t /\ \A k \in Hand : k # h => work'[k] = work[k]
  BY RecordsAssumption DEF WorkOK, Late

LEMMA CrossedOnly ==
  ASSUME NEW tasks, NEW q, NEW f, NEW names, Crosses(tasks, q, f, names)
  PROVE  /\ crossed.rows \subseteq crossed'.rows
         /\ At(tasks, q, f) => <<q, f>> \in crossed'.rows
  BY DEF Crosses

LEMMA JoinIsSound ==
  ASSUME RSound, NEW h \in Hand, NEW q \in Person, NEW f \in Guild, GuildMemberAdd(h, q, f)
  PROVE  RSound'
  <1> DEFINE t == ProcessMember(q, account[q], f, today)
  <1>0. /\ work[h] = Free /\ since[<<q, f>>] = NoDate /\ since' = [since EXCEPT ![<<q, f>>] = today]
        /\ spoke' = spoke \ {<<q, f>>} /\ work' = [work EXCEPT ![h] = t] /\ Crosses(Pending, q, f, TRUE)
        /\ UNCHANGED <<account, tables, deferChan, today>>
    BY DEF GuildMemberAdd
  <1>1. today \in Nat /\ today > LongAgo /\ since \in [Place -> Nat] /\ <<q, f>> \in Place /\ WorkOK
    BY DEF RSound, RTypeOK, Place
  <1>2. t \in Reading /\ t.does = "read" /\ Of(t, q, f) /\ t.date = today
    BY <1>1 DEF RSound, RTypeOK, ProcessMember, Reading, Of
  <1>3. t \in HandTask /\ InTask(t) /\ Dated(t) = today /\ \A p, g : Of(t, p, g) => p = q /\ g = f
    BY <1>2 DEF HandTask, InTask, Dated, Of
  <1> HIDE DEF t
  <1>4. WorkOK' /\ Late' = Late /\ work'[h] = t /\ \A k \in Hand : k # h => work'[k] = work[k]
    BY <1>0, <1>1, <1>3, TakesUp
  <1>5. since' \in [Place -> Nat] /\ since'[<<q, f>>] = today /\ \A x \in Place : x # <<q, f>> => since'[x] = since[x]
    BY <1>0, <1>1
  <1>6. RTypeOK'
    BY <1>0, <1>1, <1>4, <1>5 DEF RSound, RTypeOK, tables
  <1>7. crossed.rows \subseteq crossed'.rows /\ (At(Pending, q, f) => <<q, f>> \in crossed'.rows)
    BY <1>0, CrossedOnly
  <1>8. ASSUME NEW p \in Person, NEW g \in Guild, <<p, g>> # <<q, f>> PROVE Untouched(p, g)
    <2>1. ~Of(t, p, g) /\ ~Of(work[h], p, g)
      BY <1>0, <1>3, <1>8, RecordsAssumption DEF Of, Free
    <2>2. \A k \in Hand : Of(work[k], p, g) \/ Of(work'[k], p, g) => work'[k] = work[k]
      BY <1>4, <2>1
    <2>3. since'[<<p, g>>] = since[<<p, g>>] /\ (<<p, g>> \in spoke' <=> <<p, g>> \in spoke)
      BY <1>0, <1>5, <1>8 DEF Place
    <2> QED
      BY <1>0, <1>4, <2>2, <2>3 DEF Untouched, tables
  <1>9. ASSUME <<q, f>> \notin crossed'.rows, RowInTurn(q, f) PROVE RowInTurn(q, f)'
    <2>1. ~AtHand(q, f) /\ ~At(Late, q, f)
      BY <1>7, <1>9, PendingKinds
    <2>2. <<q, f>> \notin DOMAIN members
      BY <1>0, <1>9, <2>1 DEF RowInTurn, RowTells
    <2>3. \A k \in Hand : Of(work'[k], q, f) => k = h
      BY <1>4, <2>1 DEF AtHand
    <2>4. OneWriter(q, f)'
      BY <1>4, <2>1, <2>3 DEF OneWriter, At
    <2>5. Joining(work[h], q, f)'
      BY <1>0, <1>1, <1>2, <1>3, <1>4, <1>5, <2>2 DEF Joining, tables, Dated
    <2>6. AtHand(q, f)'
      BY <1>2, <1>4 DEF AtHand
    <2>7. \A k \in Late' : ~Of(k, q, f)
      BY <1>4, <2>1 DEF At, Of
    <2> QED
      BY <2>3, <2>4, <2>5, <2>6, <2>7 DEF RowInTurn
  <1>10. \A p \in Person, g \in Guild : <<p, g>> \notin crossed'.rows /\ RowInTurn(p, g) => Untouched(p, g) \/ RowInTurn(p, g)'
    <2> SUFFICES ASSUME NEW p \in Person, NEW g \in Guild, <<p, g>> \notin crossed'.rows, RowInTurn(p, g)
                 PROVE  Untouched(p, g) \/ RowInTurn(p, g)'
      OBVIOUS
    <2>1. CASE <<p, g>> # <<q, f>>
      BY <1>8, <2>1
    <2>2. CASE <<p, g>> = <<q, f>>
      <3>1. p = q /\ g = f
        BY <2>2
      <3> QED
        BY <3>1, <1>9
    <2> QED
      BY <2>1, <2>2
  <1> QED
    BY <1>6, <1>7, <1>10, SoundByCases

LEMMA LeaveIsSound ==
  ASSUME RSound, NEW h \in Hand, NEW q \in Person, NEW f \in Guild, MemberLeaves(h, q, f)
  PROVE  RSound'
  <1> DEFINE t == [does |-> "remove", person |-> q, guild |-> f]
  <1>0. /\ work[h] = Free /\ since[<<q, f>>] # NoDate /\ since' = [since EXCEPT ![<<q, f>>] = NoDate]
        /\ work' = [work EXCEPT ![h] = t] /\ Crosses(Pending, q, f, FALSE)
        /\ UNCHANGED <<account, spoke, tables, deferChan, today>>
    BY DEF MemberLeaves
  <1>1. today \in Nat /\ since \in [Place -> Nat] /\ <<q, f>> \in Place /\ WorkOK
    BY DEF RSound, RTypeOK, Place
  <1>2. t \in HandTask /\ InTask(t) /\ Of(t, q, f) /\ \A p, g : Of(t, p, g) => p = q /\ g = f
    BY DEF HandTask, Removing, InTask, Of
  <1>3. t.does = "remove"
    OBVIOUS
  <1> HIDE DEF t
  <1>4. WorkOK' /\ Late' = Late /\ work'[h] = t /\ \A k \in Hand : k # h => work'[k] = work[k]
    BY <1>0, <1>1, <1>2, TakesUp
  <1>5. since' \in [Place -> Nat] /\ since'[<<q, f>>] = 0 /\ \A x \in Place : x # <<q, f>> => since'[x] = since[x]
    BY <1>0, <1>1 DEF NoDate
  <1>6. RTypeOK'
    BY <1>0, <1>1, <1>4, <1>5 DEF RSound, RTypeOK, tables
  <1>7. crossed.rows \subseteq crossed'.rows /\ (At(Pending, q, f) => <<q, f>> \in crossed'.rows)
    BY <1>0, CrossedOnly
  <1>8. ASSUME NEW p \in Person, NEW g \in Guild, <<p, g>> # <<q, f>> PROVE Untouched(p, g)
    <2>1. ~Of(t, p, g) /\ ~Of(work[h], p, g)
      BY <1>0, <1>2, <1>8, RecordsAssumption DEF Of, Free
    <2>2. \A k \in Hand : Of(work[k], p, g) \/ Of(work'[k], p, g) => work'[k] = work[k]
      BY <1>4, <2>1
    <2>3. since'[<<p, g>>] = since[<<p, g>>]
      BY <1>5, <1>8 DEF Place
    <2> QED
      BY <1>0, <1>4, <2>2, <2>3 DEF Untouched, tables
  <1>9. ASSUME <<q, f>> \notin crossed'.rows, RowInTurn(q, f) PROVE RowInTurn(q, f)'
    <2>1. ~AtHand(q, f) /\ ~At(Late, q, f)
      BY <1>7, <1>9, PendingKinds
    <2>2. \A k \in Hand : Of(work'[k], q, f) => k = h
      BY <1>4, <2>1 DEF AtHand
    <2>3. OneWriter(q, f)'
      BY <1>4, <2>1, <2>2 DEF OneWriter, At
    <2>4. Leaving(work[h], q, f)'
      BY <1>3, <1>4, <1>5 DEF Leaving, NoDate
    <2>5. AtHand(q, f)'
      BY <1>2, <1>4 DEF AtHand
    <2>6. \A k \in Late' : ~Of(k, q, f)
      BY <1>4, <2>1 DEF At, Of
    <2> QED
      BY <2>2, <2>3, <2>4, <2>5, <2>6 DEF RowInTurn
  <1>10. \A p \in Person, g \in Guild : <<p, g>> \notin crossed'.rows /\ RowInTurn(p, g) => Untouched(p, g) \/ RowInTurn(p, g)'
    <2> SUFFICES ASSUME NEW p \in Person, NEW g \in Guild, <<p, g>> \notin crossed'.rows, RowInTurn(p, g)
                 PROVE  Untouched(p, g) \/ RowInTurn(p, g)'
      OBVIOUS
    <2>1. CASE <<p, g>> # <<q, f>>
      BY <1>8, <2>1
    <2>2. CASE <<p, g>> = <<q, f>>
      <3>1. p = q /\ g = f
        BY <2>2
      <3> QED
        BY <3>1, <1>9
    <2> QED
      BY <2>1, <2>2
  <1> QED
    BY <1>6, <1>7, <1>10, SoundByCases

(* Tasks Q go to the end of the queue. *)
LEMMA QueueGrows ==
  ASSUME NEW p \in Person, NEW g \in Guild, RowInTurn(p, g), NEW Q, Late' = Late \cup Q,
         work' = work, UNCHANGED <<since, tables>>, spoke \subseteq spoke',
         (\E t \in Q : Of(t, p, g)) => ~AtHand(p, g),
         \A t \in Q : Of(t, p, g) => Queued(t, p, g)',
         <<p, g>> \in spoke' => <<p, g>> \in spoke \/ \E t \in Q : Of(t, p, g) /\ t.does = "sent"
  PROVE  RowInTurn(p, g)'
  <1>0. members' = members /\ users' = users /\ since' = since
    BY DEF tables
  <1>1. AtHand(p, g)' <=> AtHand(p, g)
    BY DEF AtHand
  <1>2. At(Late, p, g)' <=> (At(Late, p, g) \/ \E t \in Q : Of(t, p, g))
    BY DEF At, Of
  <1>3. OneWriter(p, g)'
    BY <1>1, <1>2 DEF RowInTurn, OneWriter
  <1>4. ASSUME NEW h \in Hand, Of(work'[h], p, g) PROVE (Joining(work[h], p, g) \/ Leaving(work[h], p, g))'
    <2>1. Of(work[h], p, g) /\ AtHand(p, g)
      BY <1>4 DEF AtHand
    <2>2. Joining(work[h], p, g) \/ Leaving(work[h], p, g)
      BY <2>1 DEF RowInTurn
    <2>3. ~\E t \in Q : Of(t, p, g)
      BY <2>1
    <2> QED
      BY <1>0, <2>2, <2>3 DEF Joining, Leaving, Dated
  <1>5. ~AtHand(p, g)' => RowTells(p, g)'
    <2> SUFFICES ASSUME ~AtHand(p, g) PROVE RowTells(p, g)'
      BY <1>1
    <2>1. RowTells(p, g)
      BY DEF RowInTurn
    <2>2. ASSUME <<p, g>> \in spoke', since[<<p, g>>] > LongAgo
          PROVE  members[<<p, g>>].firstMessage # NoDate \/ \E t \in Late' : Of(t, p, g) /\ t.does = "sent"
      BY <2>1, <2>2 DEF RowTells
    <2> QED
      BY <1>0, <2>1, <2>2 DEF RowTells, Of
  <1>6. \A t \in Late' : Of(t, p, g) => Queued(t, p, g)'
    BY <1>0 DEF RowInTurn, Queued, Dated
  <1> QED
    BY <1>3, <1>4, <1>5, <1>6 DEF RowInTurn

LEMMA AppendIsTyped ==
  ASSUME WorkOK, NEW t \in Reading \cup Messaging, t.does # "member", work' = work, deferChan' = Append(deferChan, t)
  PROVE  WorkOK' /\ Late' = Late \cup {t}
  <1>1. deferChan' \in Seq(Reading \cup Messaging) /\ ToSet(deferChan') = ToSet(deferChan) \cup {t}
    BY SetOfAppend DEF WorkOK
  <1>2. WorkOK'
    BY <1>1 DEF WorkOK
  <1>3. Late' = Late \cup {t}
    BY <1>1 DEF Late
  <1> QED
    BY <1>2, <1>3

LEMMA SetOfAppends ==
  ASSUME NEW S, NEW s \in Seq(S), NEW c \in S, NEW e \in S
  PROVE  /\ Append(Append(s, c), e) \in Seq(S)
         /\ ToSet(Append(Append(s, c), e)) = ToSet(s) \cup {c, e}
  <1> DEFINE q == Append(s, c)
  <1>1. q \in Seq(S) /\ ToSet(q) = ToSet(s) \cup {c}
    BY SetOfAppend
  <1> HIDE DEF q
  <1>2. ToSet(Append(q, e)) = ToSet(q) \cup {e} /\ Append(q, e) \in Seq(S)
    BY <1>1, SetOfAppend
  <1>3. ToSet(Append(q, e)) = ToSet(s) \cup {c, e}
    BY <1>1, <1>2
  <1> QED
    BY <1>2, <1>3 DEF q

LEMMA MessageTasks ==
  ASSUME WorkOK, NEW sent \in Messaging, NEW chat \in Messaging, work' = work,
         \/ deferChan' = deferChan \o << >> \o <<sent>>
         \/ deferChan' = deferChan \o <<chat>> \o <<sent>>
  PROVE  WorkOK' /\ \E Q \in {{sent}, {chat, sent}} : Late' = Late \cup Q
  <1>0. /\ chat.does # "member" /\ sent.does # "member" /\ deferChan \in Seq(Reading \cup Messaging)
        /\ sent \in Reading \cup Messaging /\ chat \in Reading \cup Messaging
    BY DEF Messaging, WorkOK
  <1>1. CASE deferChan' = deferChan \o <<chat>> \o <<sent>>
    <2>1. deferChan' \in Seq(Reading \cup Messaging) /\ ToSet(deferChan') = ToSet(deferChan) \cup {chat, sent}
      <3> DEFINE T == Reading \cup Messaging
      <3>1. deferChan \in Seq(T) /\ chat \in T /\ sent \in T
        BY <1>0
      <3> HIDE DEF T
      <3>2. Append(deferChan, chat) \in Seq(T) /\ deferChan \o <<chat>> = Append(deferChan, chat)
        BY <3>1
      <3>3. \A u \in Seq(T) : u \o <<sent>> = Append(u, sent)
        BY <3>1
      <3>4. deferChan' = Append(Append(deferChan, chat), sent)
        BY <1>1, <3>2, <3>3
      <3> QED
        BY <3>1, <3>4, SetOfAppends DEF T
    <2>2. WorkOK'
      BY <1>0, <2>1 DEF WorkOK
    <2>3. Late' = Late \cup {chat, sent}
      BY <2>1 DEF Late
    <2> QED
      BY <2>2, <2>3
  <1>2. CASE deferChan' = deferChan \o << >> \o <<sent>>
    <2>1. deferChan' = Append(deferChan, sent)
      BY <1>0, <1>2
    <2>2. WorkOK' /\ Late' = Late \cup {sent}
      BY <1>0, <2>1, AppendIsTyped
    <2> QED
      BY <2>2
  <1> QED
    BY <1>1, <1>2

LEMMA MessageIsQueued ==
  ASSUME NEW t, NEW p, NEW g, t.does \in {"chat", "sent"}, since'[<<p, g>>] # NoDate, <<p, g>> \in spoke'
  PROVE  Queued(t, p, g)'
  BY DEF Queued

LEMMA MessageIsSound ==
  ASSUME RSound, NEW q \in Person, NEW f \in Guild, NEW logged \in BOOLEAN, MessageSent(q, f, logged)
  PROVE  RSound'
  <1> DEFINE task(does) == [does |-> does, person |-> q, name |-> account[q], guild |-> f]
             c == task("chat")
             s == task("sent")
  <1>0. /\ since[<<q, f>>] # NoDate /\ spoke' = spoke \cup {<<q, f>>} /\ Crosses(InHand, q, f, FALSE)
        /\ UNCHANGED <<account, since, tables, work, today>>
    BY DEF MessageSent
  <1>00. deferChan' = deferChan \o << >> \o <<s>> \/ deferChan' = deferChan \o <<c>> \o <<s>>
    BY DEF MessageSent
  <1>1. c \in Messaging /\ s \in Messaging /\ s.does = "sent" /\ c.does = "chat" /\ Of(s, q, f)
    BY DEF RSound, RTypeOK, Messaging, Of
  <1>2. \A p, g : (Of(s, p, g) \/ Of(c, p, g)) => p = q /\ g = f
    BY DEF Of
  <1> HIDE DEF c, s
  <1>2a. WorkOK' /\ \E Q \in {{s}, {c, s}} : Late' = Late \cup Q
    BY <1>0, <1>00, <1>1, MessageTasks DEF RSound, RTypeOK
  <1>3. PICK Q \in {{s}, {c, s}} : Late' = Late \cup Q
    BY <1>2a
  <1>4. RTypeOK'
    BY <1>0, <1>2a DEF RSound, RTypeOK, tables, Place
  <1>5. crossed.rows \subseteq crossed'.rows /\ (At(InHand, q, f) => <<q, f>> \in crossed'.rows)
    BY <1>0, CrossedOnly
  <1>6. ASSUME NEW p \in Person, NEW g \in Guild, <<p, g>> \notin crossed'.rows, RowInTurn(p, g) PROVE RowInTurn(p, g)'
    <2>1. ASSUME NEW t \in Q, Of(t, p, g) PROVE ~AtHand(p, g) /\ p = q /\ g = f /\ Queued(t, p, g)'
      <3>1. p = q /\ g = f
        BY <1>2, <2>1
      <3>2. ~AtHand(p, g)
        BY <1>5, <1>6, <3>1, PendingKinds
      <3>3. t.does \in {"chat", "sent"}
        BY <1>1, <2>1
      <3>4. since'[<<q, f>>] # NoDate /\ <<q, f>> \in spoke'
        BY <1>0
      <3> QED
        BY <3>1, <3>2, <3>3, <3>4, MessageIsQueued
    <2>2. <<p, g>> \in spoke' => <<p, g>> \in spoke \/ \E t \in Q : Of(t, p, g) /\ t.does = "sent"
      BY <1>0, <1>1
    <2>3. UNCHANGED <<since, tables>> /\ work' = work /\ spoke \subseteq spoke'
      BY <1>0
    <2>4. (\E t \in Q : Of(t, p, g)) => ~AtHand(p, g)
      BY <2>1
    <2>5. \A t \in Q : Of(t, p, g) => Queued(t, p, g)'
      BY <2>1
    <2> QED
      BY <1>3, <1>6, <2>2, <2>3, <2>4, <2>5, QueueGrows
  <1> QED
    BY <1>4, <1>5, <1>6, SoundByCases

LEMMA UserUpdateIsSound ==
  ASSUME RSound, NEW q \in Person, NEW name \in Username, UserUpdate(q, name)
  PROVE  RSound'
  <1> DEFINE t == ProcessUser(q, name)
  <1>0. /\ account' = [account EXCEPT ![q] = name] /\ deferChan' = Append(deferChan, t) /\ Crosses(InHand, q, NoGuild, TRUE)
        /\ UNCHANGED <<since, spoke, tables, work, today>>
    BY DEF UserUpdate
  <1>1. t \in Reading /\ t.does = "read" /\ t.guild = NoGuild
    BY DEF Reading, ProcessUser, ProcessMember, NoDate
  <1> HIDE DEF t
  <1>2. WorkOK' /\ Late' = Late \cup {t}
    BY <1>0, <1>1, AppendIsTyped DEF RSound, RTypeOK
  <1>3. RTypeOK'
    BY <1>0, <1>2 DEF RSound, RTypeOK, tables
  <1>4. crossed.rows \subseteq crossed'.rows
    BY <1>0, CrossedOnly
  <1>5. ASSUME NEW p \in Person, NEW g \in Guild PROVE Untouched(p, g)
    <2>1. ~Of(t, p, g)
      BY <1>1, RecordsAssumption DEF Of
    <2> QED
      BY <1>0, <1>2, <2>1 DEF Untouched, tables
  <1> QED
    BY <1>3, <1>4, <1>5, SoundByCases

LEMMA MemberUpdateIsSound ==
  ASSUME RSound, NEW q \in Person, NEW f \in Guild, NEW date, MemberUpdate(q, f, date)
  PROVE  RSound'
  <1> DEFINE t == ProcessMember(q, account[q], f, date)
  <1>0. /\ since[<<q, f>>] # NoDate /\ date \in {since[<<q, f>>], NoDate}
        /\ deferChan' = Append(deferChan, t) /\ Crosses(InHand, q, f, TRUE)
        /\ UNCHANGED <<people, tables, work, today>>
    BY DEF MemberUpdate
  <1>1. t \in Reading /\ t.does = "read" /\ Dated(t) = date /\ \A p, g : Of(t, p, g) => p = q /\ g = f
    BY <1>0 DEF Reading, ProcessMember, NoDate, Dated, Of, RSound, RTypeOK, Place
  <1> HIDE DEF t
  <1>2. WorkOK' /\ Late' = Late \cup {t}
    BY <1>0, <1>1, AppendIsTyped DEF RSound, RTypeOK
  <1>3. RTypeOK'
    BY <1>0, <1>2 DEF RSound, RTypeOK, tables, people
  <1>4. crossed.rows \subseteq crossed'.rows /\ (At(InHand, q, f) => <<q, f>> \in crossed'.rows)
    BY <1>0, CrossedOnly
  <1>5. ASSUME NEW p \in Person, NEW g \in Guild, <<p, g>> \notin crossed'.rows, RowInTurn(p, g) PROVE RowInTurn(p, g)'
    <2>1. ASSUME NEW k, k = t, Of(k, p, g) PROVE ~AtHand(p, g) /\ Queued(k, p, g)'
      <3>1. p = q /\ g = f
        BY <1>1, <2>1
      <3>2. ~AtHand(p, g)
        BY <1>4, <1>5, <3>1, PendingKinds
      <3>3. k.does = "read" /\ Dated(k) = date
        BY <1>1, <2>1
      <3> QED
        BY <1>0, <3>1, <3>2, <3>3 DEF Queued, people, Dated
    <2>2. UNCHANGED <<since, tables>> /\ work' = work /\ spoke' = spoke
      BY <1>0 DEF people
    <2> DEFINE Q == {t}
    <2>3. (\E k \in Q : Of(k, p, g)) => ~AtHand(p, g)
      BY <2>1
    <2>4. \A k \in Q : Of(k, p, g) => Queued(k, p, g)'
      BY <2>1
    <2>5. Late' = Late \cup Q
      BY <1>2
    <2> HIDE DEF Q
    <2> QED
      BY <1>5, <2>2, <2>3, <2>4, <2>5, QueueGrows
  <1> QED
    BY <1>3, <1>4, <1>5, SoundByCases

LEMMA ReceiveIsSound ==
  ASSUME RSound, ReceiveTask
  PROVE  RSound'
  <1> DEFINE t == Head(deferChan)
  <1>0. /\ deferChan # << >> /\ work[Deferred] = Free /\ work' = [work EXCEPT ![Deferred] = t] /\ deferChan' = Tail(deferChan)
        /\ UNCHANGED <<people, tables, today, events, crossed>> /\ WorkOK
    BY DEF ReceiveTask, RSound, RTypeOK
  <1>1. /\ t \in Reading \cup Messaging /\ deferChan' \in Seq(Reading \cup Messaging)
        /\ ToSet(deferChan) = {t} \cup ToSet(deferChan')
    BY <1>0, SetOfHead DEF WorkOK
  <1>2. t.does # "member"
    BY <1>0, <1>1 DEF WorkOK
  <1> HIDE DEF t
  <1>3. t \in QueueTask /\ t # Free /\ InTask(t)
    BY <1>1, <1>2 DEF QueueTask, InTask, Reading, Messaging, Free
  <1>4. WorkOK' /\ work'[Deferred] = t /\ \A h \in Hand : work'[h] = work[h]
    BY <1>0, <1>1, <1>3, RecordsAssumption DEF WorkOK
  <1>5. Late' = Late
    BY <1>0, <1>1, <1>3, <1>4 DEF Late
  <1>6. RTypeOK'
    BY <1>0, <1>4 DEF RSound, RTypeOK, people, tables
  <1>7. ASSUME NEW p \in Person, NEW g \in Guild PROVE Untouched(p, g)
    BY <1>0, <1>4, <1>5 DEF Untouched, people, tables
  <1> QED
    BY <1>0, <1>6, <1>7, SoundByCases

(* A goroutine h goes on with task t, or is free. *)
Continues(h, t) ==
  /\ WorkOK'
  /\ work'[h] = t /\ \A k \in Hand \cup {Deferred} : k # h => work'[k] = work[k]
  /\ h \in Hand => Late' = Late
  /\ h = Deferred => /\ Late' \subseteq Late \cup {t} /\ Late \ {work[h]} \subseteq Late'
                     /\ Free \notin Late' /\ (work[h] # Free => work[h] \in Late)

LEMMA WorkContinues ==
  ASSUME WorkOK, NEW h \in Hand \cup {Deferred}, NEW t, work' = [work EXCEPT ![h] = t], deferChan' = deferChan,
         h \in Hand => t \in HandTask, h = Deferred => t \in QueueTask, InTask(t)
  PROVE  Continues(h, t)
  <1>1. work'[h] = t /\ \A k \in Hand \cup {Deferred} : k # h => work'[k] = work[k]
    BY DEF WorkOK
  <1>2. WorkOK'
    BY <1>1, RecordsAssumption DEF WorkOK
  <1>3. Free \notin ToSet(deferChan)
    BY SetInSeq DEF WorkOK, Free, Reading, Messaging
  <1>4. h \in Hand => Late' = Late
    BY <1>1, RecordsAssumption DEF Late
  <1>5. h = Deferred => /\ Late' \subseteq Late \cup {t} /\ Late \ {work[h]} \subseteq Late'
                        /\ Free \notin Late' /\ (work[h] # Free => work[h] \in Late)
    BY <1>1, <1>3 DEF Late
  <1> QED
    BY <1>1, <1>2, <1>4, <1>5 DEF Continues

LEMMA OthersContinue ==
  ASSUME NEW h \in Hand \cup {Deferred}, NEW t, Continues(h, t), NEW p, NEW g, ~Of(work[h], p, g), ~Of(t, p, g)
  PROVE  /\ \A k \in Hand : Of(work[k], p, g) \/ Of(work'[k], p, g) => work'[k] = work[k]
         /\ \A k : Of(k, p, g) => (k \in Late <=> k \in Late')
  <1>1. \A k \in Hand : Of(work[k], p, g) \/ Of(work'[k], p, g) => work'[k] = work[k]
    BY DEF Continues
  <1>2. CASE h \in Hand
    BY <1>1, <1>2 DEF Continues
  <1>3. CASE h = Deferred
    <2>1. ASSUME NEW k, Of(k, p, g) PROVE k # t /\ k # work[h]
      BY <2>1
    <2> QED
      BY <1>1, <1>3, <2>1 DEF Continues
  <1> QED
    BY <1>2, <1>3

(* The handler of this member goes on, *)
LEMMA HandGoesOn ==
  ASSUME NEW p \in Person, NEW g \in Guild, RowInTurn(p, g), NEW h \in Hand, NEW t, Continues(h, t),
         Of(work[h], p, g), Of(t, p, g), Joining(work[h], p, g)'
  PROVE  RowInTurn(p, g)'
  <1>1. \A k \in Hand : k # h => ~Of(work'[k], p, g)
    BY DEF RowInTurn, OneWriter, Continues
  <1>2. AtHand(p, g) /\ ~At(Late, p, g) /\ Late' = Late
    BY DEF RowInTurn, OneWriter, Continues, AtHand
  <1>3. AtHand(p, g)'
    BY DEF AtHand, Continues
  <1>4. OneWriter(p, g)'
    BY <1>1, <1>2 DEF OneWriter, At
  <1>5. \A k \in Late' : ~Of(k, p, g)
    BY <1>2 DEF At, Of
  <1> QED
    BY <1>1, <1>3, <1>4, <1>5 DEF RowInTurn

(* or is done. *)
LEMMA HandEnds ==
  ASSUME NEW p \in Person, NEW g \in Guild, RowInTurn(p, g), NEW h \in Hand, Continues(h, Free),
         Of(work[h], p, g), RowTells(p, g)'
  PROVE  RowInTurn(p, g)'
  <1>1. \A k \in Hand : ~Of(work'[k], p, g)
    BY RecordsAssumption DEF RowInTurn, OneWriter, Continues, Of, Free
  <1>2. ~At(Late, p, g) /\ Late' = Late
    BY DEF RowInTurn, OneWriter, Continues, AtHand
  <1>3. OneWriter(p, g)'
    BY <1>1, <1>2 DEF OneWriter, At
  <1>4. \A k \in Late' : ~Of(k, p, g)
    BY <1>2 DEF At, Of
  <1> QED
    BY <1>1, <1>3, <1>4 DEF RowInTurn

(* A queued task of this member goes on or is done. *)
LEMMA QueueGoesOn ==
  ASSUME NEW p \in Person, NEW g \in Guild, RowInTurn(p, g), NEW t, Continues(Deferred, t),
         work[Deferred] # Free, Of(work[Deferred], p, g), UNCHANGED <<since, spoke>>, DOMAIN users \subseteq DOMAIN users',
         RowTells(p, g)', t # Free => Queued(work[Deferred], p, g)'
  PROVE  RowInTurn(p, g)'
  <1>1. At(Late, p, g) /\ ~AtHand(p, g)
    BY DEF RowInTurn, OneWriter, At, Of, Continues
  <1>2. \A k \in Hand : ~Of(work'[k], p, g)
    BY <1>1, RecordsAssumption DEF AtHand, Continues
  <1>3. ASSUME NEW k \in Late', Of(k, p, g) PROVE Queued(k, p, g)'
    <2>1. CASE k \in Late
      <3>1. Queued(k, p, g)
        BY <1>3, <2>1 DEF RowInTurn
      <3> QED
        BY <3>1 DEF Queued, Dated
    <2>2. CASE k \notin Late
      <3>1. k = t /\ t # Free /\ k = work'[Deferred]
        BY <1>3, <2>2 DEF Continues
      <3> QED
        BY <3>1
    <2> QED
      BY <2>1, <2>2
  <1> QED
    BY <1>2, <1>3 DEF RowInTurn, OneWriter, AtHand

LEMMA RowTellsStill ==
  ASSUME NEW p \in Person, NEW g \in Guild, RowTells(p, g), UNCHANGED <<since, spoke, members>>,
         \A t \in Late : t.does = "sent" => t \in Late'
  PROVE  RowTells(p, g)'
  BY DEF RowTells

(* A task on users and names only. *)
LEMMA NamesTask ==
  ASSUME RSound, NEW h \in Hand \cup {Deferred}, NEW t, Continues(h, t),
         work[h].does \in {"read", "write", "chat", "saw"},
         UNCHANGED <<since, spoke, members, crossed, account, today>>, DOMAIN users \subseteq DOMAIN users',
         DOMAIN users' \subseteq Person, \A p \in DOMAIN users' : users'[p] \in Username,
         t = Free \/ (/\ work[h].does \in {"read", "write"} /\ t.does \in {"write", "member"} /\ Dated(t) = Dated(work[h])
                      /\ t.person = work[h].person /\ t.guild = work[h].guild /\ (t.does = "member" => t.person \in DOMAIN users')),
         t = Free => h = Deferred \/ work[h].guild = NoGuild
  PROVE  RSound'
  <1>1. RTypeOK'
    BY DEF RSound, RTypeOK, Continues
  <1>2. ASSUME NEW p \in Person, NEW g \in Guild, RowInTurn(p, g) PROVE Untouched(p, g) \/ RowInTurn(p, g)'
    <2>0. Of(t, p, g) => Of(work[h], p, g)
      BY RecordsAssumption DEF Of, Free
    <2>1. CASE ~Of(work[h], p, g)
      <3>1. /\ \A k \in Hand : Of(work[k], p, g) \/ Of(work'[k], p, g) => work'[k] = work[k]
            /\ \A k : Of(k, p, g) => (k \in Late <=> k \in Late')
        BY <2>0, <2>1, OthersContinue
      <3> QED
        BY <3>1 DEF Untouched
    <2>2. CASE Of(work[h], p, g) /\ h \in Hand
      <3>1. t # Free /\ Of(t, p, g) /\ t.does \in {"write", "member"} /\ Dated(t) = Dated(work[h]) /\ work'[h] = t
        BY <2>2, RecordsAssumption DEF Of, Continues
      <3>2. Joining(work[h], p, g)
        BY <1>2, <2>2 DEF RowInTurn, Leaving
      <3>3. t.does = "member" => p \in DOMAIN users'
        BY <2>2, <3>1 DEF Of
      <3>4. Joining(t, p, g)'
        BY <3>1, <3>2, <3>3 DEF Joining, Dated
      <3> QED
        BY <1>2, <2>2, <3>1, <3>4, HandGoesOn
    <2>3. CASE Of(work[h], p, g) /\ h = Deferred
      <3>1. work[h] # Free /\ work[h] \in Late
        BY <2>3, RecordsAssumption DEF Of, Free, Continues
      <3>2. RowTells(p, g) /\ Queued(work[h], p, g)
        BY <1>2, <2>3, <3>1 DEF RowInTurn, OneWriter, At, Of
      <3>3. \A k \in Late : k.does = "sent" => k \in Late'
        BY <2>3 DEF Continues
      <3>4. RowTells(p, g)'
        BY <3>2, <3>3, RowTellsStill
      <3>5. ASSUME t # Free PROVE Queued(work[h], p, g)'
        <4>1. t.does \in {"write", "member"} /\ Dated(t) = Dated(work[h]) /\ work'[h] = t
          BY <3>5 DEF Continues
        <4>2. t.does = "member" => p \in DOMAIN users'
          BY <2>3, <3>5 DEF Of
        <4>3. since'[<<p, g>>] # NoDate /\ Dated(t) \in {NoDate, since'[<<p, g>>]}
          BY <3>2, <3>5, <4>1 DEF Queued
        <4> QED
          BY <4>1, <4>2, <4>3 DEF Queued, Dated
      <3> QED
        BY <1>2, <2>3, <3>1, <3>4, <3>5, QueueGoesOn
    <2> QED
      BY <2>1, <2>2, <2>3
  <1> QED
    BY <1>1, <1>2, SoundByCases

LEMMA FreeIsATask == Free \in HandTask /\ Free \in QueueTask /\ InTask(Free)
  BY DEF HandTask, QueueTask, InTask, Free

LEMMA ReadNameIsSound == ASSUME RSound, NEW h \in Hand \cup {Deferred}, ReadName(h) PROVE RSound'
  <1> DEFINE k == work[h]
             name == IF k.person \in DOMAIN users THEN users[k.person] ELSE NoName
             t == [does |-> "write", task |-> k, person |-> k.person, guild |-> k.guild, old |-> name]
  <1>0. /\ k.does = "read" /\ work' = [work EXCEPT ![h] = t]
        /\ UNCHANGED <<people, deferChan, today, events, crossed, tables>>
    BY DEF ReadName, Turn, Then
  <1>1. WorkOK /\ k \in HandTask \cup QueueTask /\ InTask(k)
    BY DEF RSound, RTypeOK, WorkOK
  <1>2. k \in Reading
    BY <1>0, <1>1, TaskKinds
  <1>3. name \in Username \cup {NoName}
    BY DEF RSound, RTypeOK
  <1>4. t \in Writing
    BY <1>2, <1>3 DEF Writing, Reading
  <1>5. t.does = "write" /\ Dated(t) = k.date /\ Dated(k) = k.date /\ t.person = k.person /\ t.guild = k.guild /\ InTask(t)
    BY <1>0 DEF Dated, InTask
  <1>6. t \in HandTask /\ t \in QueueTask
    BY <1>4 DEF HandTask, QueueTask
  <1>7. t # Free
    BY <1>5 DEF Free
  <1> HIDE DEF t, k
  <1>8. Continues(h, t)
    BY <1>0, <1>1, <1>5, <1>6, WorkContinues
  <1>9. /\ UNCHANGED <<since, spoke, members, crossed, account, today>> /\ users' = users
        /\ DOMAIN users \subseteq Person /\ \A p \in DOMAIN users : users[p] \in Username
    BY <1>0 DEF people, tables, RSound, RTypeOK
  <1> QED
    BY <1>0, <1>5, <1>7, <1>8, <1>9, NamesTask DEF k

LEMMA ExtendedUsers ==
  ASSUME RSound, NEW p \in Person, NEW n \in Username, users' = Extend(users, p, n)
  PROVE  /\ DOMAIN users' = DOMAIN users \cup {p} /\ DOMAIN users' \subseteq Person
         /\ \A q \in DOMAIN users' : users'[q] \in Username
  BY DEF RSound, RTypeOK, Extend

LEMMA AddUserIsSound == ASSUME RSound, NEW h \in Hand \cup {Deferred}, AddUser(h) PROVE RSound'
  <1> DEFINE k == work[h]
             t == IF k.task.guild = NoGuild THEN Free ELSE [k.task EXCEPT !.does = "member"]
  <1>0. /\ k.does = "write" /\ work' = [work EXCEPT ![h] = t] /\ users' = Extend(users, k.person, k.task.name)
        /\ UNCHANGED <<people, deferChan, today, events, crossed, members, chatlog>>
    BY DEF AddUser, Turn, Then
  <1>1. WorkOK /\ k \in HandTask \cup QueueTask /\ InTask(k)
    BY DEF RSound, RTypeOK, WorkOK
  <1>2. k \in Writing
    BY <1>0, <1>1, TaskKinds
  <1>3. k.task \in Reading /\ k.task.person = k.person /\ k.task.guild = k.guild /\ k.person \in Person /\ Dated(k) = k.task.date
    BY <1>0, <1>1, <1>2 DEF Writing, InTask, Dated
  <1>4. k.task.name \in Username
    BY <1>3 DEF Reading
  <1>5. ASSUME k.guild # NoGuild
        PROVE  /\ t \in Reading /\ t.does = "member" /\ t.person = k.person /\ t.guild = k.guild /\ Dated(t) = Dated(k)
               /\ t \in HandTask /\ t \in QueueTask /\ InTask(t)
    <2>1. t = [does |-> "member", person |-> k.task.person, name |-> k.task.name, guild |-> k.task.guild, date |-> k.task.date]
      BY <1>3, <1>5 DEF Reading
    <2>2. k.task.person \in Person /\ k.task.guild \in Guild /\ k.task.date \in Nat
      BY <1>3, <1>5 DEF Reading
    <2>3. t \in Reading
      BY <1>4, <2>1, <2>2 DEF Reading
    <2> QED
      BY <1>3, <2>1, <2>2, <2>3 DEF Dated, InTask, HandTask, QueueTask
  <1>6. k.guild = NoGuild => t = Free
    BY <1>3
  <1> HIDE DEF t, k
  <1>7. t \in HandTask /\ t \in QueueTask /\ InTask(t)
    BY <1>5, <1>6, FreeIsATask
  <1>8. Continues(h, t)
    BY <1>0, <1>1, <1>7, WorkContinues
  <1>9. /\ DOMAIN users' = DOMAIN users \cup {k.person} /\ DOMAIN users' \subseteq Person
        /\ \A q \in DOMAIN users' : users'[q] \in Username
    BY <1>0, <1>3, <1>4, ExtendedUsers
  <1>10. UNCHANGED <<since, spoke, members, crossed, account, today>>
    BY <1>0 DEF people
  <1>11. t = Free \/ (t.does = "member" /\ Dated(t) = Dated(k) /\ t.person = k.person /\ t.guild = k.guild
                      /\ t.person \in DOMAIN users')
    BY <1>5, <1>6, <1>9
  <1>12. t = Free => k.guild = NoGuild
    BY <1>5 DEF Free
  <1> QED
    BY <1>0, <1>8, <1>9, <1>10, <1>11, <1>12, NamesTask DEF k

(* The end of a task of the queue that writes users or names. *)
LEMMA AddMessageIsSound == ASSUME RSound, NEW h \in Hand \cup {Deferred}, AddMessage(h) \/ SawUser(h) PROVE RSound'
  <1> DEFINE k == work[h]
  <1>0. /\ k.does \in {"chat", "saw"} /\ work' = [work EXCEPT ![h] = Free]
        /\ users' = users \/ (AddMessage(h) /\ users' = Extend(users, k.person, k.name))
        /\ UNCHANGED <<people, deferChan, today, events, crossed, members>>
    BY DEF AddMessage, SawUser, Turn, Then
  <1>1. WorkOK /\ k \in HandTask \cup QueueTask
    BY DEF RSound, RTypeOK, WorkOK
  <1>2. k \in Messaging /\ h = Deferred
    <2>1. k \in Messaging /\ k \notin HandTask
      BY <1>0, <1>1, TaskKinds
    <2> QED
      BY <2>1 DEF RSound, RTypeOK, WorkOK
  <1>3. k.person \in Person /\ k.name \in Username
    BY <1>2 DEF Messaging
  <1> HIDE DEF k
  <1>4. Continues(h, Free)
    BY <1>0, <1>1, FreeIsATask, WorkContinues
  <1>5. /\ DOMAIN users \subseteq DOMAIN users' /\ DOMAIN users' \subseteq Person
        /\ \A q \in DOMAIN users' : users'[q] \in Username
    <2>1. CASE users' = users
      BY <2>1 DEF RSound, RTypeOK
    <2>2. CASE users' = Extend(users, k.person, k.name)
      BY <1>3, <2>2, ExtendedUsers
    <2> QED
      BY <1>0, <2>1, <2>2
  <1>6. UNCHANGED <<since, spoke, members, crossed, account, today>>
    BY <1>0 DEF people
  <1> QED
    BY <1>0, <1>2, <1>4, <1>5, <1>6, NamesTask DEF k

(* A task on the row of a member. *)
LEMMA RowTask ==
  ASSUME RSound, NEW h \in Hand \cup {Deferred}, NEW t, Continues(h, t), NEW q \in Person, NEW f \in Guild, Of(work[h], q, f),
         UNCHANGED <<since, spoke, crossed, account, today, users>>,
         DOMAIN members' \subseteq Place, \A x \in DOMAIN members' : members'[x] \in [firstSeen : Nat, firstMessage : Nat],
         \A x : x # <<q, f>> => /\ x \in DOMAIN members' <=> x \in DOMAIN members
                                /\ x \in DOMAIN members => members'[x] = members[x],
         t = Free \/ (t.does = "saw" /\ Of(t, q, f) /\ h = Deferred),
         RowInTurn(q, f) => RowTells(q, f)'
  PROVE  RSound'
  <1>1. RTypeOK'
    BY DEF RSound, RTypeOK, Continues
  <1>2. ASSUME NEW p \in Person, NEW g \in Guild, <<p, g>> # <<q, f>> PROVE Untouched(p, g)
    <2>1. ~Of(work[h], p, g) /\ ~Of(t, p, g)
      BY <1>2, RecordsAssumption DEF Of, Free
    <2>2. /\ \A k \in Hand : Of(work[k], p, g) \/ Of(work'[k], p, g) => work'[k] = work[k]
          /\ \A k : Of(k, p, g) => (k \in Late <=> k \in Late')
      BY <2>1, OthersContinue
    <2> QED
      BY <1>2, <2>2 DEF Untouched
  <1>3. ASSUME RowInTurn(q, f) PROVE RowInTurn(q, f)'
    <2>0. RowTells(q, f)'
      BY <1>3
    <2>1. CASE h \in Hand
      <3>1. t = Free
        BY <2>1, RecordsAssumption
      <3> QED
        BY <1>3, <2>0, <2>1, <3>1, HandEnds
    <2>2. CASE h = Deferred
      <3>1. work[h] # Free /\ work[h] \in Late
        BY <2>2, RecordsAssumption DEF Of, Free, Continues
      <3>2. Queued(work[h], q, f)
        BY <1>3, <3>1 DEF RowInTurn
      <3>3. t # Free => Queued(work[h], q, f)'
        <4>1. SUFFICES ASSUME t # Free PROVE Queued(work[h], q, f)'
          OBVIOUS
        <4>2. work'[h].does = "saw"
          BY <4>1 DEF Continues
        <4> QED
          BY <3>2, <4>2 DEF Queued
      <3> QED
        BY <1>3, <2>0, <2>2, <3>1, <3>3, QueueGoesOn
    <2> QED
      BY <2>1, <2>2
  <1>4. \A p \in Person, g \in Guild : <<p, g>> \notin crossed'.rows /\ RowInTurn(p, g) => Untouched(p, g) \/ RowInTurn(p, g)'
    <2> SUFFICES ASSUME NEW p \in Person, NEW g \in Guild, RowInTurn(p, g) PROVE Untouched(p, g) \/ RowInTurn(p, g)'
      OBVIOUS
    <2>1. CASE <<p, g>> # <<q, f>>
      BY <1>2, <2>1
    <2>2. CASE p = q /\ g = f
      BY <1>3, <2>2
    <2> QED
      BY <2>1, <2>2
  <1> QED
    BY <1>1, <1>4, SoundByCases

LEMMA EarlierDate ==
  ASSUME NEW s \in Nat, NEW a \in {NoDate, s}, NEW b \in {NoDate, s}
  PROVE  GetMinDate(a, b) \in {NoDate, s} /\ (b = s => GetMinDate(a, b) = s)
  <1>1. Min({s, s}) = s
    BY DEF Min
  <1> QED
    BY <1>1 DEF GetMinDate

LEMMA EarlierIsTyped ==
  ASSUME NEW a \in Nat, NEW b \in Nat
  PROVE  GetMinDate(a, b) \in Nat
  <1>1. \A x \in {a, b} : (\A y \in {a, b} : x =< y) => x \in Nat
    OBVIOUS
  <1>2. \E x \in {a, b} : \A y \in {a, b} : x =< y
    OBVIOUS
  <1>3. Min({a, b}) \in {a, b}
    BY <1>2 DEF Min
  <1> QED
    BY <1>3 DEF GetMinDate

LEMMA AddMemberIsSound ==
  ASSUME RSound, NEW h \in Hand \cup {Deferred}, AddMember(h), NEW q \in Person, NEW f \in Guild, Of(work[h], q, f)
  PROVE  RSound'
  <1> DEFINE k == work[h]
             place == <<q, f>>
             date == k.date
             new == [firstSeen |-> date, firstMessage |-> NoDate]
  <1>0. /\ k.does = "member" /\ work' = [work EXCEPT ![h] = Free]
        /\ UNCHANGED <<people, deferChan, today, events, crossed, users, aliases, chatlog, known>>
    BY DEF AddMember, Turn, Then, Of
  <1>1. members' = IF q \notin DOMAIN users THEN members
                   ELSE IF place \in DOMAIN members THEN [members EXCEPT ![place].firstSeen = GetMinDate(date, @)]
                   ELSE Extend(members, place, new)
    BY DEF AddMember, Of
  <1>2. WorkOK /\ k \in HandTask \cup QueueTask
    BY <1>0 DEF RSound, RTypeOK, WorkOK
  <1>3. k \in Reading /\ Dated(k) = date
    BY <1>0, <1>2, TaskKinds DEF Dated
  <1>4. date \in Nat
    BY <1>3 DEF Reading
  <1>5. new \in [firstSeen : Nat, firstMessage : Nat]
    BY <1>4 DEF NoDate
  <1>6. Continues(h, Free)
    BY <1>0, <1>2, FreeIsATask, WorkContinues
  <1>7. place \in Place /\ DOMAIN members \subseteq Place /\ \A x \in DOMAIN members : members[x] \in [firstSeen : Nat, firstMessage : Nat]
    BY <1>2, <1>4 DEF Place, RSound, RTypeOK
  <1>8. CASE q \notin DOMAIN users
    <2>1. members' = members
      BY <1>1, <1>8
    <2>2. ~RowInTurn(q, f)
      <3> SUFFICES ASSUME RowInTurn(q, f) PROVE FALSE
        OBVIOUS
      <3>1. Of(k, q, f)
        BY DEF Of
      <3>2. CASE h \in Hand
        BY <1>0, <1>8, <3>1, <3>2 DEF RowInTurn, Joining, Leaving
      <3>3. CASE h = Deferred
        <4>1. k \in Late
          BY <1>0, <1>6, <3>3 DEF Continues, Free
        <4> QED
          BY <1>0, <1>8, <3>1, <4>1 DEF RowInTurn, Queued
      <3> QED
        BY <3>2, <3>3
    <2>3. Of(work[h], q, f)
      BY DEF Of
    <2> HIDE DEF k
    <2> QED
      BY <1>0, <1>2, <1>4, <1>6, <1>7, <2>1, <2>2, <2>3, RowTask DEF people
  <1>9. CASE q \in DOMAIN users
    <2>1. DOMAIN members' = DOMAIN members \cup {place}
      BY <1>1, <1>9 DEF Extend
    <2>2. \A x \in DOMAIN members : x # place => members'[x] = members[x]
      BY <1>1, <1>9 DEF Extend
    <2>3. place \notin DOMAIN members => members'[place] = new
      BY <1>1, <1>9 DEF Extend
    <2>4. ASSUME place \in DOMAIN members
          PROVE  /\ members'[place] = [members[place] EXCEPT !.firstSeen = GetMinDate(date, members[place].firstSeen)]
                 /\ members'[place].firstSeen = GetMinDate(date, members[place].firstSeen)
                 /\ members'[place].firstMessage = members[place].firstMessage
                 /\ members'[place] \in [firstSeen : Nat, firstMessage : Nat]
      <3>1. members' = [members EXCEPT ![place].firstSeen = GetMinDate(date, @)]
        BY <1>1, <1>9, <2>4
      <3>2. members'[place] = [members[place] EXCEPT !.firstSeen = GetMinDate(date, members[place].firstSeen)]
        BY <2>4, <3>1
      <3>3. members[place] \in [firstSeen : Nat, firstMessage : Nat] /\ GetMinDate(date, members[place].firstSeen) \in Nat
        BY <1>4, <1>7, <2>4, EarlierIsTyped
      <3> QED
        BY <3>2, <3>3
    <2>5. DOMAIN members' \subseteq Place /\ \A x \in DOMAIN members' : members'[x] \in [firstSeen : Nat, firstMessage : Nat]
      BY <1>5, <1>7, <2>1, <2>2, <2>3, <2>4
    <2>6. ASSUME RowInTurn(q, f) PROVE RowTells(q, f)'
      <3>0. Of(k, q, f) /\ since \in [Place -> Nat]
        BY DEF Of, RSound, RTypeOK
      <3>1. CASE h \in Hand
        <4>1. Joining(k, q, f)
          BY <1>0, <2>6, <3>0, <3>1 DEF RowInTurn, Leaving
        <4>2. since[place] > LongAgo /\ date = since[place] /\ place \notin spoke /\ place \notin DOMAIN members
          BY <1>3, <4>1 DEF Joining
        <4>3. members'[place].firstSeen = since[place] /\ members'[place].firstMessage = NoDate /\ place \in DOMAIN members'
          BY <2>1, <2>3, <4>2
        <4>4. since[place] # NoDate
          BY <1>7, <3>0, <4>2 DEF LongAgo, NoDate
        <4> HIDE DEF new, k
        <4> QED
          BY <1>0, <4>2, <4>3, <4>4 DEF RowTells, people
      <3>2. CASE h = Deferred
        <4>1. k # Free /\ k \in Late
          BY <1>0, <1>6, <3>2 DEF Continues, Free
        <4>2. RowTells(q, f) /\ Queued(k, q, f)
          BY <2>6, <3>0, <4>1 DEF RowInTurn, OneWriter, At, Of
        <4>3. since[place] # NoDate /\ date \in {NoDate, since[place]} /\ since[place] \in Nat
          BY <1>0, <1>3, <1>7, <3>0, <4>2 DEF Queued
        <4>4. \A c \in Late : c.does = "sent" => c \in Late'
          BY <1>0, <1>6, <3>2 DEF Continues
        <4>5. CASE place \in DOMAIN members
          <5>1. members[place].firstSeen \in {NoDate, since[place]}
            BY <4>2, <4>5 DEF RowTells
          <5>2. /\ GetMinDate(date, members[place].firstSeen) \in {NoDate, since[place]}
                /\ members[place].firstSeen = since[place] => GetMinDate(date, members[place].firstSeen) = since[place]
            BY <4>3, <5>1, EarlierDate
          <5>3. members'[place].firstSeen \in {NoDate, since[place]} /\ members'[place].firstMessage = members[place].firstMessage
                /\ (members[place].firstSeen = since[place] => members'[place].firstSeen = since[place])
            BY <2>4, <4>5, <5>2
          <5>4. place \in DOMAIN members' /\ since' = since /\ spoke' = spoke
            BY <1>0, <2>1 DEF people
          <5> HIDE DEF k
          <5> QED
            BY <4>2, <4>4, <4>5, <5>3, <5>4 DEF RowTells
        <4>6. CASE place \notin DOMAIN members
          <5>1. ~(since[place] > LongAgo)
            BY <4>2, <4>6 DEF RowTells
          <5>2. members'[place].firstSeen = date /\ members'[place].firstMessage = NoDate
            BY <2>3, <4>6
          <5>3. since' = since
            BY <1>0 DEF people
          <5> HIDE DEF k, new
          <5> QED
            BY <4>3, <5>1, <5>2, <5>3 DEF RowTells
        <4> QED
          BY <4>5, <4>6
      <3> QED
        BY <3>1, <3>2
    <2>7. Of(work[h], q, f) /\ UNCHANGED <<since, spoke, crossed, account, today, users>>
      BY <1>0 DEF Of, people
    <2>8. \A x : x # place => /\ x \in DOMAIN members' <=> x \in DOMAIN members
                              /\ x \in DOMAIN members => members'[x] = members[x]
      BY <2>1, <2>2
    <2> HIDE DEF k
    <2> QED
      BY <1>2, <1>4, <1>6, <2>5, <2>6, <2>7, <2>8, RowTask
  <1> QED
    BY <1>8, <1>9

LEMMA RemoveMemberIsSound ==
  ASSUME RSound, NEW h \in Hand \cup {Deferred}, RemoveMember(h), NEW q \in Person, NEW f \in Guild, Of(work[h], q, f)
  PROVE  RSound'
  <1> DEFINE k == work[h]
             place == <<q, f>>
  <1>0. /\ k.does = "remove" /\ work' = [work EXCEPT ![h] = Free]
        /\ UNCHANGED <<people, deferChan, today, events, crossed, users, aliases, chatlog, known>>
        /\ members' = Restrict(members, DOMAIN members \ {place})
    BY DEF RemoveMember, Turn, Then, Of
  <1>1. WorkOK /\ k \in HandTask \cup QueueTask
    BY DEF RSound, RTypeOK, WorkOK
  <1>2. k \in Removing /\ h \in Hand
    <2>1. k \in Removing /\ k \notin QueueTask
      BY <1>0, <1>1, TaskKinds
    <2> QED
      BY <2>1 DEF RSound, RTypeOK, WorkOK
  <1>4. Continues(h, Free)
    BY <1>0, <1>1, FreeIsATask, WorkContinues
  <1>5. DOMAIN members' = DOMAIN members \ {place} /\ \A x \in DOMAIN members' : members'[x] = members[x]
    BY <1>0 DEF Restrict
  <1>6. DOMAIN members' \subseteq Place /\ \A x \in DOMAIN members' : members'[x] \in [firstSeen : Nat, firstMessage : Nat]
    BY <1>5 DEF RSound, RTypeOK
  <1>7. RowInTurn(q, f) => RowTells(q, f)'
    <2> SUFFICES ASSUME RowInTurn(q, f) PROVE RowTells(q, f)'
      OBVIOUS
    <2>1. Leaving(k, q, f)
      BY <1>0, <1>2 DEF RowInTurn, Joining
    <2>2. since' = since /\ since[place] = 0
      BY <1>0, <2>1 DEF people, Leaving, NoDate
    <2>3. place \notin DOMAIN members'
      BY <1>5
    <2> QED
      BY <2>2, <2>3 DEF RowTells, LongAgo
  <1>8. UNCHANGED <<since, spoke, crossed, account, today, users>>
    BY <1>0 DEF people
  <1>9. \A x : x # place => /\ x \in DOMAIN members' <=> x \in DOMAIN members
                            /\ x \in DOMAIN members => members'[x] = members[x]
    BY <1>5
  <1> HIDE DEF k
  <1> QED
    BY <1>4, <1>6, <1>7, <1>8, <1>9, RowTask DEF k

LEMMA SentMessageIsSound ==
  ASSUME RSound, NEW h \in Hand \cup {Deferred}, SentMessage(h), NEW q \in Person, NEW f \in Guild, Of(work[h], q, f)
  PROVE  RSound'
  <1> DEFINE k == work[h]
             t == [k EXCEPT !.does = "saw"]
             place == <<q, f>>
  <1>0. /\ k.does = "sent" /\ work' = [work EXCEPT ![h] = t]
        /\ UNCHANGED <<people, deferChan, today, events, crossed, users, aliases, chatlog, known>>
        /\ members' = IF place \notin DOMAIN members \/ members[place].firstMessage # NoDate THEN members
                      ELSE [members EXCEPT ![place].firstMessage = today]
    BY DEF SentMessage, Turn, Then, Of
  <1>1. WorkOK /\ k \in HandTask \cup QueueTask
    BY DEF RSound, RTypeOK, WorkOK
  <1>2. k \in Messaging /\ h = Deferred
    <2>1. k \in Messaging /\ k \notin HandTask
      BY <1>0, <1>1, TaskKinds
    <2> QED
      BY <2>1 DEF RSound, RTypeOK, WorkOK
  <1>3. Of(k, q, f)
    OBVIOUS
  <1>4. t \in Messaging /\ t.does = "saw" /\ t.person = q /\ t.guild = f
    BY <1>2, <1>3 DEF Messaging, Of
  <1> HIDE DEF t
  <1>5. t \in QueueTask /\ InTask(t) /\ Of(t, q, f)
    BY <1>4 DEF QueueTask, InTask, Of
  <1>6. Continues(h, t)
    BY <1>0, <1>1, <1>2, <1>5, RecordsAssumption, WorkContinues
  <1>7. /\ DOMAIN members \subseteq Place /\ \A x \in DOMAIN members : members[x] \in [firstSeen : Nat, firstMessage : Nat]
        /\ today \in Nat /\ today > LongAgo /\ since \in [Place -> Nat] /\ \A x \in Place : since[x] <= today
    BY DEF RSound, RTypeOK
  <1>8. DOMAIN members' = DOMAIN members /\ \A x : x # place /\ x \in DOMAIN members => members'[x] = members[x]
    BY <1>0
  <1>9. place \in DOMAIN members =>
          /\ members'[place].firstSeen = members[place].firstSeen
          /\ members[place].firstMessage # NoDate => members'[place].firstMessage = members[place].firstMessage
          /\ members[place].firstMessage = NoDate => members'[place].firstMessage = today
          /\ members'[place] \in [firstSeen : Nat, firstMessage : Nat]
    BY <1>0, <1>7
  <1>10. DOMAIN members' \subseteq Place /\ \A x \in DOMAIN members' : members'[x] \in [firstSeen : Nat, firstMessage : Nat]
    BY <1>7, <1>8, <1>9
  <1>11. RowInTurn(q, f) => RowTells(q, f)'
    <2> SUFFICES ASSUME RowInTurn(q, f) PROVE RowTells(q, f)'
      OBVIOUS
    <2>1. k # Free /\ k \in Late
      BY <1>0, <1>2, <1>6 DEF Continues, Free
    <2>2. RowTells(q, f) /\ Queued(k, q, f)
      BY <1>3, <2>1 DEF RowInTurn, OneWriter, At, Of
    <2>3. place \in spoke /\ since[place] <= today /\ today # NoDate /\ place \in Place /\ since[place] \in Nat
      BY <1>0, <1>3, <1>7, <2>2 DEF Queued, Place, LongAgo, NoDate
    <2>4. since' = since /\ spoke' = spoke
      BY <1>0 DEF people
    <2>5. place \in DOMAIN members => members'[place].firstMessage # NoDate /\ (members'[place].firstMessage >= since[place])
      BY <1>9, <2>2, <2>3 DEF RowTells
    <2> HIDE DEF k
    <2> QED
      BY <1>8, <1>9, <2>2, <2>3, <2>4, <2>5 DEF RowTells
  <1>12. UNCHANGED <<since, spoke, crossed, account, today, users>>
    BY <1>0 DEF people
  <1>13. \A x : x # place => /\ x \in DOMAIN members' <=> x \in DOMAIN members
                             /\ x \in DOMAIN members => members'[x] = members[x]
    BY <1>8
  <1> HIDE DEF k
  <1> QED
    BY <1>2, <1>3, <1>4, <1>5, <1>6, <1>10, <1>11, <1>12, <1>13, RowTask DEF k

LEMMA CleanIsSound == ASSUME RSound, NEW kept, CleanAliases(kept) PROVE RSound'
  <1> DEFINE remaining == {p \in DOMAIN users : p \in kept \/ \E g \in Guild : <<p, g>> \in DOMAIN members}
  <1>0. /\ UNCHANGED <<people, members, deferChan, work, today>> /\ users' = Restrict(users, remaining)
        /\ crossed'.rows = crossed.rows \cup {<<t.person, t.guild>> : t \in Pending}
    BY DEF CleanAliases
  <1>1. DOMAIN users' \subseteq DOMAIN users /\ \A p \in DOMAIN users' : users'[p] = users[p]
    BY <1>0 DEF Restrict
  <1> HIDE DEF remaining
  <1>2. WorkOK' /\ Late' = Late
    BY <1>0 DEF RSound, RTypeOK, WorkOK, Late
  <1>3. RTypeOK'
    BY <1>0, <1>1, <1>2 DEF RSound, RTypeOK, people
  <1>4. ASSUME NEW p \in Person, NEW g \in Guild, <<p, g>> \notin crossed'.rows PROVE Untouched(p, g)
    <2>1. ~At(Pending, p, g)
      BY <1>0, <1>4 DEF At
    <2>2. ~(AtHand(p, g) \/ At(Late, p, g))
      BY <2>1, PendingKinds
    <2> QED
      BY <1>0, <1>2, <2>2 DEF Untouched, people
  <1>5. crossed.rows \subseteq crossed'.rows
    BY <1>0
  <1> QED
    BY <1>3, <1>4, <1>5, SoundByCases

LEMMA DayIsSound == ASSUME RSound, NextDay PROVE RSound'
  <1>0. UNCHANGED <<people, tables, deferChan, work, crossed>> /\ today' = today + 1
    BY DEF NextDay
  <1>1. today' \in Nat /\ today' > LongAgo /\ \A x \in Place : since[x] <= today'
    BY <1>0 DEF RSound, RTypeOK, LongAgo
  <1>2. WorkOK' /\ Late' = Late
    BY <1>0 DEF RSound, RTypeOK, WorkOK, Late
  <1>3. RTypeOK'
    BY <1>0, <1>1, <1>2 DEF RSound, RTypeOK, people, tables
  <1>4. \A p \in Person, g \in Guild : Untouched(p, g)
    BY <1>0, <1>2 DEF Untouched, people, tables
  <1> QED
    BY <1>0, <1>3, <1>4, SoundByCases

LEMMA RowTasksAreSound ==
  ASSUME RSound, NEW h \in Hand \cup {Deferred}, AddMember(h) \/ RemoveMember(h) \/ SentMessage(h)
  PROVE  RSound'
  <1>1. work[h].does \in {"member", "remove", "sent"}
    BY DEF AddMember, RemoveMember, SentMessage, Turn
  <1>2. work[h] \in HandTask \cup QueueTask /\ InTask(work[h])
    BY DEF RSound, RTypeOK, WorkOK
  <1>3. work[h].person \in Person /\ work[h].guild \in Guild
    <2>1. CASE work[h].does = "member"
      BY <1>2, <2>1, TaskKinds DEF Reading, InTask
    <2>2. CASE work[h].does = "remove"
      BY <1>2, <2>2, TaskKinds DEF Removing
    <2>3. CASE work[h].does = "sent"
      BY <1>2, <2>3, TaskKinds DEF Messaging
    <2> QED
      BY <1>1, <2>1, <2>2, <2>3
  <1>4. PICK q \in Person, f \in Guild : Of(work[h], q, f)
    BY <1>3 DEF Of
  <1> QED
    BY <1>4, AddMemberIsSound, RemoveMemberIsSound, SentMessageIsSound

LEMMA RecordsAreSound == MRSpec => []RSound
  <1>1. MRInit => RSound
    BY RecordsStart DEF RSound
  <1>2. RSound /\ [MRNext]_rvars => RSound'
    <2> SUFFICES ASSUME RSound, [MRNext]_rvars PROVE RSound'
      OBVIOUS
    <2>1. CASE \E h \in Hand, g \in Guild :
                 BanNewcomers(h, g) \/ BanRaid(h, g) \/ \E p \in Person : GuildMemberAdd(h, p, g) \/ MemberLeaves(h, p, g)
      <3>1. PICK h \in Hand, g \in Guild :
              BanNewcomers(h, g) \/ BanRaid(h, g) \/ \E p \in Person : GuildMemberAdd(h, p, g) \/ MemberLeaves(h, p, g)
        BY <2>1
      <3>2. PICK p \in Person : GuildMemberAdd(h, p, g) \/ MemberLeaves(h, p, g)
        BY <3>1 DEF BanNewcomers, BanRaid, Newcomers, RecentUsers
      <3> QED
        BY <3>2, JoinIsSound, LeaveIsSound
    <2>2. CASE \E p \in Person, n \in Username : UserUpdate(p, n)
      BY <2>2, UserUpdateIsSound
    <2>3. CASE \E p \in Person, g \in Guild, logged \in BOOLEAN : MessageSent(p, g, logged)
      BY <2>3, MessageIsSound
    <2>4. CASE \E p \in Person, g \in Guild : \E date \in {NoDate, since[p, g]} : MemberUpdate(p, g, date)
      BY <2>4, MemberUpdateIsSound
    <2>5. CASE \E h \in Hand \cup {Deferred} :
                 ReadName(h) \/ AddUser(h) \/ AddMember(h) \/ RemoveMember(h) \/ AddMessage(h) \/ SentMessage(h) \/ SawUser(h)
      <3>1. PICK h \in Hand \cup {Deferred} :
                 ReadName(h) \/ AddUser(h) \/ AddMember(h) \/ RemoveMember(h) \/ AddMessage(h) \/ SentMessage(h) \/ SawUser(h)
        BY <2>5
      <3> QED
        BY <3>1, ReadNameIsSound, AddUserIsSound, AddMessageIsSound, RowTasksAreSound
    <2>6. CASE ReceiveTask \/ NextDay \/ \E kept \in SUBSET chatlog : CleanAliases(kept)
      BY <2>6, ReceiveIsSound, DayIsSound, CleanIsSound
    <2>7. CASE UNCHANGED rvars
      <3>1. UNCHANGED <<people, tables, deferChan, work, today, crossed>>
        BY <2>7 DEF rvars
      <3>2. WorkOK' /\ Late' = Late
        BY <3>1 DEF RSound, RTypeOK, WorkOK, Late
      <3>3. RTypeOK'
        BY <3>1, <3>2 DEF RSound, RTypeOK, people, tables
      <3>4. \A p \in Person, g \in Guild : Untouched(p, g)
        BY <3>1, <3>2 DEF Untouched, people, tables
      <3> QED
        BY <3>1, <3>3, <3>4, SoundByCases
    <2> QED
      BY <2>1, <2>2, <2>3, <2>4, <2>5, <2>6, <2>7 DEF MRNext
  <1> QED
    BY <1>1, <1>2, PTL DEF MRSpec

(* Once everything about a member is written, in turn, the members table tells *)
(* where they are, since when and whether they have posted there since         *)
(* (GuildMemberAdd, GuildMemberRemove, deferProcessing, AddMember).            *)
THEOREM RecordsAlwaysFollow == MRSpec => []RecordsFollowMembers
  <1>1. RSound => RecordsFollowMembers
    <2> SUFFICES ASSUME RSound, NEW p \in Person, NEW g \in Guild, ~At(Pending, p, g), <<p, g>> \notin crossed.rows
                 PROVE  /\ <<p, g>> \in DOMAIN members =>
                             /\ since[<<p, g>>] # NoDate /\ members[<<p, g>>].firstSeen \in {NoDate, since[<<p, g>>]}
                             /\ members[<<p, g>>].firstMessage # NoDate =>
                                  <<p, g>> \in spoke /\ members[<<p, g>>].firstMessage >= since[<<p, g>>]
                        /\ since[<<p, g>>] > LongAgo =>
                             /\ <<p, g>> \in DOMAIN members /\ members[<<p, g>>].firstSeen = since[<<p, g>>]
                             /\ <<p, g>> \in spoke => members[<<p, g>>].firstMessage # NoDate
      BY DEF RecordsFollowMembers
    <2>1. RowInTurn(p, g) /\ ~AtHand(p, g) /\ ~At(Late, p, g)
      BY PendingKinds DEF RSound, RowsInTurn
    <2>2. RowTells(p, g) /\ ~\E t \in Late : Of(t, p, g) /\ t.does = "sent"
      BY <2>1 DEF RowInTurn, At, Of
    <2> QED
      BY <2>2 DEF RowTells
  <1> QED
    BY <1>1, RecordsAreSound, PTL

-----------------------------------------------------------------------------
(***************************************************************************)
(* MemberRecords: the names.                                                *)
(***************************************************************************)
Naming(t, p) == t.person = p /\ t.does \in {"read", "write"}
NameOf(t) == IF t.does = "write" THEN t.task.name ELSE t.name

(* What comes behind a task of the queue: after a logged message its author is seen, *)
(* and after a name that is no longer borne comes the one that is.                    *)
Followed(acc, t, B) ==
  /\ t.does = "chat" => \E s \in B : s.does = "sent" /\ s.person = t.person /\ s.name = t.name
  /\ t.does \in {"read", "write", "chat"} /\ NameOf(t) # acc[t.person] =>
       \E s \in B : s.does = "read" /\ s.person = t.person
Behind(q, i) == {q[j] : j \in (i + 1)..Len(q)}
Ordered(acc, first, q) == Followed(acc, first, ToSet(q)) /\ \A i \in 1..Len(q) : Followed(acc, q[i], Behind(q, i))
InOrder == Ordered(account, work[Deferred], deferChan)

(* A name on record that is not listed is about to be. *)
Listed ==
  \A p \in DOMAIN users : <<p, users[p]>> \notin DOMAIN aliases =>
    \E t \in Late : t.does \in {"sent", "saw"} /\ t.person = p /\ t.name = users[p]

Alias(a, x) == x \in Person \X Username /\ a[x] \in [duration : Int, stamp : Nat] /\ a[x].stamp <= today
AliasesOK(a) == (\A x \in DOMAIN a : Alias(a, x)) /\ \A p \in Person : IsFiniteSet(NamesOf(a, p))
NTypeOK ==
  /\ AliasesOK(aliases) /\ \A x \in DOMAIN aliases : x[1] \in DOMAIN users
  /\ known \in [Person -> Nat]

(* Until when the time of a person is counted. *)
CountedTo(p) == IF <<p, users[p]>> \in DOMAIN aliases THEN aliases[<<p, users[p]>>].stamp ELSE today

OneNamer(p) ==
  \A h \in Hand : Naming(work[h], p) =>
    /\ NameOf(work[h]) = account[p] /\ ~Names(Late, p)
    /\ \A k \in Hand : Naming(work[k], p) => k = h
ReadStill(p) ==
  \A h \in Hand \cup {Deferred} : work[h].does = "write" /\ work[h].person = p /\ work[h].old # NoName =>
    p \in DOMAIN users /\ users[p] = work[h].old
BearsName(p) == p \in DOMAIN users /\ ~Names(Pending, p) => users[p] = account[p]
TimeKept(p) == p \in DOMAIN users => TimeOf(aliases, p) <= CountedTo(p) - known[p]
NameInTurn(p) == OneNamer(p) /\ ReadStill(p) /\ BearsName(p) /\ TimeKept(p)

NSound == NTypeOK /\ InOrder /\ Listed /\ \A p \in Person : p \notin crossed.names => NameInTurn(p)


-----------------------------------------------------------------------------
(* Times are sums over a person's names. *)
Durations(a, p) == [n \in NamesOf(a, p) |-> [amount |-> a[<<p, n>>].duration]]
Timed(a, p) == IsFiniteSet(NamesOf(a, p)) /\ \A n \in NamesOf(a, p) : a[<<p, n>>].duration \in Int

LEMMA TimeIsSum ==
  ASSUME NEW a, NEW p, Timed(a, p)
  PROVE  \E sum : Sums(sum, Durations(a, p), NamesOf(a, p)) /\ TimeOf(a, p) = sum[NamesOf(a, p)]
  <1> DEFINE S == NamesOf(a, p)
             c == Durations(a, p)
             Rule(g) == [s \in SUBSET S |-> IF s = {} THEN 0 ELSE a[<<p, SomeOf(s)>>].duration + g[s \ {SomeOf(s)}]]
             all == CHOOSE g : g = Rule(g)
  <1>1. Amounts(c, S)
    BY DEF Amounts, Timed, Durations
  <1>2. TimeOf(a, p) = all[S]
    BY DEF TimeOf, MapThenSumSet, MapThenFoldSet, SomeOf
  <1>3. ASSUME NEW g PROVE Rule(g) = SumRule(g, c, S)
    <2>1. \A s \in SUBSET S : s # {} => c[SomeOf(s)].amount = a[<<p, SomeOf(s)>>].duration
      BY SomeOfIsIn DEF Durations
    <2> HIDE DEF S, c
    <2> QED
      BY <2>1 DEF SumRule
  <1>4. PICK g : g = Rule(g)
    <2>1. PICK g : g = SumRule(g, c, S)
      BY <1>1, SumExists
    <2> QED
      BY <1>3, <2>1
  <1>5. all = Rule(all)
    <2> HIDE DEF Rule
    <2> QED
      BY <1>4
  <1>6. PICK sum : sum = Rule(sum) /\ TimeOf(a, p) = sum[S]
    <2> HIDE DEF Rule
    <2> QED
      BY <1>2, <1>5
  <1>7. Sums(sum, c, S)
    BY <1>1, <1>3, <1>6 DEF Sums
  <1> QED
    BY <1>6, <1>7

Worn(a, p, n) == IF n \in NamesOf(a, p) THEN a[<<p, n>>].duration ELSE 0

(* A name is added, or its time changed. *)
LEMMA TimeChanges ==
  ASSUME NEW a, NEW b, NEW p, Timed(a, p), NEW n, NamesOf(b, p) = NamesOf(a, p) \cup {n},
         \A m \in NamesOf(a, p) \ {n} : b[<<p, m>>].duration = a[<<p, m>>].duration,
         NEW d \in Int, b[<<p, n>>].duration = d
  PROVE  Timed(b, p) /\ TimeOf(a, p) \in Int /\ Worn(a, p, n) \in Int /\ TimeOf(b, p) = TimeOf(a, p) + (d - Worn(a, p, n))
  <1> DEFINE S == NamesOf(a, p)
             R == NamesOf(b, p)
             T == S \ {n}
  <1>2. Timed(b, p)
    BY FS_AddElement DEF Timed
  <1>3. PICK sum : Sums(sum, Durations(a, p), S) /\ TimeOf(a, p) = sum[S]
    BY TimeIsSum
  <1>4. PICK mus : Sums(mus, Durations(b, p), R) /\ TimeOf(b, p) = mus[R]
    BY <1>2, TimeIsSum
  <1>5. T \subseteq S /\ T \subseteq R /\ n \in R /\ R \ {n} = T
    OBVIOUS
  <1>6. SameAmounts(Durations(a, p), Durations(b, p), T)
    BY <1>5 DEF SameAmounts, Durations
  <1>7. sum[T] = mus[T]
    BY <1>3, <1>4, <1>5, <1>6, SumsAgree
  <1>8. mus[R] = Durations(b, p)[n].amount + mus[T] /\ sum[T] \in Int /\ sum[S] \in Int
    <2>1. PICK c, U, e, V : c = Durations(a, p) /\ U = S /\ e = Durations(b, p) /\ V = R
      OBVIOUS
    <2>2. Sums(sum, c, U) /\ Sums(mus, e, V) /\ T \in SUBSET U /\ U \in SUBSET U /\ V \in SUBSET V /\ n \in V
      BY <1>3, <1>4, <1>5, <2>1
    <2>3. sum[T] \in Int /\ sum[U] \in Int /\ mus[V] = e[n].amount + mus[V \ {n}]
      BY <2>2, SumTakesAny
    <2> QED
      BY <1>5, <2>1, <2>3
  <1>9. Durations(b, p)[n].amount = b[<<p, n>>].duration
    BY <1>5 DEF Durations
  <1>10. CASE n \in S
    <2>000. PICK c, U : c = Durations(a, p) /\ U = S
      OBVIOUS
    <2>00. Sums(sum, c, U) /\ U \in SUBSET U
      BY <1>3, <2>000
    <2>0. \A x \in S : sum[S] = Durations(a, p)[x].amount + sum[S \ {x}]
      BY <2>000, <2>00, SumTakesAny
    <2>1. sum[S] = Durations(a, p)[n].amount + sum[T]
      BY <1>10, <2>0
    <2>2. Durations(a, p)[n].amount = a[<<p, n>>].duration /\ a[<<p, n>>].duration \in Int
      BY <1>10 DEF Durations, Timed
    <2>3. Worn(a, p, n) = a[<<p, n>>].duration
      BY <1>10 DEF Worn
    <2> QED
      BY <1>2, <1>3, <1>4, <1>7, <1>8, <1>9, <2>1, <2>2, <2>3
  <1>11. CASE n \notin S
    <2>1. T = S /\ Worn(a, p, n) = 0
      BY <1>11 DEF Worn
    <2>2. mus[R] = d + sum[S]
      BY <1>7, <1>8, <1>9, <2>1
    <2>3. TimeOf(b, p) = d + TimeOf(a, p) /\ TimeOf(a, p) \in Int
      BY <1>3, <1>4, <1>8, <2>2
    <2> QED
      BY <1>2, <2>1, <2>3
  <1> QED
    BY <1>10, <1>11

LEMMA TimeStays ==
  ASSUME NEW a, NEW b, NEW p, Timed(a, p), NamesOf(b, p) = NamesOf(a, p),
         \A m \in NamesOf(a, p) : b[<<p, m>>].duration = a[<<p, m>>].duration
  PROVE  Timed(b, p) /\ TimeOf(a, p) \in Int /\ TimeOf(b, p) = TimeOf(a, p)
  <1> DEFINE S == NamesOf(a, p)
  <1>1. Timed(b, p)
    BY DEF Timed
  <1>2. PICK sum : Sums(sum, Durations(a, p), S) /\ TimeOf(a, p) = sum[S]
    BY TimeIsSum
  <1>3. PICK mus : Sums(mus, Durations(b, p), S) /\ TimeOf(b, p) = mus[S]
    BY <1>1, TimeIsSum
  <1>4. SameAmounts(Durations(a, p), Durations(b, p), S)
    BY DEF SameAmounts, Durations
  <1>5. sum[S] = mus[S]
    BY <1>2, <1>3, <1>4, SumsAgree
  <1>6. sum[S] \in Int
    BY <1>2, SumTakesAny
  <1> QED
    BY <1>1, <1>2, <1>3, <1>5, <1>6

LEMMA NoTime ==
  ASSUME NEW a, NEW p, NamesOf(a, p) = {}
  PROVE  Timed(a, p) /\ TimeOf(a, p) = 0
  <1>1. Timed(a, p)
    BY FS_EmptySet DEF Timed
  <1>2. PICK sum : Sums(sum, Durations(a, p), {}) /\ TimeOf(a, p) = sum[{}]
    BY <1>1, TimeIsSum
  <1> QED
    BY <1>1, <1>2 DEF Sums, SumRule

LEMMA ExtendedAliases ==
  ASSUME today \in Nat, NEW a, AliasesOK(a), NEW p \in Person, NEW n \in Username,
         NEW x \in [duration : Int, stamp : Nat], x.stamp <= today, NEW b, b = Extend(a, <<p, n>>, x)
  PROVE  /\ AliasesOK(b) /\ DOMAIN b = DOMAIN a \cup {<<p, n>>} /\ b[<<p, n>>] = x
         /\ \A y \in DOMAIN a : y # <<p, n>> => b[y] = a[y]
         /\ NamesOf(b, p) = NamesOf(a, p) \cup {n} /\ \A q : q # p => NamesOf(b, q) = NamesOf(a, q)
         /\ TimeOf(a, p) \in Int
         /\ Worn(a, p, n) \in Int /\ TimeOf(b, p) = TimeOf(a, p) + (x.duration - Worn(a, p, n))
  <1>1. DOMAIN b = DOMAIN a \cup {<<p, n>>} /\ b[<<p, n>>] = x /\ \A y \in DOMAIN a : y # <<p, n>> => b[y] = a[y]
    BY DEF Extend
  <1>2. NamesOf(b, p) = NamesOf(a, p) \cup {n} /\ \A q : q # p => NamesOf(b, q) = NamesOf(a, q)
    BY <1>1 DEF NamesOf
  <1>3. ASSUME NEW q \in Person PROVE IsFiniteSet(NamesOf(b, q))
    <2>1. IsFiniteSet(NamesOf(a, q)) /\ IsFiniteSet(NamesOf(a, q) \cup {n})
      BY FS_AddElement DEF AliasesOK
    <2>2. CASE q = p
      BY <1>2, <2>1, <2>2
    <2>3. CASE q # p
      BY <1>2, <2>1, <2>3
    <2> QED
      BY <2>2, <2>3
  <1>4. \A y \in DOMAIN b : Alias(b, y)
    <2> SUFFICES ASSUME NEW y \in DOMAIN b PROVE Alias(b, y)
      OBVIOUS
    <2>1. CASE y = <<p, n>>
      BY <1>1, <2>1 DEF Alias
    <2>2. CASE y # <<p, n>>
      BY <1>1, <2>2 DEF Alias, AliasesOK
    <2> QED
      BY <2>1, <2>2
  <1>5. Timed(a, p)
    BY DEF Timed, AliasesOK, Alias, NamesOf
  <1>6. TimeOf(a, p) \in Int
    BY <1>5, TimeStays
  <1>7. Worn(a, p, n) \in Int /\ TimeOf(b, p) = TimeOf(a, p) + (x.duration - Worn(a, p, n))
    <2>1. \A m \in NamesOf(a, p) \ {n} : b[<<p, m>>].duration = a[<<p, m>>].duration
      BY <1>1 DEF NamesOf
    <2>2. PICK d \in Int : d = x.duration /\ b[<<p, n>>].duration = d
      BY <1>1
    <2>3. Worn(a, p, n) \in Int /\ TimeOf(b, p) = TimeOf(a, p) + (d - Worn(a, p, n))
      BY <1>2, <1>5, <2>1, <2>2, TimeChanges
    <2> QED
      BY <2>2, <2>3
  <1> QED
    BY <1>1, <1>2, <1>3, <1>4, <1>6, <1>7 DEF AliasesOK

(* AddUser counts the time since the old name was last counted. *)
Since(a, p, old) == IF old # NoName /\ old \in NamesOf(a, p) THEN today - a[<<p, old>>].stamp ELSE 0

LEMMA EndOldIs ==
  ASSUME today \in Nat, AliasesOK(aliases), NEW p \in Person, NEW old \in Username \cup {NoName}, NEW b, b = EndOld(p, old)
  PROVE  /\ AliasesOK(b) /\ DOMAIN aliases \subseteq DOMAIN b /\ \A y \in DOMAIN b : y \notin DOMAIN aliases => y = <<p, old>> /\ old # NoName
         /\ old # NoName => <<p, old>> \in DOMAIN b /\ b[<<p, old>>].stamp = today
         /\ \A q : q # p => NamesOf(b, q) = NamesOf(aliases, q) /\ \A m \in NamesOf(aliases, q) : b[<<q, m>>] = aliases[<<q, m>>]
         /\ TimeOf(aliases, p) \in Int /\ Since(aliases, p, old) \in Int
         /\ TimeOf(b, p) = TimeOf(aliases, p) + Since(aliases, p, old)
  <1>1. CASE old = NoName
    <2>1. b = aliases /\ Since(aliases, p, old) = 0
      BY <1>1 DEF EndOld, Since
    <2>2. Timed(aliases, p)
      BY DEF Timed, AliasesOK, Alias, NamesOf
    <2>3. TimeOf(aliases, p) \in Int
      BY <2>2, TimeStays
    <2> QED
      BY <1>1, <2>1, <2>3
  <1>2. CASE old # NoName
    <2> DEFINE x == [duration |-> IF <<p, old>> \in DOMAIN aliases
                                  THEN aliases[<<p, old>>].duration + (today - aliases[<<p, old>>].stamp) ELSE 0,
                     stamp |-> today]
    <2>1. b = Extend(aliases, <<p, old>>, x) /\ old \in Username
      BY <1>2 DEF EndOld
    <2>2. <<p, old>> \in DOMAIN aliases <=> old \in NamesOf(aliases, p)
      BY <2>1 DEF NamesOf
    <2>3. <<p, old>> \in DOMAIN aliases =>
            aliases[<<p, old>>].duration \in Int /\ aliases[<<p, old>>].stamp \in Nat
      BY DEF AliasesOK, Alias
    <2>4. x \in [duration : Int, stamp : Nat] /\ x.stamp = today /\ Since(aliases, p, old) \in Int
      BY <1>2, <2>2, <2>3 DEF Since
    <2>5. x.duration = Worn(aliases, p, old) + Since(aliases, p, old)
      BY <1>2, <2>2, <2>3 DEF Since, Worn
    <2> HIDE DEF x
    <2>6. /\ AliasesOK(b) /\ DOMAIN b = DOMAIN aliases \cup {<<p, old>>} /\ b[<<p, old>>] = x
          /\ \A y \in DOMAIN aliases : y # <<p, old>> => b[y] = aliases[y]
          /\ \A q : q # p => NamesOf(b, q) = NamesOf(aliases, q)
          /\ TimeOf(aliases, p) \in Int /\ Worn(aliases, p, old) \in Int
          /\ TimeOf(b, p) = TimeOf(aliases, p) + (x.duration - Worn(aliases, p, old))
      BY <2>1, <2>4, ExtendedAliases
    <2>6a. TimeOf(b, p) = TimeOf(aliases, p) + Since(aliases, p, old)
      BY <2>4, <2>5, <2>6
    <2>7. \A q : q # p => \A m \in NamesOf(aliases, q) : b[<<q, m>>] = aliases[<<q, m>>]
      BY <2>6 DEF NamesOf
    <2> QED
      BY <1>2, <2>4, <2>6, <2>6a, <2>7
  <1> QED
    BY <1>1, <1>2

LEMMA RenamedIs ==
  ASSUME today \in Nat, AliasesOK(aliases), NEW p \in Person, NEW old \in Username \cup {NoName}, NEW name \in Username,
         NEW b, b = Renamed(p, old, name)
  PROVE  /\ AliasesOK(b) /\ DOMAIN aliases \subseteq DOMAIN b /\ \A y \in DOMAIN b : y \notin DOMAIN aliases => y[1] = p
         /\ <<p, name>> \in DOMAIN b /\ b[<<p, name>>].stamp = today
         /\ \A q : q # p => NamesOf(b, q) = NamesOf(aliases, q) /\ \A m \in NamesOf(aliases, q) : b[<<q, m>>] = aliases[<<q, m>>]
         /\ TimeOf(aliases, p) \in Int /\ Since(aliases, p, old) \in Int
         /\ TimeOf(b, p) = TimeOf(aliases, p) + Since(aliases, p, old)
  <1>1. PICK e : e = EndOld(p, old)
    OBVIOUS
  <1>2. /\ AliasesOK(e) /\ DOMAIN aliases \subseteq DOMAIN e /\ \A y \in DOMAIN e : y \notin DOMAIN aliases => y = <<p, old>> /\ old # NoName
        /\ old # NoName => <<p, old>> \in DOMAIN e /\ e[<<p, old>>].stamp = today
        /\ \A q : q # p => NamesOf(e, q) = NamesOf(aliases, q) /\ \A m \in NamesOf(aliases, q) : e[<<q, m>>] = aliases[<<q, m>>]
        /\ TimeOf(aliases, p) \in Int /\ Since(aliases, p, old) \in Int
        /\ TimeOf(e, p) = TimeOf(aliases, p) + Since(aliases, p, old)
    BY <1>1, EndOldIs
  <1>3. CASE name = old
    <2>1. b = e /\ old # NoName
      BY <1>1, <1>3, RecordsAssumption DEF Renamed
    <2> QED
      BY <1>2, <1>3, <2>1
  <1>4. CASE name # old
    <2> DEFINE x == [duration |-> IF <<p, name>> \in DOMAIN e THEN e[<<p, name>>].duration ELSE 0, stamp |-> today]
    <2>1. b = Extend(e, <<p, name>>, x)
      BY <1>1, <1>4 DEF Renamed
    <2>2. <<p, name>> \in DOMAIN e <=> name \in NamesOf(e, p)
      BY DEF NamesOf
    <2>3. <<p, name>> \in DOMAIN e => e[<<p, name>>].duration \in Int
      BY <1>2 DEF AliasesOK, Alias
    <2>4. x \in [duration : Int, stamp : Nat] /\ x.stamp = today /\ x.stamp <= today
      BY <2>3
    <2>4a. AliasesOK(e)
      BY <1>2
    <2>5. x.duration = Worn(e, p, name) /\ x.duration \in Int
      BY <2>2, <2>3 DEF Worn
    <2> HIDE DEF x
    <2>5a. PICK z \in [duration : Int, stamp : Nat] : z = x /\ z.stamp <= today
      BY <2>4
    <2>5b. b = Extend(e, <<p, name>>, z)
      BY <2>1, <2>5a
    <2>5c. /\ AliasesOK(b) /\ DOMAIN b = DOMAIN e \cup {<<p, name>>} /\ b[<<p, name>>] = z
           /\ \A y \in DOMAIN e : y # <<p, name>> => b[y] = e[y]
      BY <2>4a, <2>5a, <2>5b, ExtendedAliases
    <2>5e. NamesOf(b, p) = NamesOf(e, p) \cup {name} /\ \A q : q # p => NamesOf(b, q) = NamesOf(e, q)
      BY <2>5c DEF NamesOf
    <2>5f. Timed(e, p)
      BY <2>4a DEF Timed, AliasesOK, Alias, NamesOf
    <2>5g. \A m \in NamesOf(e, p) \ {name} : b[<<p, m>>].duration = e[<<p, m>>].duration
      BY <2>5c DEF NamesOf
    <2>5h. PICK d \in Int : d = z.duration /\ b[<<p, name>>].duration = d
      BY <2>5c
    <2>5d. TimeOf(e, p) \in Int /\ TimeOf(b, p) = TimeOf(e, p) + (d - Worn(e, p, name))
      BY <2>5e, <2>5f, <2>5g, <2>5h, TimeChanges
    <2>6. /\ AliasesOK(b) /\ DOMAIN b = DOMAIN e \cup {<<p, name>>} /\ b[<<p, name>>] = x
          /\ \A y \in DOMAIN e : y # <<p, name>> => b[y] = e[y]
          /\ \A q : q # p => NamesOf(b, q) = NamesOf(e, q)
          /\ TimeOf(e, p) \in Int /\ TimeOf(b, p) = TimeOf(e, p) + (x.duration - Worn(e, p, name))
      BY <2>5a, <2>5c, <2>5d, <2>5e, <2>5h
    <2>6a. TimeOf(b, p) = TimeOf(e, p)
      BY <2>5, <2>6
    <2>7. ASSUME NEW q, q # p, NEW m \in NamesOf(aliases, q) PROVE b[<<q, m>>] = aliases[<<q, m>>]
      <3>1. <<q, m>> \in DOMAIN e /\ <<q, m>> # <<p, name>>
        BY <1>2, <2>7 DEF NamesOf
      <3> QED
        BY <1>2, <2>6, <2>7, <3>1
    <2>8. \A y \in DOMAIN b : y \notin DOMAIN aliases => y[1] = p
      BY <1>2, <2>6
    <2> QED
      BY <1>2, <2>4, <2>6, <2>6a, <2>7, <2>8
  <1> QED
    BY <1>3, <1>4

-----------------------------------------------------------------------------
(* A step that is about another person's names. *)
RecordKept(p) ==
  /\ p \in DOMAIN users' => p \in DOMAIN users
  /\ p \in DOMAIN users => /\ p \in DOMAIN users' /\ users'[p] = users[p] /\ known'[p] = known[p]
                           /\ TimeOf(aliases', p) = TimeOf(aliases, p) /\ CountedTo(p) <= CountedTo(p)'
StillNamed(p) ==
  /\ \A h \in Hand : Naming(work[h], p) \/ Naming(work'[h], p) => work'[h] = work[h]
  /\ \A h \in Hand \cup {Deferred} : work'[h].does = "write" /\ work'[h].person = p => work'[h] = work[h]
  /\ Names(Late, p)' <=> Names(Late, p)
  /\ account'[p] = account[p]
  /\ RecordKept(p)

LEMMA NamesPending ==
  ASSUME NEW p
  PROVE  /\ Names(Pending, p) <=> (\E h \in Hand : Naming(work[h], p)) \/ Names(Late, p)
         /\ Names(InHand, p) <=> \E h \in Hand : Naming(work[h], p)
  <1>1. ~Naming(Free, p)
    BY DEF Naming, Free
  <1>2. Names(InHand, p) <=> \E h \in Hand : Naming(work[h], p)
    BY <1>1 DEF Names, InHand, Naming
  <1>3. Pending = InHand \cup Late
    BY DEF Pending, Late
  <1> QED
    BY <1>2, <1>3 DEF Names

LEMMA NamesPendingNext ==
  ASSUME NEW p
  PROVE  Names(Pending, p)' <=> (\E h \in Hand : Naming(work'[h], p)) \/ Names(Late, p)'
  <1>1. ~Naming(Free, p)
    BY DEF Naming, Free
  <1>2. Names(InHand, p)' <=> \E h \in Hand : Naming(work'[h], p)
    BY <1>1 DEF Names, InHand, Naming
  <1>3. Pending' = InHand' \cup Late'
    BY DEF Pending, Late
  <1> QED
    BY <1>2, <1>3 DEF Names

LEMMA CountedIsTime ==
  ASSUME NTypeOK, today \in Nat, NEW p \in Person
  PROVE  /\ CountedTo(p) \in Int /\ CountedTo(p) <= today /\ known[p] \in Int /\ Timed(aliases, p) /\ TimeOf(aliases, p) \in Int
         /\ \A n : <<p, n>> \in DOMAIN aliases => n \in NamesOf(aliases, p)
  <1>1. <<p, users[p]>> \in DOMAIN aliases =>
          aliases[<<p, users[p]>>].stamp \in Nat /\ aliases[<<p, users[p]>>].stamp <= today
    BY DEF NTypeOK, AliasesOK, Alias
  <1>2. Timed(aliases, p)
    BY DEF Timed, NTypeOK, AliasesOK, Alias, NamesOf
  <1>3. TimeOf(aliases, p) \in Int
    BY <1>2, TimeStays
  <1>4. \A n : <<p, n>> \in DOMAIN aliases => n \in NamesOf(aliases, p)
    BY DEF NTypeOK, AliasesOK, Alias, NamesOf
  <1> QED
    BY <1>1, <1>2, <1>3, <1>4 DEF CountedTo, NTypeOK

LEMMA NameStays ==
  ASSUME NTypeOK, NTypeOK', today \in Nat, today' \in Nat, NEW p \in Person, NameInTurn(p), StillNamed(p)
  PROVE  NameInTurn(p)'
  <1>1. (\E h \in Hand : Naming(work'[h], p)) <=> (\E h \in Hand : Naming(work[h], p))
    BY DEF StillNamed
  <1>2. OneNamer(p)'
    BY DEF NameInTurn, OneNamer, StillNamed
  <1>3. ReadStill(p)'
    BY DEF NameInTurn, ReadStill, StillNamed, RecordKept
  <1>4. Names(Pending, p)' <=> Names(Pending, p)
    <2>1. Names(Pending, p)' <=> (\E h \in Hand : Naming(work'[h], p)) \/ Names(Late, p)'
      BY NamesPendingNext
    <2> QED
      BY <1>1, <2>1, NamesPending DEF StillNamed
  <1>5. BearsName(p)'
    BY <1>4 DEF NameInTurn, BearsName, StillNamed, RecordKept
  <1>6. TimeKept(p)'
    <2> SUFFICES ASSUME p \in DOMAIN users' PROVE TimeOf(aliases', p) <= CountedTo(p)' - known'[p]
      BY DEF TimeKept
    <2>1. p \in DOMAIN users /\ TimeOf(aliases, p) <= CountedTo(p) - known[p]
      BY DEF NameInTurn, TimeKept, StillNamed, RecordKept
    <2>2. CountedTo(p)' \in Int
      BY DEF CountedTo, NTypeOK, AliasesOK, Alias
    <2>3. CountedTo(p) \in Int /\ known[p] \in Int /\ TimeOf(aliases, p) \in Int
      BY CountedIsTime
    <2> QED
      BY <2>1, <2>2, <2>3 DEF StillNamed, RecordKept
  <1> QED
    BY <1>2, <1>3, <1>5, <1>6 DEF NameInTurn

LEMMA CrossedNames ==
  ASSUME NEW tasks, NEW q, NEW f, NEW names, Crosses(tasks, q, f, names)
  PROVE  /\ crossed.names \subseteq crossed'.names
         /\ names /\ Names(tasks, q) => q \in crossed'.names
  BY DEF Crosses

(* What remains to be shown of a step: the people whose names it is about. *)
LEMMA NamesByCases ==
  ASSUME NSound, NTypeOK', InOrder', Listed', today \in Nat, today' \in Nat, crossed.names \subseteq crossed'.names,
         \A p \in Person : p \notin crossed'.names /\ NameInTurn(p) => StillNamed(p) \/ NameInTurn(p)'
  PROVE  NSound'
  <1> SUFFICES ASSUME NEW p \in Person, p \notin crossed'.names PROVE NameInTurn(p)'
    BY DEF NSound
  <1>1. NameInTurn(p)
    BY DEF NSound
  <1>2. CASE StillNamed(p)
    BY <1>1, <1>2, NameStays DEF NSound
  <1> QED
    BY <1>1, <1>2

(* The queue and what is behind its tasks. *)
LEMMA FollowedStill ==
  ASSUME NEW a, NEW b, NEW t, NEW B, NEW C, NEW D, Followed(a, t, B), B \subseteq D, C \subseteq D,
         t.does \in {"read", "write", "chat"} =>
           b[t.person] = a[t.person] \/ \E s \in C : s.does = "read" /\ s.person = t.person
  PROVE  Followed(b, t, D)
  BY DEF Followed

LEMMA SetOfJoined ==
  ASSUME NEW S, NEW q \in Seq(S), NEW r \in Seq(S)
  PROVE  /\ q \o r \in Seq(S) /\ Len(q \o r) = Len(q) + Len(r)
         /\ \A i \in 1..Len(q) : (q \o r)[i] = q[i]
         /\ \A i \in 1..Len(r) : (q \o r)[Len(q) + i] = r[i]
         /\ ToSet(q) \subseteq ToSet(q \o r) /\ ToSet(r) \subseteq ToSet(q \o r)
  <1>1. q \o r \in Seq(S) /\ Len(q \o r) = Len(q) + Len(r) /\ Len(q) \in Nat /\ Len(r) \in Nat
    OBVIOUS
  <1>2. \A i \in 1..Len(q) : (q \o r)[i] = q[i] /\ i \in 1..Len(q \o r)
    BY <1>1
  <1>3. \A i \in 1..Len(r) : (q \o r)[Len(q) + i] = r[i] /\ Len(q) + i \in 1..Len(q \o r)
    BY <1>1
  <1>4. DOMAIN q = 1..Len(q) /\ DOMAIN r = 1..Len(r) /\ DOMAIN (q \o r) = 1..Len(q \o r)
    BY <1>1
  <1> QED
    BY <1>1, <1>2, <1>3, <1>4 DEF ToSet

LEMMA BehindMoves ==
  ASSUME NEW q, NEW u, NEW i \in Int, NEW k \in Int, NEW d \in Int,
         \A j \in (i + 1)..Len(q) : j + d \in (k + 1)..Len(u) /\ u[j + d] = q[j]
  PROVE  Behind(q, i) \subseteq Behind(u, k)
  <1> SUFFICES ASSUME NEW x \in Behind(q, i) PROVE x \in Behind(u, k)
    OBVIOUS
  <1>1. PICK j \in (i + 1)..Len(q) : x = q[j]
    BY DEF Behind
  <1>2. PICK m : m = j + d /\ m \in (k + 1)..Len(u) /\ u[m] = x
    BY <1>1
  <1> QED
    BY <1>2 DEF Behind

(* Tasks r go to the end of the queue. *)
LEMMA OrderedJoined ==
  ASSUME NEW S, NEW q \in Seq(S), NEW r \in Seq(S), NEW a, NEW b, NEW first, Ordered(a, first, q),
         \A t \in ToSet(q) \cup {first} : t.does \in {"read", "write", "chat"} =>
           b[t.person] = a[t.person] \/ \E s \in ToSet(r) : s.does = "read" /\ s.person = t.person,
         \A i \in 1..Len(r) : Followed(b, r[i], Behind(r, i))
  PROVE  Ordered(b, first, q \o r)
  <1>1. PICK u : u = q \o r
    OBVIOUS
  <1>2. /\ u \in Seq(S) /\ Len(u) = Len(q) + Len(r) /\ Len(q) \in Nat /\ Len(r) \in Nat
        /\ \A i \in 1..Len(q) : u[i] = q[i]
        /\ \A i \in 1..Len(r) : u[Len(q) + i] = r[i]
        /\ ToSet(q) \subseteq ToSet(u) /\ ToSet(r) \subseteq ToSet(u)
    BY <1>1, SetOfJoined
  <1>3. Followed(b, first, ToSet(u))
    <2>1. Followed(a, first, ToSet(q))
      BY DEF Ordered
    <2> QED
      BY <1>2, <2>1, FollowedStill
  <1>4. ASSUME NEW i \in 1..Len(u) PROVE Followed(b, u[i], Behind(u, i))
    <2>1. CASE i <= Len(q)
      <3>1. i \in 1..Len(q) /\ u[i] = q[i] /\ q[i] \in ToSet(q)
        BY <1>2, <2>1 DEF ToSet
      <3>2. Followed(a, q[i], Behind(q, i))
        BY <3>1 DEF Ordered
      <3>3. Behind(q, i) \subseteq Behind(u, i)
        <4>1. \A j \in (i + 1)..Len(q) : j \in (i + 1)..Len(u) /\ u[j] = q[j]
          BY <1>2, <3>1
        <4> QED
          BY <4>1 DEF Behind
      <3>4. ToSet(r) \subseteq Behind(u, i)
        <4>1. \A j \in 1..Len(r) : Len(q) + j \in (i + 1)..Len(u) /\ u[Len(q) + j] = r[j]
          BY <1>2, <3>1
        <4>2. DOMAIN r = 1..Len(r)
          OBVIOUS
        <4> QED
          BY <4>1, <4>2 DEF Behind, ToSet
      <3> QED
        BY <3>1, <3>2, <3>3, <3>4, FollowedStill
    <2>2. CASE i > Len(q)
      <3>1. PICK k \in 1..Len(r) : i = Len(q) + k
        <4>1. i - Len(q) \in 1..Len(r) /\ i = Len(q) + (i - Len(q))
          BY <1>2, <2>2
        <4> QED
          BY <4>1
      <3>2. u[i] = r[k] /\ Followed(b, r[k], Behind(r, k))
        BY <1>2, <3>1
      <3>3. Behind(r, k) \subseteq Behind(u, i)
        <4>1. \A j \in (k + 1)..Len(r) : j + Len(q) \in (i + 1)..Len(u) /\ u[j + Len(q)] = r[j]
          <5>1. \A j \in 1..Len(r) : j + Len(q) = Len(q) + j
            BY <1>2
          <5> QED
            BY <1>2, <3>1, <5>1
        <4>2. PICK d \in Int : d = Len(q)
          BY <1>2
        <4>3. k \in Int /\ i \in Int
          BY <1>2, <3>1
        <4>4. \A j \in (k + 1)..Len(r) : j + d \in (i + 1)..Len(u) /\ u[j + d] = r[j]
          BY <4>1, <4>2
        <4> QED
          BY <4>3, <4>4, BehindMoves
      <3> QED
        BY <3>2, <3>3 DEF Followed
    <2> QED
      BY <1>2, <2>1, <2>2
  <1> QED
    BY <1>1, <1>3, <1>4 DEF Ordered

LEMMA OrderedTail ==
  ASSUME NEW S, NEW q \in Seq(S), q # << >>, NEW a, NEW first, Ordered(a, first, q)
  PROVE  Ordered(a, Head(q), Tail(q))
  <1>1. PICK u : u = Tail(q)
    OBVIOUS
  <1>2. /\ Len(q) \in Nat /\ Len(q) >= 1 /\ Head(q) = q[1] /\ Len(u) = Len(q) - 1 /\ DOMAIN u = 1..Len(u)
        /\ \A i \in 1..Len(u) : u[i] = q[i + 1]
    BY <1>1
  <1>3. ASSUME NEW i \in 0..Len(u) PROVE Behind(q, i + 1) \subseteq Behind(u, i)
    <2>1. PICK k, d : k = i + 1 /\ d = -1 /\ k \in Int /\ d \in Int /\ i \in Int
      OBVIOUS
    <2>2. ASSUME NEW j \in (k + 1)..Len(q) PROVE j + d \in (i + 1)..Len(u) /\ u[j + d] = q[j]
      <3>1. PICK m : m = j + d /\ m \in (i + 1)..Len(u) /\ m \in 1..Len(u) /\ m + 1 = j
        BY <1>2, <2>1
      <3> QED
        BY <1>2, <3>1
    <2>3. Behind(q, k) \subseteq Behind(u, i)
      BY <2>1, <2>2, BehindMoves
    <2> QED
      BY <2>1, <2>3
  <1>4. Followed(a, q[1], ToSet(u))
    <2>1. Followed(a, q[1], Behind(q, 1))
      BY <1>2 DEF Ordered
    <2>2. Behind(q, 0 + 1) \subseteq Behind(u, 0)
      BY <1>2, <1>3
    <2>3. Behind(u, 0) \subseteq ToSet(u)
      BY <1>2 DEF ToSet, Behind
    <2> QED
      BY <2>1, <2>2, <2>3 DEF Followed
  <1>5. ASSUME NEW i \in 1..Len(u) PROVE Followed(a, u[i], Behind(u, i))
    <2>1. Followed(a, q[i + 1], Behind(q, i + 1)) /\ u[i] = q[i + 1]
      BY <1>2 DEF Ordered
    <2>2. Behind(q, i + 1) \subseteq Behind(u, i)
      BY <1>2, <1>3
    <2> QED
      BY <2>1, <2>2 DEF Followed
  <1> QED
    BY <1>1, <1>2, <1>4, <1>5 DEF Ordered

(* A goroutine goes on with task t, which bears the name of the one before or none. *)
LEMMA OrderGoesOn ==
  ASSUME InOrder, NEW h \in Hand \cup {Deferred}, NEW t, work'[h] = t,
         \A k \in Hand \cup {Deferred} : k # h => work'[k] = work[k], deferChan' = deferChan, account' = account,
         \/ t.does \notin {"read", "write", "chat"}
         \/ t.does = "write" /\ work[h].does = "read" /\ t.task = work[h] /\ t.person = work[h].person
  PROVE  InOrder'
  <1>1. CASE h # Deferred
    BY <1>1 DEF InOrder
  <1>2. CASE h = Deferred
    <2>1. Ordered(account, work[Deferred], deferChan)
      BY DEF InOrder
    <2>2. Followed(account, t, ToSet(deferChan))
      BY <1>2, <2>1 DEF Ordered, Followed, NameOf
    <2>3. Ordered(account, t, deferChan)
      BY <2>1, <2>2 DEF Ordered
    <2> QED
      BY <1>2, <2>3 DEF InOrder
  <1> QED
    BY <1>1, <1>2

-----------------------------------------------------------------------------
LEMMA ListedStays ==
  ASSUME Listed, DOMAIN users' \subseteq DOMAIN users, \A p \in DOMAIN users' : users'[p] = users[p],
         \A p \in DOMAIN users' : <<p, users[p]>> \in DOMAIN aliases => <<p, users[p]>> \in DOMAIN aliases',
         \A t \in Late : t.does \in {"sent", "saw"} =>
           \/ \E k \in Late' : k.does \in {"sent", "saw"} /\ k.person = t.person /\ k.name = t.name
           \/ t.person \notin DOMAIN users' \/ <<t.person, t.name>> \in DOMAIN aliases'
  PROVE  Listed'
  <1> SUFFICES ASSUME NEW p \in DOMAIN users', <<p, users'[p]>> \notin DOMAIN aliases'
               PROVE  \E k \in Late' : k.does \in {"sent", "saw"} /\ k.person = p /\ k.name = users'[p]
    BY DEF Listed
  <1>1. p \in DOMAIN users /\ users'[p] = users[p] /\ <<p, users[p]>> \notin DOMAIN aliases
    OBVIOUS
  <1>2. PICK t \in Late : t.does \in {"sent", "saw"} /\ t.person = p /\ t.name = users[p]
    BY <1>1 DEF Listed
  <1> QED
    BY <1>1, <1>2

LEMMA RecordSame ==
  ASSUME NTypeOK, today \in Nat, today' = today, NEW p \in Person,
         p \in DOMAIN users' <=> p \in DOMAIN users,
         p \in DOMAIN users => /\ users[p] \in Username /\ users'[p] = users[p] /\ known'[p] = known[p]
                              /\ NamesOf(aliases', p) = NamesOf(aliases, p)
                              /\ \A m \in NamesOf(aliases, p) : aliases'[<<p, m>>] = aliases[<<p, m>>]
  PROVE  RecordKept(p)
  <1> SUFFICES ASSUME p \in DOMAIN users
               PROVE  TimeOf(aliases', p) = TimeOf(aliases, p) /\ CountedTo(p) <= CountedTo(p)'
    BY DEF RecordKept
  <1>1. CountedTo(p) \in Int /\ Timed(aliases, p)
    BY CountedIsTime
  <1>2. TimeOf(aliases', p) = TimeOf(aliases, p)
    <2>1. \A m \in NamesOf(aliases, p) : aliases'[<<p, m>>].duration = aliases[<<p, m>>].duration
      OBVIOUS
    <2>2. PICK b : b = aliases'
      OBVIOUS
    <2> QED
      BY <1>1, <2>1, <2>2, TimeStays
  <1>3. CountedTo(p)' = CountedTo(p)
    BY DEF CountedTo, NamesOf
  <1> QED
    BY <1>1, <1>2, <1>3

LEMMA NoRecordSame ==
  ASSUME NTypeOK, today \in Nat, today' = today, NEW p \in Person, UNCHANGED <<users, aliases, known>>
  PROVE  RecordKept(p)
  <1>1. CountedTo(p) \in Int
    BY CountedIsTime
  <1>2. CountedTo(p)' = CountedTo(p)
    BY DEF CountedTo
  <1> QED
    BY <1>1, <1>2 DEF RecordKept

(* A task that does not write this name goes on or is done. *)
LEMMA QuietTask ==
  ASSUME NEW h \in Hand \cup {Deferred}, NEW t, Continues(h, t), NEW p, ~Naming(work[h], p), ~Naming(t, p),
         account'[p] = account[p], RecordKept(p)
  PROVE  StillNamed(p)
  <1>1. \A k \in Hand \cup {Deferred} : Naming(work[k], p) \/ Naming(work'[k], p) => k # h /\ work'[k] = work[k]
    BY DEF Continues
  <1>2. \A k \in Hand \cup {Deferred} : work'[k].does = "write" /\ work'[k].person = p => Naming(work'[k], p)
    BY DEF Naming
  <1>3. Names(Late, p)' <=> Names(Late, p)
    <2>1. ASSUME NEW S PROVE Names(S, p) <=> \E k \in S : Naming(k, p)
      BY DEF Names, Naming
    <2>2. (\E k \in Late' : Naming(k, p)) <=> (\E k \in Late : Naming(k, p))
      BY DEF Continues
    <2>3. Names(Late, p)' <=> \E k \in Late' : Naming(k, p)
      BY DEF Names, Naming
    <2> QED
      BY <2>1, <2>2, <2>3
  <1> QED
    BY <1>1, <1>2, <1>3 DEF StillNamed

(* Events. *)
LEMMA JoinIsNamed ==
  ASSUME RSound, NSound, NEW h \in Hand, NEW q \in Person, NEW f \in Guild, GuildMemberAdd(h, q, f)
  PROVE  NSound'
  <1> DEFINE t == ProcessMember(q, account[q], f, today)
  <1>0. /\ work[h] = Free /\ work' = [work EXCEPT ![h] = t] /\ Crosses(Pending, q, f, TRUE)
        /\ UNCHANGED <<account, tables, deferChan, today>>
    BY DEF GuildMemberAdd
  <1>1. today \in Nat /\ WorkOK
    BY DEF RSound, RTypeOK
  <1>2. t \in Reading /\ t.does = "read" /\ t.person = q /\ t.name = account[q]
    BY <1>1 DEF RSound, RTypeOK, ProcessMember, Reading
  <1>3. t \in HandTask /\ InTask(t) /\ Naming(t, q) /\ NameOf(t) = account[q]
    BY <1>2 DEF HandTask, InTask, Naming, NameOf
  <1>3a. \A p : ~Naming(Free, p)
    BY DEF Naming, Free
  <1>3b. \A p : p # q => ~Naming(t, p)
    BY <1>2 DEF Naming
  <1> HIDE DEF t
  <1>4. Continues(h, t)
    BY <1>0, <1>1, <1>3, RecordsAssumption, WorkContinues
  <1>5. Late' = Late /\ work'[h] = t /\ work'[Deferred] = work[Deferred] /\ \A k \in Hand \cup {Deferred} : k # h => work'[k] = work[k]
    BY <1>4, RecordsAssumption DEF Continues
  <1>6. UNCHANGED <<users, aliases, known>>
    BY <1>0 DEF tables
  <1>7. NTypeOK' /\ InOrder' /\ Listed'
    BY <1>0, <1>5, <1>6 DEF NSound, NTypeOK, AliasesOK, Alias, InOrder, Listed
  <1>8. crossed.names \subseteq crossed'.names /\ (Names(Pending, q) => q \in crossed'.names)
    BY <1>0, CrossedNames
  <1>9. ASSUME NEW p \in Person, p # q PROVE StillNamed(p)
    <2>1. RecordKept(p)
      BY <1>0, <1>1, <1>6, NoRecordSame DEF NSound
    <2> QED
      BY <1>0, <1>3a, <1>3b, <1>4, <1>9, <2>1, QuietTask
  <1>10. ASSUME q \notin crossed'.names, NameInTurn(q) PROVE NameInTurn(q)'
    <2>1. ~Names(Late, q) /\ \A k \in Hand : ~Naming(work[k], q)
      BY <1>8, <1>10, NamesPending
    <2>2. \A k \in Hand : Naming(work'[k], q) => k = h
      BY <1>5, <2>1
    <2>3. OneNamer(q)'
      <3>1. ~Names(Late, q)'
        BY <1>5, <2>1 DEF Names
      <3> QED
        BY <1>0, <1>3, <1>5, <2>2, <3>1 DEF OneNamer
    <2>4. ReadStill(q)'
      BY <1>2, <1>5, <1>6, <1>10 DEF NameInTurn, ReadStill
    <2>5. Names(Pending, q)'
      BY <1>3, <1>5, NamesPendingNext
    <2>6. BearsName(q)'
      BY <2>5 DEF BearsName
    <2>7. TimeKept(q)'
      BY <1>0, <1>6, <1>10 DEF NameInTurn, TimeKept, CountedTo
    <2> QED
      BY <2>3, <2>4, <2>6, <2>7 DEF NameInTurn
  <1> QED
    BY <1>0, <1>1, <1>7, <1>8, <1>9, <1>10, NamesByCases

LEMMA LeaveIsNamed ==
  ASSUME RSound, NSound, NEW h \in Hand, NEW q \in Person, NEW f \in Guild, MemberLeaves(h, q, f)
  PROVE  NSound'
  <1> DEFINE t == [does |-> "remove", person |-> q, guild |-> f]
  <1>0. /\ work[h] = Free /\ work' = [work EXCEPT ![h] = t] /\ Crosses(Pending, q, f, FALSE)
        /\ UNCHANGED <<account, tables, deferChan, today>>
    BY DEF MemberLeaves
  <1>1. today \in Nat /\ WorkOK
    BY DEF RSound, RTypeOK
  <1>2. t \in HandTask /\ InTask(t) /\ \A p : ~Naming(t, p)
    BY DEF HandTask, Removing, InTask, Naming
  <1>3. \A p : ~Naming(Free, p)
    BY DEF Naming, Free
  <1> HIDE DEF t
  <1>4. Continues(h, t)
    BY <1>0, <1>1, <1>2, RecordsAssumption, WorkContinues
  <1>5. Late' = Late /\ work'[Deferred] = work[Deferred]
    BY <1>4, RecordsAssumption DEF Continues
  <1>6. UNCHANGED <<users, aliases, known>>
    BY <1>0 DEF tables
  <1>7. NTypeOK' /\ InOrder' /\ Listed'
    BY <1>0, <1>5, <1>6 DEF NSound, NTypeOK, AliasesOK, Alias, InOrder, Listed
  <1>8. crossed.names \subseteq crossed'.names
    BY <1>0, CrossedNames
  <1>9. ASSUME NEW p \in Person PROVE StillNamed(p)
    <2>1. RecordKept(p)
      BY <1>0, <1>1, <1>6, NoRecordSame DEF NSound
    <2> QED
      BY <1>0, <1>2, <1>3, <1>4, <2>1, QuietTask
  <1> QED
    BY <1>0, <1>1, <1>7, <1>8, <1>9, NamesByCases

(* Tasks Q go to the end of the queue. *)
LEMMA QueuedAreNamed ==
  ASSUME NSound, today \in Nat, NEW Q, Late' = Late \cup Q, UNCHANGED <<work, tables, today>>,
         NEW p \in Person, account'[p] = account[p], \A t \in Q : ~Naming(t, p)
  PROVE  StillNamed(p)
  <1>1. UNCHANGED <<users, aliases, known>>
    BY DEF tables
  <1>2. RecordKept(p)
    BY <1>1, NoRecordSame DEF NSound
  <1>3. Names(Late, p)' <=> Names(Late, p)
    <2>1. Names(Late, p)' <=> \E k \in Late' : Naming(k, p)
      BY DEF Names, Naming
    <2>2. Names(Late, p) <=> \E k \in Late : Naming(k, p)
      BY DEF Names, Naming
    <2> QED
      BY <2>1, <2>2
  <1> QED
    BY <1>2, <1>3 DEF StillNamed

LEMMA OneOrTwo ==
  ASSUME NEW T, NEW c \in T, NEW s \in T
  PROVE  /\ <<c>> \in Seq(T) /\ <<s>> \in Seq(T)
         /\ \A i \in 1..Len(<<s>>) : <<s>>[i] = s
         /\ <<c>> \o <<s>> \in Seq(T) /\ Len(<<c>> \o <<s>>) = 2
         /\ (<<c>> \o <<s>>)[1] = c /\ (<<c>> \o <<s>>)[2] = s
  <1>1. /\ <<c>> \in Seq(T) /\ <<s>> \in Seq(T) /\ Len(<<c>>) = 1 /\ Len(<<s>>) = 1 /\ <<c>>[1] = c /\ <<s>>[1] = s
    OBVIOUS
  <1>2. \A i \in 1..Len(<<s>>) : <<s>>[i] = s
    BY <1>1
  <1>3. PICK d \in Seq(T), e \in Seq(T) : d = <<c>> /\ e = <<s>> /\ Len(d) = 1 /\ Len(e) = 1 /\ d[1] = c /\ e[1] = s
    BY <1>1
  <1>4. /\ d \o e \in Seq(T) /\ Len(d \o e) = Len(d) + Len(e)
        /\ \A i \in 1..Len(d) + Len(e) : (d \o e)[i] = IF i <= Len(d) THEN d[i] ELSE e[i - Len(d)]
    BY ConcatProperties
  <1>5. (d \o e)[1] = d[1] /\ (d \o e)[2] = e[1] /\ Len(d \o e) = 2
    BY <1>3, <1>4
  <1> QED
    BY <1>1, <1>2, <1>3, <1>4, <1>5

LEMMA MessageIsNamed ==
  ASSUME RSound, NSound, NEW q \in Person, NEW f \in Guild, NEW logged \in BOOLEAN, MessageSent(q, f, logged)
  PROVE  NSound'
  <1> DEFINE task(does) == [does |-> does, person |-> q, name |-> account[q], guild |-> f]
             c == task("chat")
             s == task("sent")
             T == Reading \cup Messaging
  <1>0. /\ Crosses(InHand, q, f, FALSE)
        /\ UNCHANGED <<account, tables, work, today>>
    BY DEF MessageSent
  <1>00. deferChan' = deferChan \o << >> \o <<s>> \/ deferChan' = deferChan \o <<c>> \o <<s>>
    BY DEF MessageSent
  <1>1. /\ c \in Messaging /\ s \in Messaging /\ s.does = "sent" /\ c.does = "chat"
        /\ s.person = q /\ c.person = q /\ s.name = c.name /\ c.name = account[q]
    BY DEF RSound, RTypeOK, Messaging
  <1>2. today \in Nat /\ WorkOK
    BY DEF RSound, RTypeOK
  <1>3. deferChan \in Seq(T) /\ c \in T /\ s \in T
    BY <1>1, <1>2 DEF WorkOK
  <1> HIDE DEF c, s, T
  <1>4. PICK Q \in {{s}, {c, s}} : Late' = Late \cup Q
    BY <1>0, <1>00, <1>1, <1>2, MessageTasks
  <1>5. \A t \in Q : \A p : ~Naming(t, p)
    BY <1>1 DEF Naming
  <1>6. PICK d, e : d = <<c>> /\ e = <<s>>
    OBVIOUS
  <1>6a. d \in Seq(T) /\ e \in Seq(T) /\ \A i \in 1..Len(e) : e[i] = s
    BY <1>3, <1>6, OneOrTwo
  <1>6b. d \o e \in Seq(T) /\ Len(d \o e) = 2 /\ (d \o e)[1] = c /\ (d \o e)[2] = s
    BY <1>3, <1>6, OneOrTwo
  <1>6c. PICK r \in {e, d \o e} : deferChan' = deferChan \o r
    <2>1. deferChan \o << >> \o e = deferChan \o e
      BY <1>3, <1>6a
    <2>2. (deferChan \o d) \o e = deferChan \o (d \o e)
      BY <1>3, <1>6a, ConcatAssociative
    <2> QED
      BY <1>00, <1>6, <2>1, <2>2
  <1>7. InOrder'
    <2>1. r \in Seq(T)
      BY <1>6a, <1>6b, <1>6c
    <2>2. \A i \in 1..Len(r) : Followed(account, r[i], Behind(r, i))
      <3>1. CASE r = e
        <4>1. \A B : Followed(account, s, B)
          BY <1>1 DEF Followed
        <4>2. \A i \in 1..Len(r) : r[i] = s
          BY <1>6a, <3>1
        <4> QED
          BY <4>1, <4>2
      <3>2. CASE r = d \o e
        <4>1. Len(r) = 2 /\ r[1] = c /\ r[2] = s
          BY <1>6b, <3>2
        <4>2. s \in Behind(r, 1)
          BY <4>1 DEF Behind
        <4>3. Followed(account, c, Behind(r, 1)) /\ Followed(account, s, Behind(r, 2))
          BY <1>1, <4>2 DEF Followed, NameOf
        <4>4. \A i \in 1..Len(r) : i = 1 \/ i = 2
          BY <4>1
        <4> QED
          BY <4>1, <4>3, <4>4
      <3> QED
        BY <1>6c, <3>1, <3>2
    <2>3. Ordered(account, work[Deferred], deferChan)
      BY DEF NSound, InOrder
    <2>4. Ordered(account, work[Deferred], deferChan \o r)
      BY <1>3, <2>1, <2>2, <2>3, OrderedJoined
    <2> QED
      BY <1>0, <1>6c, <2>4 DEF InOrder
  <1>8. UNCHANGED <<users, aliases, known>>
    BY <1>0 DEF tables
  <1>9. NTypeOK' /\ Listed'
    BY <1>0, <1>4, <1>8 DEF NSound, NTypeOK, AliasesOK, Alias, Listed
  <1>10. crossed.names \subseteq crossed'.names
    BY <1>0, CrossedNames
  <1>11. ASSUME NEW p \in Person PROVE StillNamed(p)
    BY <1>0, <1>2, <1>4, <1>5, QueuedAreNamed
  <1> QED
    BY <1>0, <1>2, <1>7, <1>9, <1>10, <1>11, NamesByCases

(* A name, of an update of the user or of a member, is queued. *)
LEMMA AskedIsNamed ==
  ASSUME RSound, NSound, NEW q \in Person, NEW f, NEW t \in Reading, t.does = "read", t.person = q, t.name = account'[q],
         \A p \in Person : p # q => account'[p] = account[p],
         deferChan' = Append(deferChan, t), Crosses(InHand, q, f, TRUE), UNCHANGED <<tables, work, today>>
  PROVE  NSound'
  <1> DEFINE T == Reading \cup Messaging
  <1>1. today \in Nat /\ WorkOK
    BY DEF RSound, RTypeOK
  <1>2. WorkOK' /\ Late' = Late \cup {t}
    BY <1>1, AppendIsTyped
  <1>3. UNCHANGED <<users, aliases, known>>
    BY DEF tables
  <1>4. deferChan \in Seq(T) /\ <<t>> \in Seq(T) /\ Append(deferChan, t) = deferChan \o <<t>>
    BY <1>1 DEF WorkOK
  <1> HIDE DEF T
  <1>5. InOrder'
    <2>1. PICK b : b = account'
      OBVIOUS
    <2>2. ToSet(<<t>>) = {t}
      BY DEF ToSet
    <2>3. ASSUME NEW k \in ToSet(deferChan) \cup {work[Deferred]}, k.does \in {"read", "write", "chat"}
          PROVE  b[k.person] = account[k.person] \/ \E s \in ToSet(<<t>>) : s.does = "read" /\ s.person = k.person
      <3>1. k \in QueueTask
        BY <1>1, SetInSeq DEF WorkOK, QueueTask
      <3>2. k.person \in Person
        BY <2>3, <3>1, TaskKinds DEF Reading, Writing, Messaging
      <3> QED
        BY <2>1, <2>2, <3>2
    <2>4. Followed(b, t, {})
      BY <2>1 DEF Followed, NameOf
    <2>5. \A i \in 1..Len(<<t>>) : Followed(b, <<t>>[i], Behind(<<t>>, i))
      BY <2>4 DEF Followed
    <2>6. Ordered(account, work[Deferred], deferChan)
      BY DEF NSound, InOrder
    <2>7. PICK u : u = <<t>> /\ u \in Seq(T)
      BY <1>4
    <2>8. Ordered(b, work[Deferred], deferChan \o u)
      BY <1>4, <2>3, <2>5, <2>6, <2>7, OrderedJoined
    <2> QED
      BY <1>4, <2>1, <2>7, <2>8 DEF InOrder
  <1>6. NTypeOK' /\ Listed'
    BY <1>2, <1>3 DEF NSound, NTypeOK, AliasesOK, Alias, Listed
  <1>7. crossed.names \subseteq crossed'.names /\ (Names(InHand, q) => q \in crossed'.names)
    BY CrossedNames
  <1>8. ASSUME NEW p \in Person, p # q PROVE StillNamed(p)
    <2>1. PICK Q : Q = {t}
      OBVIOUS
    <2>2. Late' = Late \cup Q /\ \A k \in Q : ~Naming(k, p)
      BY <1>2, <1>8, <2>1 DEF Naming
    <2> QED
      BY <1>1, <1>8, <2>2, QueuedAreNamed
  <1>9. ASSUME q \notin crossed'.names, NameInTurn(q) PROVE NameInTurn(q)'
    <2>1. \A k \in Hand : ~Naming(work[k], q)
      BY <1>7, <1>9, NamesPending
    <2>2. OneNamer(q)'
      BY <2>1 DEF OneNamer
    <2>3. ReadStill(q)'
      BY <1>3, <1>9 DEF NameInTurn, ReadStill
    <2>4. Names(Late, q)'
      BY <1>2 DEF Names
    <2>5. BearsName(q)'
      BY <2>4, NamesPendingNext DEF BearsName
    <2>6. TimeKept(q)'
      BY <1>3, <1>9 DEF NameInTurn, TimeKept, CountedTo
    <2> QED
      BY <2>2, <2>3, <2>5, <2>6 DEF NameInTurn
  <1> QED
    BY <1>1, <1>5, <1>6, <1>7, <1>8, <1>9, NamesByCases

LEMMA UpdatesAreNamed ==
  ASSUME RSound, NSound, NEW q \in Person,
         (\E name \in Username : UserUpdate(q, name)) \/ \E f \in Guild : \E date \in {NoDate, since[q, f]} : MemberUpdate(q, f, date)
  PROVE  NSound'
  <1>1. account \in [Person -> Username]
    BY DEF RSound, RTypeOK
  <1>2. CASE \E name \in Username : UserUpdate(q, name)
    <2>1. PICK name \in Username : UserUpdate(q, name)
      BY <1>2
    <2>2. PICK t : t = ProcessUser(q, name)
      OBVIOUS
    <2>3. /\ account' = [account EXCEPT ![q] = name] /\ deferChan' = Append(deferChan, t) /\ Crosses(InHand, q, NoGuild, TRUE)
          /\ UNCHANGED <<tables, work, today>>
      BY <2>1, <2>2 DEF UserUpdate
    <2>4. t \in Reading /\ t.does = "read" /\ t.person = q /\ t.name = name
      BY <2>2 DEF Reading, ProcessUser, ProcessMember, NoDate
    <2>5. account'[q] = name /\ (\A p \in Person : p # q => account'[p] = account[p])
      BY <1>1, <2>3
    <2> QED
      BY <2>3, <2>4, <2>5, AskedIsNamed
  <1>3. CASE \E f \in Guild : \E date \in {NoDate, since[q, f]} : MemberUpdate(q, f, date)
    <2>0. PICK f \in Guild : \E date \in {NoDate, since[q, f]} : MemberUpdate(q, f, date)
      BY <1>3
    <2>1. PICK date \in {NoDate, since[q, f]} : MemberUpdate(q, f, date)
      BY <2>0
    <2>2. PICK t : t = ProcessMember(q, account[q], f, date)
      OBVIOUS
    <2>3. /\ since[<<q, f>>] # NoDate /\ date \in {since[<<q, f>>], NoDate}
          /\ deferChan' = Append(deferChan, t) /\ Crosses(InHand, q, f, TRUE)
          /\ UNCHANGED <<account, tables, work, today>>
      BY <2>1, <2>2 DEF MemberUpdate, people
    <2>3a. since[<<q, f>>] \in Nat
      BY DEF RSound, RTypeOK, Place
    <2>4. date \in Nat
      <3>1. NoDate \in Nat
        BY DEF NoDate
      <3> QED
        BY <2>3, <2>3a, <3>1
    <2>5. t \in Reading /\ t.does = "read" /\ t.person = q /\ t.name = account[q]
      BY <1>1, <2>2, <2>4 DEF Reading, ProcessMember
    <2> QED
      BY <2>3, <2>5, AskedIsNamed
  <1> QED
    BY <1>2, <1>3

LEMMA ReceiveIsNamed ==
  ASSUME RSound, NSound, ReceiveTask
  PROVE  NSound'
  <1> DEFINE t == Head(deferChan)
  <1>0. /\ deferChan # << >> /\ work[Deferred] = Free /\ work' = [work EXCEPT ![Deferred] = t] /\ deferChan' = Tail(deferChan)
        /\ UNCHANGED <<people, tables, today, events, crossed>> /\ WorkOK /\ today \in Nat
    BY DEF ReceiveTask, RSound, RTypeOK
  <1>1. t \in Reading \cup Messaging /\ ToSet(deferChan) = {t} \cup ToSet(deferChan')
    BY <1>0, SetOfHead DEF WorkOK
  <1>2. t # Free /\ t.does # "write"
    BY <1>1 DEF Reading, Messaging, Free
  <1>3. Ordered(account, t, deferChan')
    <2>1. Ordered(account, work[Deferred], deferChan)
      BY DEF NSound, InOrder
    <2> QED
      BY <1>0, <2>1, OrderedTail DEF WorkOK
  <1> HIDE DEF t
  <1>4. work'[Deferred] = t /\ \A h \in Hand : work'[h] = work[h]
    BY <1>0, RecordsAssumption DEF WorkOK
  <1>5. Late' = Late
    BY <1>0, <1>1, <1>2, <1>4 DEF Late
  <1>6. UNCHANGED <<users, aliases, known, account, today>>
    BY <1>0 DEF tables, people
  <1>7. NTypeOK' /\ InOrder' /\ Listed'
    BY <1>3, <1>4, <1>5, <1>6 DEF NSound, NTypeOK, AliasesOK, Alias, InOrder, Listed
  <1>8. ASSUME NEW p \in Person PROVE StillNamed(p)
    <2>1. RecordKept(p)
      BY <1>0, <1>6, NoRecordSame DEF NSound
    <2>2. Names(Late, p)' <=> Names(Late, p)
      BY <1>5 DEF Names
    <2> QED
      BY <1>2, <1>4, <1>6, <2>1, <2>2 DEF StillNamed
  <1> QED
    BY <1>0, <1>7, <1>8, NamesByCases

LEMMA DayIsNamed == ASSUME RSound, NSound, NextDay PROVE NSound'
  <1>0. UNCHANGED <<people, tables, deferChan, work, crossed>> /\ today' = today + 1 /\ today \in Nat
    BY DEF NextDay, RSound, RTypeOK
  <1>1. UNCHANGED <<users, aliases, known, account, Late>>
    BY <1>0 DEF tables, people, Late
  <1>2. NTypeOK'
    BY <1>0, <1>1 DEF NSound, NTypeOK, AliasesOK, Alias
  <1>3. InOrder' /\ Listed'
    BY <1>0, <1>1 DEF NSound, InOrder, Listed
  <1>4. ASSUME NEW p \in Person PROVE StillNamed(p)
    <2>1. CountedTo(p) <= CountedTo(p)'
      <3>1. CountedTo(p) \in Int
        BY <1>0, CountedIsTime DEF NSound
      <3> QED
        BY <1>0, <1>1, <3>1 DEF CountedTo
    <2>2. RecordKept(p)
      BY <1>1, <2>1 DEF RecordKept
    <2>3. Names(Late, p)' <=> Names(Late, p)
      BY <1>1 DEF Names
    <2> QED
      BY <1>0, <1>1, <2>2, <2>3 DEF StillNamed
  <1> QED
    BY <1>0, <1>2, <1>3, <1>4, NamesByCases

LEMMA PauseIsNamed == ASSUME RSound, NSound, UNCHANGED rvars PROVE NSound'
  <1>0. UNCHANGED <<people, tables, deferChan, work, crossed, today>> /\ today \in Nat
    BY DEF rvars, RSound, RTypeOK
  <1>1. UNCHANGED <<users, aliases, known, account, Late>>
    BY <1>0 DEF tables, people, Late
  <1>2. NTypeOK' /\ InOrder' /\ Listed'
    BY <1>0, <1>1 DEF NSound, NTypeOK, AliasesOK, Alias, InOrder, Listed
  <1>3. ASSUME NEW p \in Person PROVE StillNamed(p)
    <2>1. RecordKept(p)
      BY <1>0, <1>1, NoRecordSame DEF NSound
    <2>2. Names(Late, p)' <=> Names(Late, p)
      BY <1>1 DEF Names
    <2> QED
      BY <1>0, <1>1, <2>1, <2>2 DEF StillNamed
  <1> QED
    BY <1>0, <1>2, <1>3, NamesByCases

-----------------------------------------------------------------------------
(* Writes. *)
LEMMA ReadIsNamed == ASSUME RSound, NSound, NEW h \in Hand \cup {Deferred}, ReadName(h) PROVE NSound'
  <1> DEFINE k == work[h]
             name == IF k.person \in DOMAIN users THEN users[k.person] ELSE NoName
             t == [does |-> "write", task |-> k, person |-> k.person, guild |-> k.guild, old |-> name]
  <1>00. PICK q : q = k.person
    OBVIOUS
  <1>0. /\ k.does = "read" /\ work' = [work EXCEPT ![h] = t]
        /\ UNCHANGED <<people, deferChan, today, events, crossed, tables>>
    BY DEF ReadName, Turn, Then
  <1>1. WorkOK /\ k \in HandTask \cup QueueTask /\ today \in Nat
    BY DEF RSound, RTypeOK, WorkOK
  <1>2. k \in Reading
    BY <1>0, <1>1, TaskKinds
  <1>3. name \in Username \cup {NoName}
    BY DEF RSound, RTypeOK
  <1>4. t \in Writing
    BY <1>2, <1>3 DEF Writing, Reading
  <1>5. /\ t.does = "write" /\ t.task = k /\ t.person = q /\ NameOf(t) = NameOf(k) /\ InTask(t) /\ t.old = name
        /\ Naming(t, q) /\ Naming(k, q) /\ q \in Person /\ t # Free
    BY <1>00, <1>0, <1>2 DEF InTask, NameOf, Naming, Reading, Free
  <1>5a. \A p : p # q => ~Naming(t, p) /\ ~Naming(k, p)
    BY <1>5 DEF Naming
  <1>5b. name # NoName => q \in DOMAIN users /\ users[q] = name
    BY <1>00
  <1>6. t \in HandTask /\ t \in QueueTask
    BY <1>4 DEF HandTask, QueueTask
  <1> HIDE DEF t, k, name
  <1>7. Continues(h, t)
    BY <1>0, <1>1, <1>5, <1>6, WorkContinues DEF k
  <1>8. work'[h] = t /\ \A i \in Hand \cup {Deferred} : i # h => work'[i] = work[i]
    BY <1>7 DEF Continues
  <1>9. UNCHANGED <<users, aliases, known, account, today, deferChan>>
    BY <1>0 DEF tables, people
  <1>10. InOrder'
    BY <1>00, <1>0, <1>5, <1>8, <1>9, OrderGoesOn DEF NSound, k
  <1>11. NTypeOK'
    BY <1>9 DEF NSound, NTypeOK, AliasesOK, Alias
  <1>12. Listed'
    <2>1. \A i \in Late : i.does \in {"sent", "saw"} => i \in Late'
      BY <1>0, <1>7 DEF Continues, k
    <2> QED
      BY <1>9, <2>1, ListedStays DEF NSound
  <1>13. ASSUME NEW p \in Person, p # q PROVE StillNamed(p)
    <2>1. RecordKept(p)
      BY <1>1, <1>9, NoRecordSame DEF NSound
    <2> QED
      BY <1>5a, <1>7, <1>9, <1>13, <2>1, QuietTask DEF k
  <1>14. ASSUME NameInTurn(q) PROVE NameInTurn(q)'
    <2>1. OneNamer(q)'
      <3>1. CASE h \in Hand
        <4>1. NameOf(k) = account[q] /\ ~Names(Late, q) /\ \A i \in Hand : Naming(work[i], q) => i = h
          BY <1>5, <1>14, <3>1 DEF NameInTurn, OneNamer, k
        <4>2. \A i \in Hand : Naming(work'[i], q) => i = h
          BY <1>8, <4>1
        <4>3. ~Names(Late, q)'
          BY <1>7, <3>1, <4>1 DEF Continues, Names
        <4> QED
          BY <1>5, <1>8, <1>9, <4>1, <4>2, <4>3 DEF OneNamer
      <3>2. CASE h = Deferred
        <4>1. Names(Late, q)
          <5>1. k \in Late
            BY <1>0, <1>7, <3>2 DEF Continues, k, Free
          <5> QED
            BY <1>5, <5>1 DEF Names, Naming
        <4>2. \A i \in Hand : ~Naming(work[i], q)
          BY <1>14, <4>1 DEF NameInTurn, OneNamer
        <4>3. \A i \in Hand : ~Naming(work'[i], q)
          BY <1>8, <3>2, <4>2, RecordsAssumption
        <4> QED
          BY <4>3 DEF OneNamer
      <3> QED
        BY <3>1, <3>2
    <2>2. ReadStill(q)'
      <3> SUFFICES ASSUME NEW i \in Hand \cup {Deferred}, work'[i].does = "write", work'[i].person = q, work'[i].old # NoName
                   PROVE  q \in DOMAIN users' /\ users'[q] = work'[i].old
        BY DEF ReadStill
      <3>1. CASE i = h
        BY <1>5, <1>5b, <1>8, <1>9, <3>1
      <3>2. CASE i # h
        <4>1. work'[i] = work[i]
          BY <1>8, <3>2
        <4> QED
          BY <1>9, <1>14, <4>1 DEF NameInTurn, ReadStill
      <3> QED
        BY <3>1, <3>2
    <2>3. Names(Pending, q)'
      <3>1. CASE h \in Hand
        BY <1>5, <1>8, <3>1, NamesPendingNext
      <3>2. CASE h = Deferred
        <4>1. t \in Late'
          BY <1>5, <1>8, <3>2 DEF Late
        <4>2. Names(Late, q)'
          BY <1>5, <4>1 DEF Names
        <4> QED
          BY <4>2, NamesPendingNext
      <3> QED
        BY <3>1, <3>2
    <2>4. BearsName(q)'
      BY <2>3 DEF BearsName
    <2>5. TimeKept(q)'
      BY <1>9, <1>14 DEF NameInTurn, TimeKept, CountedTo
    <2> QED
      BY <2>1, <2>2, <2>4, <2>5 DEF NameInTurn
  <1>15. crossed' = crossed
    BY <1>0
  <1> QED
    BY <1>1, <1>9, <1>10, <1>11, <1>12, <1>13, <1>14, <1>15, NamesByCases

LEMMA RowTasksAreNamed ==
  ASSUME RSound, NSound, NEW h \in Hand \cup {Deferred}, AddMember(h) \/ RemoveMember(h) \/ SentMessage(h)
  PROVE  NSound'
  <1>1. /\ work[h].does \in {"member", "remove", "sent"}
        /\ UNCHANGED <<people, deferChan, today, events, crossed, users, aliases, known>>
        /\ WorkOK /\ work[h] \in HandTask \cup QueueTask /\ today \in Nat
    BY DEF AddMember, RemoveMember, SentMessage, Turn, RSound, RTypeOK, WorkOK
  <1>2. PICK t : /\ work' = [work EXCEPT ![h] = t]
                 /\ \/ t = Free /\ work[h].does \in {"member", "remove"}
                    \/ t = [work[h] EXCEPT !.does = "saw"] /\ work[h].does = "sent"
    BY DEF AddMember, RemoveMember, SentMessage, Turn, Then
  <1>3. ASSUME work[h].does = "sent"
        PROVE  /\ h = Deferred /\ t.does = "saw" /\ t.person = work[h].person /\ t.name = work[h].name
               /\ t \in QueueTask /\ InTask(t) /\ t # Free
    <2>1. work[h] \in Messaging /\ work[h] \notin HandTask
      BY <1>1, <1>3, TaskKinds
    <2>2. h = Deferred
      BY <1>1, <2>1 DEF WorkOK
    <2>3. t = [work[h] EXCEPT !.does = "saw"]
      BY <1>2, <1>3
    <2>4. t = [does |-> "saw", person |-> work[h].person, name |-> work[h].name, guild |-> work[h].guild]
      BY <2>1, <2>3 DEF Messaging
    <2>5. t \in Messaging
      BY <2>1, <2>4 DEF Messaging
    <2> QED
      BY <2>2, <2>4, <2>5 DEF QueueTask, InTask, Free
  <1>4. t \in QueueTask /\ InTask(t) /\ (h \in Hand => t \in HandTask) /\ t.does \in {"idle", "saw"}
    BY <1>2, <1>3, FreeIsATask, RecordsAssumption DEF Free
  <1>5. Continues(h, t)
    BY <1>1, <1>2, <1>4, WorkContinues
  <1>6. work'[h] = t /\ \A i \in Hand \cup {Deferred} : i # h => work'[i] = work[i]
    BY <1>5 DEF Continues
  <1>7. account' = account
    BY <1>1 DEF people
  <1>8. InOrder'
    BY <1>1, <1>4, <1>6, <1>7, OrderGoesOn DEF NSound
  <1>9. NTypeOK'
    BY <1>1 DEF NSound, NTypeOK, AliasesOK, Alias
  <1>10. Listed'
    <2>1. ASSUME NEW i \in Late, i.does \in {"sent", "saw"}
          PROVE  \E j \in Late' : j.does \in {"sent", "saw"} /\ j.person = i.person /\ j.name = i.name
      <3>1. CASE i = work[h] /\ h = Deferred
        <4>1. t \in Late'
          BY <1>1, <1>3, <1>6, <2>1, <3>1 DEF Late
        <4> QED
          BY <1>1, <1>3, <2>1, <3>1, <4>1
      <3>2. CASE ~(i = work[h] /\ h = Deferred)
        <4>1. i \in Late'
          BY <1>5, <3>2 DEF Continues
        <4> QED
          BY <2>1, <4>1
      <3> QED
        BY <3>1, <3>2
    <2> QED
      BY <1>1, <2>1, ListedStays DEF NSound
  <1>11. ASSUME NEW p \in Person PROVE StillNamed(p)
    <2>1. RecordKept(p)
      BY <1>1, NoRecordSame DEF NSound
    <2>2. ~Naming(work[h], p) /\ ~Naming(t, p)
      BY <1>1, <1>4 DEF Naming
    <2> QED
      BY <1>5, <1>7, <2>1, <2>2, QuietTask
  <1> QED
    BY <1>1, <1>8, <1>9, <1>10, <1>11, NamesByCases

LEMMA RenameIsNamed == ASSUME RSound, NSound, NEW h \in Hand \cup {Deferred}, AddUser(h) PROVE NSound'
  <1> DEFINE k == work[h]
             t == IF k.task.guild = NoGuild THEN Free ELSE [k.task EXCEPT !.does = "member"]
  <1>00. PICK q, old, name : q = k.person /\ old = k.old /\ name = k.task.name
    OBVIOUS
  <1>0. /\ k.does = "write" /\ work' = [work EXCEPT ![h] = t] /\ users' = Extend(users, q, name)
        /\ aliases' = Renamed(q, old, name) /\ Acquaint(q)
        /\ UNCHANGED <<people, deferChan, today, events, crossed, members, chatlog>>
    BY <1>00 DEF AddUser, Turn, Then
  <1>1. WorkOK /\ k \in HandTask \cup QueueTask /\ InTask(k) /\ today \in Nat
    BY DEF RSound, RTypeOK, WorkOK
  <1>2. k \in Writing
    BY <1>0, <1>1, TaskKinds
  <1>3. /\ k.task \in Reading /\ q \in Person /\ name \in Username /\ old \in Username \cup {NoName}
        /\ NameOf(k) = name /\ Naming(k, q)
    BY <1>00, <1>0, <1>2 DEF Writing, Reading, NameOf, Naming
  <1>4. t \in HandTask /\ t \in QueueTask /\ InTask(t) /\ t.does \in {"idle", "member"}
    <2>1. CASE k.task.guild = NoGuild
      BY <2>1, FreeIsATask DEF Free
    <2>2. CASE k.task.guild # NoGuild
      <3>1. t = [does |-> "member", person |-> k.task.person, name |-> k.task.name, guild |-> k.task.guild, date |-> k.task.date]
        BY <1>3, <2>2 DEF Reading
      <3>2. k.task.guild \in Guild
        BY <1>3, <2>2 DEF Reading
      <3>3. t \in Reading
        BY <1>3, <3>1 DEF Reading
      <3> QED
        BY <3>1, <3>2, <3>3 DEF InTask, HandTask, QueueTask
    <2> QED
      BY <2>1, <2>2
  <1> HIDE DEF t, k
  <1>5. Continues(h, t)
    BY <1>0, <1>1, <1>4, WorkContinues
  <1>6. work'[h] = t /\ \A i \in Hand \cup {Deferred} : i # h => work'[i] = work[i]
    BY <1>5 DEF Continues
  <1>7. UNCHANGED <<account, today, deferChan, crossed>>
    BY <1>0 DEF people
  <1>8. InOrder'
    BY <1>4, <1>6, <1>7, OrderGoesOn DEF NSound
  <1>9. AliasesOK(aliases) /\ \A x \in DOMAIN aliases : x[1] \in DOMAIN users
    BY DEF NSound, NTypeOK
  <1>10. PICK b : b = aliases' /\ b = Renamed(q, old, name)
    BY <1>0
  <1>11. /\ AliasesOK(b) /\ DOMAIN aliases \subseteq DOMAIN b /\ \A y \in DOMAIN b : y \notin DOMAIN aliases => y[1] = q
         /\ <<q, name>> \in DOMAIN b /\ b[<<q, name>>].stamp = today
         /\ \A p : p # q => NamesOf(b, p) = NamesOf(aliases, p) /\ \A m \in NamesOf(aliases, p) : b[<<p, m>>] = aliases[<<p, m>>]
         /\ TimeOf(aliases, q) \in Int /\ Since(aliases, q, old) \in Int
         /\ TimeOf(b, q) = TimeOf(aliases, q) + Since(aliases, q, old)
    <2>1. today \in Nat /\ AliasesOK(aliases) /\ q \in Person /\ old \in Username \cup {NoName} /\ name \in Username
          /\ b = Renamed(q, old, name)
      BY <1>1, <1>3, <1>9, <1>10
    <2> QED
      BY <2>1, RenamedIs
  <1>12. DOMAIN users' = DOMAIN users \cup {q} /\ users'[q] = name /\ \A p \in DOMAIN users : p # q => users'[p] = users[p]
    BY <1>0 DEF Extend
  <1>13. known' \in [Person -> Nat] /\ (\A p \in Person : p # q \/ q \in DOMAIN users => known'[p] = known[p])
         /\ (q \notin DOMAIN users => known'[q] = today)
    BY <1>0, <1>1, <1>3 DEF Acquaint, NSound, NTypeOK
  <1>14. NTypeOK'
    <2>1. AliasesOK(aliases)'
      BY <1>7, <1>10, <1>11 DEF AliasesOK, Alias
    <2> QED
      BY <1>9, <1>10, <1>11, <1>12, <1>13, <2>1 DEF NTypeOK
  <1>15. Listed'
    <2> SUFFICES ASSUME NEW p \in DOMAIN users', <<p, users'[p]>> \notin DOMAIN aliases'
                 PROVE  \E i \in Late' : i.does \in {"sent", "saw"} /\ i.person = p /\ i.name = users'[p]
      BY DEF Listed
    <2>1. p # q
      BY <1>10, <1>11, <1>12
    <2>2. p \in DOMAIN users /\ users'[p] = users[p] /\ <<p, users[p]>> \notin DOMAIN aliases
      BY <1>10, <1>11, <1>12, <2>1
    <2>3. PICK i \in Late : i.does \in {"sent", "saw"} /\ i.person = p /\ i.name = users[p]
      BY <2>2 DEF NSound, Listed
    <2>4. i \in Late'
      BY <1>0, <1>5, <2>3 DEF Continues, k
    <2> QED
      BY <2>2, <2>3, <2>4
  <1>16. ASSUME NEW p \in Person, p # q PROVE StillNamed(p)
    <2>1. RecordKept(p)
      <3>1. p \in DOMAIN users => users[p] \in Username
        BY DEF RSound, RTypeOK
      <3> QED
        BY <1>1, <1>7, <1>10, <1>11, <1>12, <1>13, <1>16, <3>1, RecordSame DEF NSound
    <2>2. ~Naming(work[h], p) /\ ~Naming(t, p)
      BY <1>00, <1>4, <1>16 DEF Naming, k
    <2> QED
      BY <1>5, <1>7, <2>1, <2>2, QuietTask
  <1>17. ASSUME NameInTurn(q) PROVE NameInTurn(q)'
    <2>1. \A i \in Hand \cup {Deferred} : i # h => ~Naming(work[i], q)
      <3>1. CASE h \in Hand
        <4>1. ~Names(Late, q) /\ \A i \in Hand : Naming(work[i], q) => i = h
          BY <1>3, <1>17, <3>1 DEF NameInTurn, OneNamer, k
        <4>2. ~Naming(work[Deferred], q)
          BY <4>1 DEF Names, Late, Naming, Free
        <4> QED
          BY <4>1, <4>2
      <3>2. CASE h = Deferred
        <4>1. k \in Late
          BY <1>0, <1>5, <3>2 DEF Continues, k, Free
        <4>2. Names(Late, q)
          BY <1>3, <4>1 DEF Names, Naming
        <4> QED
          BY <1>17, <3>2, <4>2 DEF NameInTurn, OneNamer
      <3> QED
        BY <3>1, <3>2
    <2>2. \A i \in Hand \cup {Deferred} : ~Naming(work'[i], q)
      BY <1>4, <1>6, <2>1 DEF Naming
    <2>3. OneNamer(q)'
      BY <2>2 DEF OneNamer
    <2>4. ReadStill(q)'
      BY <2>2 DEF ReadStill, Naming
    <2>5. BearsName(q)'
      <3> SUFFICES ASSUME ~Names(Pending, q)' PROVE users'[q] = account'[q]
        BY DEF BearsName
      <3>1. CASE h \in Hand
        <4>1. name = account[q]
          BY <1>3, <1>17, <3>1 DEF NameInTurn, OneNamer, k
        <4> QED
          BY <1>7, <1>12, <4>1
      <3>2. CASE h = Deferred
        <4>1. Followed(account, k, ToSet(deferChan))
          BY <3>2 DEF NSound, InOrder, Ordered, k
        <4>2. ~\E s \in ToSet(deferChan) : s.does = "read" /\ s.person = q
          <5>1. ~Names(Late, q)'
            BY NamesPendingNext
          <5> QED
            BY <1>7, <5>1 DEF Names, Late
        <4>3. name = account[q]
          BY <1>00, <1>0, <1>3, <4>1, <4>2 DEF Followed
        <4> QED
          BY <1>7, <1>12, <4>3
      <3> QED
        BY <3>1, <3>2
    <2>6. TimeKept(q)'
      <3>1. CountedTo(q)' = today
        BY <1>10, <1>11, <1>12, <1>7 DEF CountedTo
      <3>2. SUFFICES TimeOf(b, q) <= today - known'[q]
        BY <1>10, <3>1 DEF TimeKept
      <3>3. old # NoName => q \in DOMAIN users /\ users[q] = old
        BY <1>00, <1>0, <1>17 DEF NameInTurn, ReadStill, k
      <3>4. CASE q \notin DOMAIN users
        <4>1. Since(aliases, q, old) = 0
          BY <3>3, <3>4 DEF Since
        <4>2. NamesOf(aliases, q) = {}
          BY <1>9, <3>4 DEF NamesOf
        <4>3. TimeOf(aliases, q) = 0
          BY <4>2, NoTime
        <4> QED
          BY <1>1, <1>11, <1>13, <3>4, <4>1, <4>3
      <3>5. CASE q \in DOMAIN users
        <4>1. TimeOf(aliases, q) <= CountedTo(q) - known[q] /\ known'[q] = known[q]
          BY <1>3, <1>13, <1>17, <3>5 DEF NameInTurn, TimeKept
        <4>2. CountedTo(q) \in Int /\ CountedTo(q) <= today /\ known[q] \in Int
          BY <1>1, <1>3, CountedIsTime DEF NSound
        <4>3. CountedTo(q) + Since(aliases, q, old) <= today
          <5>1. CASE old # NoName /\ old \in NamesOf(aliases, q)
            <6>1. <<q, old>> \in DOMAIN aliases /\ users[q] = old /\ CountedTo(q) = aliases[<<q, old>>].stamp
              BY <3>3, <5>1 DEF NamesOf, CountedTo
            <6>2. Since(aliases, q, old) = today - CountedTo(q)
              BY <5>1, <6>1 DEF Since
            <6> QED
              BY <1>1, <4>2, <6>2
          <5>2. CASE ~(old # NoName /\ old \in NamesOf(aliases, q))
            BY <4>2, <5>2 DEF Since
          <5> QED
            BY <5>1, <5>2
        <4> QED
          BY <1>1, <1>11, <4>1, <4>2, <4>3
      <3> QED
        BY <3>4, <3>5
    <2> QED
      BY <2>3, <2>4, <2>5, <2>6 DEF NameInTurn
  <1> QED
    BY <1>1, <1>7, <1>8, <1>14, <1>15, <1>16, <1>17, NamesByCases

LEMMA LogIsNamed == ASSUME RSound, NSound, NEW h \in Hand \cup {Deferred}, AddMessage(h) PROVE NSound'
  <1> DEFINE k == work[h]
  <1>00. PICK q, name : q = k.person /\ name = k.name
    OBVIOUS
  <1>0. /\ k.does = "chat" /\ work' = [work EXCEPT ![h] = Free] /\ Acquaint(q)
        /\ users' = IF q \in DOMAIN users THEN users ELSE Extend(users, q, name)
        /\ UNCHANGED <<people, deferChan, today, events, crossed, members, aliases>>
    BY <1>00 DEF AddMessage, Turn, Then
  <1>1. WorkOK /\ k \in HandTask \cup QueueTask /\ today \in Nat
    BY DEF RSound, RTypeOK, WorkOK
  <1>2. k \in Messaging /\ h = Deferred
    <2>1. k \in Messaging /\ k \notin HandTask
      BY <1>0, <1>1, TaskKinds
    <2> QED
      BY <1>1, <2>1 DEF WorkOK
  <1>3. q \in Person /\ name \in Username /\ \A p : ~Naming(k, p) /\ ~Naming(Free, p)
    BY <1>00, <1>0, <1>2 DEF Messaging, Naming, Free
  <1>4. Followed(account, k, ToSet(deferChan))
    BY <1>2 DEF NSound, InOrder, Ordered
  <1>4a. NameOf(k) = name
    BY <1>00, <1>0 DEF NameOf
  <1> HIDE DEF k
  <1>5. Continues(h, Free)
    BY <1>0, <1>1, FreeIsATask, WorkContinues
  <1>6. work'[h] = Free /\ Free.does = "idle" /\ \A i \in Hand \cup {Deferred} : i # h => work'[i] = work[i]
    BY <1>5 DEF Continues, Free
  <1>7. UNCHANGED <<account, today, deferChan, crossed, aliases>>
    BY <1>0 DEF people
  <1>8. InOrder'
    BY <1>6, <1>7, OrderGoesOn DEF NSound
  <1>9. /\ DOMAIN users' = DOMAIN users \cup {q} /\ \A p \in DOMAIN users : users'[p] = users[p]
        /\ q \notin DOMAIN users => users'[q] = name
    BY <1>0 DEF Extend
  <1>10. known' \in [Person -> Nat] /\ (\A p \in Person : p # q \/ q \in DOMAIN users => known'[p] = known[p])
         /\ (q \notin DOMAIN users => known'[q] = today)
    BY <1>0, <1>1, <1>3 DEF Acquaint, NSound, NTypeOK
  <1>11. NTypeOK'
    BY <1>7, <1>9, <1>10 DEF NSound, NTypeOK, AliasesOK, Alias
  <1>12. Listed'
    <2> SUFFICES ASSUME NEW p \in DOMAIN users', <<p, users'[p]>> \notin DOMAIN aliases
                 PROVE  \E i \in Late' : i.does \in {"sent", "saw"} /\ i.person = p /\ i.name = users'[p]
      BY <1>7 DEF Listed
    <2>1. CASE p \in DOMAIN users
      <3>1. users'[p] = users[p] /\ <<p, users[p]>> \notin DOMAIN aliases
        BY <1>9, <2>1
      <3>2. PICK i \in Late : i.does \in {"sent", "saw"} /\ i.person = p /\ i.name = users[p]
        BY <2>1, <3>1 DEF NSound, Listed
      <3>3. i \in Late'
        BY <1>0, <1>5, <3>2 DEF Continues, k
      <3> QED
        BY <3>1, <3>2, <3>3
    <2>2. CASE p \notin DOMAIN users
      <3>1. p = q /\ users'[p] = name
        BY <1>9, <2>2
      <3>2. PICK s \in ToSet(deferChan) : s.does = "sent" /\ s.person = q /\ s.name = name
        BY <1>00, <1>0, <1>4 DEF Followed
      <3>3. s \in Late'
        BY <1>7 DEF Late
      <3> QED
        BY <3>1, <3>2, <3>3
    <2> QED
      BY <2>1, <2>2
  <1>13. ASSUME NEW p \in Person, p # q \/ q \in DOMAIN users PROVE StillNamed(p)
    <2>1. RecordKept(p)
      <3>1. p \in DOMAIN users => users[p] \in Username
        BY DEF RSound, RTypeOK
      <3> QED
        BY <1>1, <1>7, <1>9, <1>10, <1>13, <3>1, RecordSame DEF NSound
    <2> QED
      BY <1>3, <1>5, <1>7, <2>1, QuietTask DEF k
  <1>14. ASSUME NameInTurn(q), q \notin DOMAIN users PROVE NameInTurn(q)'
    <2>0. Names(Late, q)' <=> Names(Late, q)
      <3>1. Names(Late, q)' <=> \E i \in Late' : Naming(i, q)
        BY DEF Names, Naming
      <3>2. Names(Late, q) <=> \E i \in Late : Naming(i, q)
        BY DEF Names, Naming
      <3> QED
        BY <1>3, <1>5, <3>1, <3>2 DEF Continues, k
    <2>1. OneNamer(q)'
      BY <1>2, <1>6, <1>7, <1>14, <2>0, RecordsAssumption DEF NameInTurn, OneNamer
    <2>2. ReadStill(q)'
      <3> SUFFICES ASSUME NEW i \in Hand \cup {Deferred}, work'[i].does = "write", work'[i].person = q, work'[i].old # NoName
                   PROVE  FALSE
        BY DEF ReadStill
      <3>1. work'[i] = work[i]
        BY <1>6
      <3> QED
        BY <1>14, <3>1 DEF NameInTurn, ReadStill
    <2>3. BearsName(q)'
      <3> SUFFICES ASSUME ~Names(Pending, q)' PROVE users'[q] = account'[q]
        BY DEF BearsName
      <3>1. ~\E s \in ToSet(deferChan) : s.does = "read" /\ s.person = q
        <4>1. ~Names(Late, q)'
          BY NamesPendingNext
        <4> QED
          BY <1>7, <4>1 DEF Names, Late
      <3>2. name = account[q]
        BY <1>00, <1>0, <1>4, <1>4a, <3>1 DEF Followed
      <3> QED
        BY <1>7, <1>9, <1>14, <3>2
    <2>4. TimeKept(q)'
      <3>1. NamesOf(aliases, q) = {}
        BY <1>14 DEF NamesOf, NSound, NTypeOK
      <3>2. TimeOf(aliases, q) = 0
        BY <3>1, NoTime
      <3>3. <<q, users'[q]>> \notin DOMAIN aliases
        BY <1>14 DEF NSound, NTypeOK
      <3>4. CountedTo(q)' = today
        BY <1>7, <3>3 DEF CountedTo
      <3> QED
        BY <1>1, <1>7, <1>10, <1>14, <3>2, <3>4 DEF TimeKept
    <2> QED
      BY <2>1, <2>2, <2>3, <2>4 DEF NameInTurn
  <1> QED
    BY <1>1, <1>7, <1>8, <1>11, <1>12, <1>13, <1>14, NamesByCases

LEMMA SawIsNamed == ASSUME RSound, NSound, NEW h \in Hand \cup {Deferred}, SawUser(h) PROVE NSound'
  <1> DEFINE k == work[h]
  <1>00. PICK q, name, x : q = k.person /\ name = k.name /\ x = [duration |-> 0, stamp |-> today]
    OBVIOUS
  <1>0. /\ k.does = "saw" /\ work' = [work EXCEPT ![h] = Free]
        /\ aliases' = IF q \notin DOMAIN users \/ <<q, name>> \in DOMAIN aliases THEN aliases
                      ELSE Extend(aliases, <<q, name>>, x)
        /\ UNCHANGED <<people, deferChan, today, events, crossed, users, members, known>>
    BY <1>00 DEF SawUser, Turn, Then
  <1>1. WorkOK /\ k \in HandTask \cup QueueTask /\ today \in Nat
    BY DEF RSound, RTypeOK, WorkOK
  <1>2. k \in Messaging /\ h = Deferred
    <2>1. k \in Messaging /\ k \notin HandTask
      BY <1>0, <1>1, TaskKinds
    <2> QED
      BY <1>1, <2>1 DEF WorkOK
  <1>3. q \in Person /\ name \in Username /\ \A p : ~Naming(k, p) /\ ~Naming(Free, p)
    BY <1>00, <1>0, <1>2 DEF Messaging, Naming, Free
  <1> HIDE DEF k
  <1>5. Continues(h, Free)
    BY <1>0, <1>1, FreeIsATask, WorkContinues
  <1>6. work'[h] = Free /\ Free.does = "idle" /\ \A i \in Hand \cup {Deferred} : i # h => work'[i] = work[i]
    BY <1>5 DEF Continues, Free
  <1>7. UNCHANGED <<account, today, deferChan, crossed, users, known>>
    BY <1>0 DEF people
  <1>8. InOrder'
    BY <1>6, <1>7, OrderGoesOn DEF NSound
  <1>9. CASE q \notin DOMAIN users \/ <<q, name>> \in DOMAIN aliases
    <2>1. aliases' = aliases
      BY <1>0, <1>9
    <2>2. NTypeOK'
      BY <1>7, <2>1 DEF NSound, NTypeOK, AliasesOK, Alias
    <2>3. Listed'
      <3>1. ASSUME NEW i \in Late, i.does \in {"sent", "saw"}
            PROVE  i \in Late' \/ i.person \notin DOMAIN users' \/ <<i.person, i.name>> \in DOMAIN aliases'
        BY <1>00, <1>5, <1>7, <1>9, <2>1 DEF Continues, k
      <3> QED
        BY <1>7, <2>1, <3>1, ListedStays DEF NSound
    <2>4. ASSUME NEW p \in Person PROVE StillNamed(p)
      <3>1. RecordKept(p)
        BY <1>1, <1>7, <2>1, NoRecordSame DEF NSound
      <3> QED
        BY <1>3, <1>5, <1>7, <3>1, QuietTask DEF k
    <2> QED
      BY <1>1, <1>7, <1>8, <2>2, <2>3, <2>4, NamesByCases
  <1>10. CASE q \in DOMAIN users /\ <<q, name>> \notin DOMAIN aliases
    <2>1. PICK b : b = aliases' /\ b = Extend(aliases, <<q, name>>, x)
      BY <1>0, <1>10
    <2>2. x \in [duration : Int, stamp : Nat] /\ x.stamp = today /\ x.duration = 0 /\ x.stamp <= today
      BY <1>00, <1>1
    <2>2a. AliasesOK(aliases)
      BY DEF NSound, NTypeOK
    <2>3. /\ AliasesOK(b) /\ DOMAIN b = DOMAIN aliases \cup {<<q, name>>} /\ b[<<q, name>>] = x
          /\ \A y \in DOMAIN aliases : y # <<q, name>> => b[y] = aliases[y]
          /\ NamesOf(b, q) = NamesOf(aliases, q) \cup {name} /\ \A p : p # q => NamesOf(aliases, p) = NamesOf(b, p)
          /\ TimeOf(aliases, q) \in Int /\ Worn(aliases, q, name) \in Int
          /\ TimeOf(b, q) = TimeOf(aliases, q) + (x.duration - Worn(aliases, q, name))
      BY <1>1, <1>3, <2>1, <2>2, <2>2a, ExtendedAliases
    <2>4. TimeOf(b, q) = TimeOf(aliases, q)
      <3>1. Worn(aliases, q, name) = 0
        BY <1>10 DEF Worn, NamesOf
      <3> QED
        BY <2>2, <2>3, <3>1
    <2>5. NTypeOK'
      <3>1. AliasesOK(aliases)'
        BY <1>7, <2>1, <2>3 DEF AliasesOK, Alias
      <3> QED
        BY <1>7, <1>10, <2>1, <2>3, <3>1 DEF NSound, NTypeOK
    <2>6. Listed'
      <3>1. ASSUME NEW i \in Late, i.does \in {"sent", "saw"}
            PROVE  i \in Late' \/ <<i.person, i.name>> \in DOMAIN aliases'
        BY <1>00, <1>5, <2>1, <2>3 DEF Continues, k
      <3>2. \A p \in DOMAIN users' : <<p, users[p]>> \in DOMAIN aliases => <<p, users[p]>> \in DOMAIN aliases'
        BY <2>1, <2>3
      <3> QED
        BY <1>7, <3>1, <3>2, ListedStays DEF NSound
    <2>7. ASSUME NEW p \in Person PROVE StillNamed(p)
      <3>1. CASE p # q
        <4>1. \A m \in NamesOf(aliases, p) : b[<<p, m>>] = aliases[<<p, m>>]
          BY <2>3, <3>1 DEF NamesOf
        <4>2. p \in DOMAIN users => users[p] \in Username
          BY DEF RSound, RTypeOK
        <4>3. RecordKept(p)
          BY <1>1, <1>7, <2>1, <2>3, <3>1, <4>1, <4>2, RecordSame DEF NSound
        <4> QED
          BY <1>3, <1>5, <1>7, <4>3, QuietTask DEF k
      <3>2. CASE p = q
        <4>1. CountedTo(p) \in Int /\ CountedTo(p) <= today
          BY <1>1, CountedIsTime DEF NSound
        <4>2. CountedTo(p) <= CountedTo(p)'
          <5>1. CASE <<p, users[p]>> \in DOMAIN aliases
            <6>1. <<p, users[p]>> # <<q, name>> /\ <<p, users[p]>> \in DOMAIN b /\ b[<<p, users[p]>>] = aliases[<<p, users[p]>>]
              BY <1>10, <2>3, <5>1
            <6>2. CountedTo(p)' = CountedTo(p)
              BY <1>7, <2>1, <5>1, <6>1 DEF CountedTo
            <6> QED
              BY <4>1, <6>2
          <5>2. CASE <<p, users[p]>> \notin DOMAIN aliases
            <6>1. <<p, users[p]>> \in DOMAIN b => <<p, users[p]>> = <<q, name>>
              BY <2>3, <5>2
            <6>2. CountedTo(p)' = today
              BY <1>7, <2>1, <2>2, <2>3, <6>1 DEF CountedTo
            <6> QED
              BY <4>1, <6>2
          <5> QED
            BY <5>1, <5>2
        <4>3. RecordKept(p)
          BY <1>7, <2>1, <2>4, <3>2, <4>2 DEF RecordKept
        <4> QED
          BY <1>3, <1>5, <1>7, <4>3, QuietTask DEF k
      <3> QED
        BY <3>1, <3>2
    <2> QED
      BY <1>1, <1>7, <1>8, <2>5, <2>6, <2>7, NamesByCases
  <1> QED
    BY <1>9, <1>10

LEMMA CleanIsNamed == ASSUME RSound, NSound, NEW kept, CleanAliases(kept) PROVE NSound'
  <1> DEFINE remaining == {p \in DOMAIN users : p \in kept \/ \E g \in Guild : <<p, g>> \in DOMAIN members}
  <1>00. PICK R : R = remaining
    OBVIOUS
  <1>0. /\ UNCHANGED <<people, members, deferChan, work, today>> /\ users' = Restrict(users, R)
        /\ aliases' = Restrict(aliases, {a \in DOMAIN aliases : a[1] \in R})
        /\ known' = [p \in Person |-> IF p \in R THEN known[p] ELSE NoDate]
        /\ crossed'.names = crossed.names \cup {t.person : t \in Pending}
    BY <1>00 DEF CleanAliases
  <1>1. R \subseteq DOMAIN users /\ today \in Nat
    BY <1>00 DEF RSound, RTypeOK
  <1> HIDE DEF remaining
  <1>2. DOMAIN users' = R /\ \A p \in R : users'[p] = users[p]
    BY <1>0, <1>1 DEF Restrict
  <1>3. /\ DOMAIN aliases' = {a \in DOMAIN aliases : a[1] \in R} /\ \A x \in DOMAIN aliases' : aliases'[x] = aliases[x]
    BY <1>0 DEF Restrict
  <1>4. UNCHANGED <<account, today, deferChan, work, Late>>
    BY <1>0 DEF people, Late
  <1>5. \A p \in R : NamesOf(aliases', p) = NamesOf(aliases, p) /\ \A m \in NamesOf(aliases, p) : aliases'[<<p, m>>] = aliases[<<p, m>>]
    BY <1>3 DEF NamesOf
  <1>6. NTypeOK'
    <2>1. ASSUME NEW p \in Person PROVE IsFiniteSet(NamesOf(aliases', p))
      <3>1. NamesOf(aliases', p) \subseteq NamesOf(aliases, p) /\ IsFiniteSet(NamesOf(aliases, p))
        BY <1>3 DEF NamesOf, NSound, NTypeOK, AliasesOK
      <3> QED
        BY <3>1, FS_Subset
    <2>2. \A x \in DOMAIN aliases' : Alias(aliases, x)'
      BY <1>3, <1>4 DEF NSound, NTypeOK, AliasesOK, Alias
    <2>3. known' \in [Person -> Nat]
      BY <1>0 DEF NSound, NTypeOK, NoDate
    <2> QED
      BY <1>2, <1>3, <2>1, <2>2, <2>3 DEF NTypeOK, AliasesOK
  <1>7. InOrder'
    BY <1>4 DEF NSound, InOrder
  <1>8. Listed'
    <2>1. \A p \in DOMAIN users' : <<p, users[p]>> \in DOMAIN aliases => <<p, users[p]>> \in DOMAIN aliases'
      BY <1>2, <1>3
    <2>2. DOMAIN users' \subseteq DOMAIN users /\ \A p \in DOMAIN users' : users'[p] = users[p]
      BY <1>1, <1>2
    <2>3. \A t \in Late : t.does \in {"sent", "saw"} =>
            \E k \in Late' : k.does \in {"sent", "saw"} /\ k.person = t.person /\ k.name = t.name
      BY <1>4
    <2> QED
      BY <2>1, <2>2, <2>3, ListedStays DEF NSound
  <1>9. ASSUME NEW p \in Person, p \notin crossed'.names, NameInTurn(p) PROVE StillNamed(p) \/ NameInTurn(p)'
    <2>0. Names(Late, p)' <=> Names(Late, p)
      BY <1>4 DEF Names
    <2>1. CASE p \in R \/ p \notin DOMAIN users
      <3>1. p \in DOMAIN users => users[p] \in Username /\ known'[p] = known[p]
        BY <1>0, <2>1 DEF RSound, RTypeOK
      <3>2. RecordKept(p)
        BY <1>1, <1>2, <1>4, <1>5, <2>1, <3>1, RecordSame DEF NSound
      <3> QED
        BY <1>4, <2>0, <3>2 DEF StillNamed
    <2>2. CASE p \in DOMAIN users /\ p \notin R
      <3>1. \A h \in Hand \cup {Deferred} : work[h].person = p => work[h] = Free
        BY <1>0, <1>9 DEF Pending, InHand
      <3>2. ReadStill(p)'
        BY <1>4, <3>1 DEF ReadStill, Free
      <3>3. OneNamer(p)'
        BY <1>4, <1>9, <2>0 DEF NameInTurn, OneNamer
      <3>4. BearsName(p)' /\ TimeKept(p)'
        BY <1>2, <2>2 DEF BearsName, TimeKept
      <3> QED
        BY <3>2, <3>3, <3>4 DEF NameInTurn
    <2> QED
      BY <2>1, <2>2
  <1>10. crossed.names \subseteq crossed'.names
    BY <1>0
  <1> QED
    BY <1>1, <1>4, <1>6, <1>7, <1>8, <1>9, <1>10, NamesByCases

LEMMA NamesStart == MRInit => NSound
  <1> SUFFICES ASSUME MRInit PROVE NSound
    OBVIOUS
  <1>1. /\ DOMAIN users = {} /\ DOMAIN aliases = {} /\ deferChan = << >> /\ \A h \in Hand \cup {Deferred} : work[h] = Free
        /\ known \in [Person -> Nat]
    BY DEF MRInit, NoDate
  <1>2. \A p \in Person : IsFiniteSet(NamesOf(aliases, p))
    <2>1. \A p \in Person : NamesOf(aliases, p) = {}
      BY <1>1 DEF NamesOf
    <2> QED
      BY <2>1, FS_EmptySet
  <1>3. NTypeOK
    BY <1>1, <1>2 DEF NTypeOK, AliasesOK
  <1>4. Free.does = "idle"
    BY DEF Free
  <1>5. InOrder
    <2>1. Followed(account, Free, ToSet(<< >>))
      BY <1>4 DEF Followed
    <2>2. 1..Len(<< >>) = {}
      OBVIOUS
    <2> QED
      BY <1>1, <2>1, <2>2 DEF InOrder, Ordered
  <1>6. Listed
    BY <1>1 DEF Listed
  <1>7. \A p \in Person : NameInTurn(p)
    BY <1>1, <1>4 DEF NameInTurn, OneNamer, ReadStill, BearsName, TimeKept, Naming
  <1> QED
    BY <1>3, <1>5, <1>6, <1>7 DEF NSound

LEMMA NamesAreSound == MRSpec => []NSound
  <1>1. RSound /\ NSound /\ [MRNext]_rvars => NSound'
    <2> SUFFICES ASSUME RSound, NSound, [MRNext]_rvars PROVE NSound'
      OBVIOUS
    <2>1. CASE \E h \in Hand, g \in Guild :
                 BanNewcomers(h, g) \/ BanRaid(h, g) \/ \E p \in Person : GuildMemberAdd(h, p, g) \/ MemberLeaves(h, p, g)
      <3>1. PICK h \in Hand, g \in Guild :
              BanNewcomers(h, g) \/ BanRaid(h, g) \/ \E p \in Person : GuildMemberAdd(h, p, g) \/ MemberLeaves(h, p, g)
        BY <2>1
      <3>2. PICK p \in Person : GuildMemberAdd(h, p, g) \/ MemberLeaves(h, p, g)
        BY <3>1 DEF BanNewcomers, BanRaid, Newcomers, RecentUsers
      <3> QED
        BY <3>2, JoinIsNamed, LeaveIsNamed
    <2>2. CASE \E p \in Person : (\E name \in Username : UserUpdate(p, name))
                                 \/ \E g \in Guild : \E date \in {NoDate, since[p, g]} : MemberUpdate(p, g, date)
      BY <2>2, UpdatesAreNamed
    <2>3. CASE \E p \in Person, g \in Guild, logged \in BOOLEAN : MessageSent(p, g, logged)
      BY <2>3, MessageIsNamed
    <2>4. CASE \E h \in Hand \cup {Deferred} :
                 ReadName(h) \/ AddUser(h) \/ AddMember(h) \/ RemoveMember(h) \/ AddMessage(h) \/ SentMessage(h) \/ SawUser(h)
      BY <2>4, ReadIsNamed, RenameIsNamed, LogIsNamed, SawIsNamed, RowTasksAreNamed
    <2>5. CASE ReceiveTask \/ NextDay \/ (\E kept \in SUBSET chatlog : CleanAliases(kept)) \/ UNCHANGED rvars
      BY <2>5, ReceiveIsNamed, DayIsNamed, CleanIsNamed, PauseIsNamed
    <2> QED
      BY <2>1, <2>2, <2>3, <2>4, <2>5 DEF MRNext
  <1> QED
    BY <1>1, NamesStart, RecordsAreSound, PTL DEF MRSpec

(* Once everything about a person is written, in turn, the name they bear is *)
(* the one on record and listed by !aka, and no time was counted for two     *)
(* names (AddUser, AddChat, SawUser).                                        *)
THEOREM NamesAlwaysKeepTime == MRSpec => []NamesKeepTime
  <1>1. RSound /\ NSound => NamesKeepTime
    <2> SUFFICES ASSUME RSound, NSound, NEW p \in DOMAIN users, p \notin crossed.names, \A t \in Pending : t.person # p
                 PROVE  /\ users[p] = account[p] /\ <<p, users[p]>> \in DOMAIN aliases
                        /\ TimeOf(aliases, p) <= today - known[p]
      BY DEF NamesKeepTime
    <2>1. p \in Person /\ today \in Nat
      BY DEF RSound, RTypeOK
    <2>2. NameInTurn(p)
      BY <2>1 DEF NSound
    <2>3. users[p] = account[p]
      BY <2>2 DEF NameInTurn, BearsName, Names
    <2>4. Late \subseteq Pending
      BY DEF Late, Pending
    <2>5. <<p, users[p]>> \in DOMAIN aliases
      BY <2>4 DEF NSound, Listed
    <2>6. TimeOf(aliases, p) <= CountedTo(p) - known[p]
      BY <2>2 DEF NameInTurn, TimeKept
    <2>7. CountedTo(p) \in Int /\ CountedTo(p) <= today /\ known[p] \in Int /\ TimeOf(aliases, p) \in Int
      BY <2>1, CountedIsTime DEF NSound
    <2> QED
      BY <2>1, <2>3, <2>5, <2>6, <2>7
  <1> QED
    BY <1>1, NamesAreSound, RecordsAreSound, PTL
=================================================================================
