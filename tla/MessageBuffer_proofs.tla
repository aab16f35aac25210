------------------------ MODULE MessageBuffer_proofs ------------------------
(***************************************************************************)
(* For every set of senders, every set of lengths and every limit: no       *)
(* message is ever left in the buffer with no sender on its way to post it, *)
(* the bookkeeping of the buffer is sound through retries, and, as long as  *)
(* the library sends no request twice, messages finish in order, a call     *)
(* that has returned left nothing behind, and the buffer implements the     *)
(* channel of MessageChannel.                                               *)
(***************************************************************************)
EXTENDS MessageBuffer, SequenceTheorems, FiniteSetTheorems, WellFoundedInduction, TLAPS

(* count is left out: its type follows from sums, which need induction. *)
THEOREM TypeCorrect == Spec => []TypeOK
  <1>1. Init => TypeOK
    BY SizeAssumption DEF Init, TypeOK, Control, Message
  <1>2. TypeOK /\ [Next]_vars => TypeOK'
    <2> SUFFICES ASSUME TypeOK, [Next]_vars PROVE TypeOK'
      OBVIOUS
    <2> USE DEF TypeOK, Control, Holding
    <2>1. ASSUME NEW s \in Sender, NEW z \in Size, NEW min \in {1, 2}, Append_(s, z, min)
          PROVE  TypeOK'
      <3>1. [no |-> accepted + 1, from |-> s, size |-> z] \in Message
        BY DEF Message
      <3>2. buffer' \in Seq(Message)
        BY <2>1, <3>1, AppendProperties DEF Append_
      <3>3. pc' \in [Sender -> Control] /\ lock' \in Sender \cup {Nobody}
        BY <2>1 DEF Append_, Acquire
      <3> QED
        BY <2>1, <3>2, <3>3 DEF Append_
    <2>2. ASSUME NEW s \in Sender, Relock(s) PROVE TypeOK'
      BY <2>2 DEF Relock, Acquire, bufferVars
    <2>3. ASSUME NEW s \in Sender, Process(s) PROVE TypeOK'
      <3>1. PICK n \in 1..Len(buffer) : TakeOut(s, n)
        BY <2>3 DEF Process
      <3>2. SubSeq(buffer, 1, n) \in Seq(Message) /\ SubSeq(buffer, n + 1, Len(buffer)) \in Seq(Message)
        BY SubSeqProperties
      <3> QED
        BY <2>3, <3>1, <3>2 DEF Process, TakeOut, Prefix, bucketVars
    <2>4. ASSUME NEW s \in Sender, ProcessNothing(s) PROVE TypeOK'
      BY <2>4 DEF ProcessNothing, Release, bufferVars
    <2>5. ASSUME NEW s \in Sender, Post(s) PROVE TypeOK'
      BY <2>5 DEF Post, bufferVars
    <2>6. ASSUME NEW s \in Sender, Answer(s) PROVE TypeOK'
      <3>1. finished' \in Seq(Message)
        BY <2>6, ConcatProperties DEF Answer
      <3>2. remaining' \in Int
        <4>1. remaining' \in Headroom \/ remaining' = remaining
          BY <2>6, Zenon DEF Answer, Headers
        <4>2. Headroom \subseteq Int /\ remaining \in Int
          BY SizeAssumption
        <4> QED
          BY <4>1, <4>2
      <3>3. window' \in BOOLEAN
        BY <2>6, Zenon DEF Answer, Headers
      <3> QED
        BY <2>6, <3>1, <3>2, <3>3 DEF Answer, Release, bufferVars
    <2>7. ASSUME NEW s \in Sender, Reject(s) PROVE TypeOK'
      BY <2>7, SizeAssumption DEF Reject, Headers, Release, bufferVars
    <2>8. ASSUME NEW s \in Sender, Retry(s) PROVE TypeOK'
      BY <2>8 DEF Retry, Acquire, bufferVars
    <2>9. CASE WindowEnds
      BY <2>9 DEF WindowEnds, bufferVars
    <2>10. CASE UNCHANGED vars
      BY <2>10 DEF vars, bucketVars, bufferVars
    <2> QED
      BY <2>1, <2>2, <2>3, <2>4, <2>5, <2>6, <2>7, <2>8, <2>9, <2>10
         DEF Next, Progress, Finished
  <1> QED
    BY <1>1, <1>2, PTL DEF Spec

-----------------------------------------------------------------------------
(***************************************************************************)
(* No message is stranded: NeverStranded is inductive given the types.  The *)
(* step that matters is Answer: a sender that leaves with nothing left can  *)
(* have no message of its own in the buffer.                                *)
(***************************************************************************)
THEOREM NoMessageStranded == Spec => []NeverStranded
  <1>1. Init => NeverStranded
    BY DEF Init, NeverStranded
  <1>2. TypeOK /\ NeverStranded /\ [Next]_vars => NeverStranded'
    <2> SUFFICES ASSUME TypeOK, NeverStranded, [Next]_vars,
                        NEW i \in 1..Len(buffer')
                 PROVE  WillProcess(buffer[i].from)'
      BY DEF NeverStranded
    <2> USE DEF NeverStranded, WillProcess
    <2>0. /\ pc \in [Sender -> Control] /\ left \in [Sender -> Nat]
          /\ Len(buffer) \in Nat
          /\ \A j \in 1..Len(buffer) : buffer[j].from \in Sender
      <3>1. \A m \in Message : m.from \in Sender
        BY DEF Message
      <3>2. \A j \in 1..Len(buffer) : buffer[j] \in Message
        BY ElementOfSeq DEF TypeOK
      <3> QED
        BY <3>1, <3>2 DEF TypeOK
    <2>1. ASSUME NEW s \in Sender, NEW z \in Size, NEW min \in {1, 2}, Append_(s, z, min)
          PROVE  WillProcess(buffer[i].from)'
      <3>1. pc'[s] \in {"asleep", "locked"} /\ left' = left
        BY <2>0, <2>1 DEF Append_
      <3>2. \A t \in Sender : t # s => pc'[t] = pc[t]
        BY <2>0, <2>1 DEF Append_
      <3>3. buffer'[i].from = s \/ (i \in 1..Len(buffer) /\ buffer'[i] = buffer[i])
        <4>1. buffer' = Append(buffer, [no |-> accepted + 1, from |-> s, size |-> z])
          BY <2>1 DEF Append_
        <4> QED
          BY <4>1 DEF TypeOK
      <3> QED
        BY <2>0, <3>1, <3>2, <3>3
    <2>K. ASSUME buffer' = buffer, \A t \in Sender : WillProcess(t) => WillProcess(t)'
          PROVE  WillProcess(buffer[i].from)'
      BY <2>0, <2>K
    <2>2. ASSUME NEW s \in Sender, Relock(s) PROVE WillProcess(buffer[i].from)'
      BY <2>0, <2>2 DEF Relock, bufferVars
    <2>3. ASSUME NEW s \in Sender, Process(s) PROVE WillProcess(buffer[i].from)'
      <3>1. PICK n \in 1..Len(buffer) : TakeOut(s, n)
        BY <2>3 DEF Process
      <3>2. buffer' = SubSeq(buffer, n + 1, Len(buffer))
        BY <3>1 DEF TakeOut
      <3>3. Len(buffer') = Len(buffer) - n /\ i + n \in 1..Len(buffer)
            /\ buffer'[i] = buffer[i + n]
        BY <2>0, <3>2 DEF TypeOK
      <3>4. pc'[s] = "taken" /\ left'[s] > 0
        BY <2>0, <2>3, <3>1, <3>3 DEF Process, TakeOut
      <3>5. \A t \in Sender : t # s => pc'[t] = pc[t] /\ left'[t] = left[t]
        BY <2>0, <2>3, <3>1 DEF Process, TakeOut
      <3> QED
        BY <2>0, <3>3, <3>4, <3>5
    <2>4. ASSUME NEW s \in Sender, ProcessNothing(s) PROVE WillProcess(buffer[i].from)'
      BY <2>0, <2>4 DEF ProcessNothing, bufferVars
    <2>5. ASSUME NEW s \in Sender, Post(s) PROVE WillProcess(buffer[i].from)'
      BY <2>0, <2>5 DEF Post, bufferVars
    <2>6. ASSUME NEW s \in Sender, Answer(s) PROVE WillProcess(buffer[i].from)'
      <3>1. buffer' = buffer
        BY <2>6 DEF Answer, bufferVars
      <3>2. \A t \in Sender : t # s => pc'[t] = pc[t] /\ left'[t] = left[t]
        BY <2>0, <2>6 DEF Answer
      <3>3. pc[s] = "posting" /\ (left[s] > 0 => pc'[s] = "asleep")
        BY <2>0, <2>6 DEF Answer
      <3> QED
        BY <2>0, <3>1, <3>2, <3>3
    <2>7. ASSUME NEW s \in Sender, Reject(s) PROVE WillProcess(buffer[i].from)'
      <3>1. buffer' = buffer /\ left' = left
        BY <2>7 DEF Reject, bufferVars
      <3>2. pc' = [pc EXCEPT ![s] = "rejected"] /\ pc[s] \in {"posting", "rejected"}
        BY <2>7 DEF Reject
      <3> QED
        BY <2>0, <2>K, <3>1, <3>2
    <2>8. ASSUME NEW s \in Sender, Retry(s) PROVE WillProcess(buffer[i].from)'
      <3>1. buffer' = buffer /\ left' = left
        BY <2>8 DEF Retry, bufferVars
      <3>2. pc' = [pc EXCEPT ![s] = "taken"] /\ pc[s] \in {"posting", "rejected"}
        BY <2>8 DEF Retry
      <3> QED
        BY <2>0, <2>K, <3>1, <3>2
    <2>9. CASE WindowEnds
      <3>1. buffer' = buffer /\ pc' = pc /\ left' = left
        BY <2>9 DEF WindowEnds, bufferVars
      <3> QED
        BY <2>K, <3>1
    <2>10. CASE UNCHANGED vars
      <3>1. buffer' = buffer /\ pc' = pc /\ left' = left
        BY <2>10 DEF vars, bufferVars
      <3> QED
        BY <2>K, <3>1
    <2> QED
      BY <2>1, <2>2, <2>3, <2>4, <2>5, <2>6, <2>7, <2>8, <2>9, <2>10
         DEF Next, Progress, Finished
  <1> QED
    BY <1>1, <1>2, TypeCorrect, PTL DEF Spec

-----------------------------------------------------------------------------
(* The bucket's lock excludes: whoever drains, asks or posts holds it. *)
THEOREM LockDiscipline == Spec => []LockHeld
  <1>1. Init => LockHeld
    BY SenderAssumption DEF Init, LockHeld, Holding
  <1>2. TypeOK /\ LockHeld /\ [Next]_vars => LockHeld'
    <2> SUFFICES ASSUME TypeOK, LockHeld, [Next]_vars PROVE LockHeld'
      OBVIOUS
    <2> USE SenderAssumption DEF LockHeld, Holding
    <2>0. pc \in [Sender -> Control]
      BY DEF TypeOK
    <2>1. ASSUME NEW s \in Sender, NEW z \in Size, NEW min \in {1, 2}, Append_(s, z, min)
          PROVE  LockHeld'
      <3>1. CASE lock' = lock /\ pc' = [pc EXCEPT ![s] = "asleep"]
        BY <2>0, <2>1, <3>1 DEF Append_
      <3>2. CASE lock' = s /\ pc' = [pc EXCEPT ![s] = "locked"]
        BY <2>0, <2>1, <3>2 DEF Append_
      <3> QED
        BY <2>1, <3>1, <3>2 DEF Append_, Acquire
    <2>2. ASSUME NEW s \in Sender, Relock(s) PROVE LockHeld'
      BY <2>0, <2>2 DEF Relock, Acquire
    <2>3. ASSUME NEW s \in Sender, Process(s) PROVE LockHeld'
      BY <2>0, <2>3 DEF Process, bucketVars
    <2>4. ASSUME NEW s \in Sender, ProcessNothing(s) PROVE LockHeld'
      BY <2>0, <2>4 DEF ProcessNothing, Release
    <2>5. ASSUME NEW s \in Sender, Post(s) PROVE LockHeld'
      BY <2>0, <2>5 DEF Post
    <2>6. ASSUME NEW s \in Sender, Answer(s) PROVE LockHeld'
      BY <2>0, <2>6 DEF Answer, Release
    <2>7. ASSUME NEW s \in Sender, Reject(s) PROVE LockHeld'
      BY <2>0, <2>7 DEF Reject, Release
    <2>8. ASSUME NEW s \in Sender, Retry(s) PROVE LockHeld'
      BY <2>0, <2>8 DEF Retry, Acquire
    <2>9. CASE WindowEnds
      BY <2>9 DEF WindowEnds
    <2>10. CASE UNCHANGED vars
      BY <2>10 DEF vars, bucketVars
    <2> QED
      BY <2>1, <2>2, <2>3, <2>4, <2>5, <2>6, <2>7, <2>8, <2>9, <2>10
         DEF Next, Progress, Finished
  <1> QED
    BY <1>1, <1>2, TypeCorrect, PTL DEF Spec

-----------------------------------------------------------------------------
(***************************************************************************)
(* Order, when the library sends no request twice.  FifoOrder speaks of one *)
(* long sequence; the induction follows its three pieces, each with the     *)
(* numbers its messages must carry, and that only the holder has a batch.   *)
(***************************************************************************)
InHand == IF lock = Nobody THEN << >> ELSE batch[lock]

OnlyHolderHasBatch ==
  \A s \in Sender : /\ pc[s] # "rejected"
                    /\ batch[s] # << >> => pc[s] \in {"taken", "posting"}

Numbered ==
  /\ accepted = Len(finished) + Len(InHand) + Len(buffer)
  /\ \A i \in 1..Len(finished) : finished[i].no = i
  /\ \A i \in 1..Len(InHand) : InHand[i].no = Len(finished) + i
  /\ \A i \in 1..Len(buffer) : buffer[i].no = Len(finished) + Len(InHand) + i

OrderInv == TypeOK /\ LockHeld /\ OnlyHolderHasBatch /\ Numbered

(* The numbers add up to the order that FifoOrder states. *)
LEMMA OrderInvGivesFifo == OrderInv => FifoOrder
  <1> SUFFICES ASSUME OrderInv PROVE FifoOrder
    OBVIOUS
  <1>1. InHand \in Seq(Message) /\ finished \in Seq(Message) /\ buffer \in Seq(Message)
    BY DEF OrderInv, TypeOK, InHand
  <1>2. Len(InHand) \in Nat /\ Len(finished) \in Nat /\ Len(buffer) \in Nat
    BY <1>1, LenProperties
  <1>3. Outstanding = InHand \o buffer
    BY DEF Outstanding, InHand
  <1>4. Outstanding \in Seq(Message) /\ Len(Outstanding) = Len(InHand) + Len(buffer)
    BY <1>1, <1>3, ConcatProperties
  <1>5. ASSUME NEW i \in 1..Len(Outstanding)
        PROVE  Outstanding[i].no = Len(finished) + i
    <2>1. Outstanding[i] = IF i <= Len(InHand) THEN InHand[i] ELSE buffer[i - Len(InHand)]
      BY <1>1, <1>3, <1>4, ConcatProperties
    <2>2. CASE i <= Len(InHand)
      BY <1>2, <2>1, <2>2 DEF OrderInv, Numbered
    <2>3. CASE i > Len(InHand)
      <3>1. i - Len(InHand) \in 1..Len(buffer)
        BY <1>2, <1>4, <2>3
      <3> QED
        BY <1>2, <2>1, <2>3, <3>1 DEF OrderInv, Numbered
    <2> QED
      BY <1>2, <2>2, <2>3
  <1>6. Len(finished \o Outstanding) = accepted
    <2>1. Len(finished \o Outstanding) = Len(finished) + Len(Outstanding)
      BY <1>1, <1>4, ConcatProperties
    <2>2. accepted = Len(finished) + Len(InHand) + Len(buffer)
      BY DEF OrderInv, Numbered
    <2> QED
      BY <1>2, <1>4, <2>1, <2>2
  <1>7. ASSUME NEW i \in 1..Len(finished \o Outstanding)
        PROVE  (finished \o Outstanding)[i].no = i
    <2>0. i \in 1..(Len(finished) + Len(Outstanding))
      BY <1>1, <1>4, ConcatProperties
    <2>1. (finished \o Outstanding)[i]
            = IF i <= Len(finished) THEN finished[i] ELSE Outstanding[i - Len(finished)]
      BY <1>1, <1>4, <2>0, ConcatProperties
    <2>2. CASE i <= Len(finished)
      BY <1>2, <2>1, <2>2 DEF OrderInv, Numbered
    <2>3. CASE i > Len(finished)
      <3>1. i - Len(finished) \in 1..Len(Outstanding)
        BY <1>2, <1>4, <2>0, <2>3
      <3> QED
        BY <1>2, <1>5, <2>1, <2>3, <3>1
    <2> QED
      BY <1>2, <2>0, <2>2, <2>3
  <1> QED
    BY <1>6, <1>7 DEF FifoOrder

(* The pieces stay numbered, for every number of senders and messages. *)
LEMMA OrderHolds == ASSUME MaxRetries = 0 PROVE Spec => []OrderInv
  <1>1. Init => OnlyHolderHasBatch /\ Numbered
    BY DEF Init, OnlyHolderHasBatch, Numbered, InHand
  <1>2. OrderInv /\ [Next]_vars => OnlyHolderHasBatch'
    <2> SUFFICES ASSUME OrderInv, [Next]_vars PROVE OnlyHolderHasBatch'
      OBVIOUS
    <2> USE DEF OnlyHolderHasBatch
    <2>0. /\ pc \in [Sender -> Control] /\ batch \in [Sender -> Seq(Message)]
          /\ retries \in [Sender -> Nat]
      BY DEF OrderInv, TypeOK
    <2>00. OnlyHolderHasBatch
      BY DEF OrderInv
    <2>1. ASSUME NEW s \in Sender, NEW z \in Size, NEW min \in {1, 2}, Append_(s, z, min)
          PROVE  OnlyHolderHasBatch'
      <3>1. pc' = [pc EXCEPT ![s] = "asleep"] \/ pc' = [pc EXCEPT ![s] = "locked"]
        BY <2>1 DEF Append_
      <3>2. pc[s] = "idle" /\ batch' = batch
        BY <2>1 DEF Append_
      <3> QED
        BY <2>0, <2>00, <3>1, <3>2
    <2>2. ASSUME NEW s \in Sender, Relock(s) PROVE OnlyHolderHasBatch'
      BY <2>0, <2>00, <2>2 DEF Relock
    <2>3. ASSUME NEW s \in Sender, Process(s) PROVE OnlyHolderHasBatch'
      <3>1. PICK n \in 1..Len(buffer) : batch' = [batch EXCEPT ![s] = Prefix(n)]
        BY <2>3 DEF Process, TakeOut
      <3> QED
        BY <2>0, <2>00, <2>3, <3>1 DEF Process
    <2>4. ASSUME NEW s \in Sender, ProcessNothing(s) PROVE OnlyHolderHasBatch'
      BY <2>0, <2>00, <2>4 DEF ProcessNothing
    <2>5. ASSUME NEW s \in Sender, Post(s) PROVE OnlyHolderHasBatch'
      BY <2>0, <2>00, <2>5 DEF Post
    <2>6. ASSUME NEW s \in Sender, Answer(s) PROVE OnlyHolderHasBatch'
      <3>1. batch' = [batch EXCEPT ![s] = << >>]
            /\ pc' = [pc EXCEPT ![s] = IF left[s] = 0 THEN "idle" ELSE "asleep"]
        BY <2>6 DEF Answer
      <3> QED
        BY <2>0, <2>00, <3>1
    <2>7. ASSUME NEW s \in Sender, Reject(s) PROVE FALSE
      BY <2>0, <2>7 DEF Reject
    <2>8. ASSUME NEW s \in Sender, Retry(s) PROVE FALSE
      BY <2>00, <2>8 DEF Retry
    <2>9. CASE WindowEnds
      BY <2>00, <2>9 DEF WindowEnds
    <2>10. CASE UNCHANGED vars
      BY <2>00, <2>10 DEF vars
    <2> QED
      BY <2>1, <2>2, <2>3, <2>4, <2>5, <2>6, <2>7, <2>8, <2>9, <2>10
         DEF Next, Progress, Finished
  <1>3. OrderInv /\ [Next]_vars => Numbered'
    <2> SUFFICES ASSUME OrderInv, [Next]_vars PROVE Numbered'
      OBVIOUS
    <2>0. /\ batch \in [Sender -> Seq(Message)] /\ finished \in Seq(Message)
          /\ buffer \in Seq(Message) /\ InHand \in Seq(Message)
          /\ Len(finished) \in Nat /\ Len(buffer) \in Nat /\ Len(InHand) \in Nat
      BY LenProperties DEF OrderInv, TypeOK, InHand
    <2>00. LockHeld /\ OnlyHolderHasBatch /\ Numbered
      BY DEF OrderInv
    <2>K. ASSUME finished' = finished, buffer' = buffer, accepted' = accepted, InHand' = InHand
          PROVE  Numbered'
      BY <2>00, <2>K DEF Numbered
    <2>1. ASSUME NEW s \in Sender, NEW z \in Size, NEW min \in {1, 2}, Append_(s, z, min)
          PROVE  Numbered'
      <3> DEFINE m == [no |-> accepted + 1, from |-> s, size |-> z]
      <3>1. lock = Nobody /\ batch' = batch /\ pc[s] = "idle" /\ finished' = finished
            /\ accepted' = accepted + 1 /\ buffer' = Append(buffer, m)
        BY <2>1 DEF Append_
      <3>2. lock' = Nobody \/ lock' = s
        BY <2>1 DEF Append_, Acquire
      <3>3. InHand = << >> /\ InHand' = << >>
        BY <2>00, <3>1, <3>2 DEF InHand, OnlyHolderHasBatch
      <3>4. Len(buffer') = Len(buffer) + 1
            /\ \A i \in 1..Len(buffer') :
                  buffer'[i] = IF i = Len(buffer) + 1 THEN m ELSE buffer[i]
        BY <2>0, <3>1
      <3>5. m.no = accepted + 1
        OBVIOUS
      <3>6. accepted = Len(finished) + Len(buffer)
            /\ \A i \in 1..Len(buffer) : buffer[i].no = Len(finished) + i
        BY <2>0, <2>00, <3>3 DEF Numbered
      <3>7. ASSUME NEW i \in 1..Len(buffer') PROVE buffer'[i].no = Len(finished) + i
        <4>1. CASE i = Len(buffer) + 1
          <5>1. buffer'[i] = m
            BY <3>4, <4>1
          <5> QED
            BY <2>0, <3>5, <3>6, <4>1, <5>1
        <4>2. CASE i # Len(buffer) + 1
          <5>1. buffer'[i] = buffer[i] /\ i \in 1..Len(buffer)
            BY <2>0, <3>4, <4>2
          <5> QED
            BY <3>6, <5>1
        <4> QED
          BY <4>1, <4>2
      <3> QED
        BY <2>0, <2>00, <3>1, <3>3, <3>4, <3>6, <3>7 DEF Numbered
    <2>2. ASSUME NEW s \in Sender, Relock(s) PROVE Numbered'
      <3>1. InHand' = InHand
        BY <2>2, <2>00 DEF Relock, Acquire, InHand, OnlyHolderHasBatch
      <3> QED
        BY <2>2, <2>K, <3>1 DEF Relock, bufferVars
    <2>3. ASSUME NEW s \in Sender, Process(s) PROVE Numbered'
      <3>1. PICK n \in 1..Len(buffer) : TakeOut(s, n)
        BY <2>3 DEF Process
      <3>2. lock = s /\ lock' = s /\ s # Nobody /\ pc[s] = "locked"
        BY <2>3, <2>00, SenderAssumption DEF Process, LockHeld, Holding, bucketVars
      <3>3. InHand = << >> /\ InHand' = SubSeq(buffer, 1, n)
        BY <2>0, <2>00, <3>1, <3>2 DEF InHand, OnlyHolderHasBatch, TakeOut, Prefix
      <3>4. buffer' = SubSeq(buffer, n + 1, Len(buffer))
            /\ finished' = finished /\ accepted' = accepted
        BY <2>3, <3>1 DEF Process, TakeOut
      <3>5. Len(InHand') = n /\ \A i \in 1..n : InHand'[i] = buffer[i]
        BY <2>0, <3>3
      <3>6. Len(buffer') = Len(buffer) - n
        BY <2>0, <3>4
      <3>10. ASSUME NEW i \in 1..Len(buffer')
             PROVE  i + n \in 1..Len(buffer) /\ buffer'[i] = buffer[i + n]
        BY <2>0, <3>4, <3>6
      <3>7. accepted = Len(finished) + Len(buffer)
            /\ \A i \in 1..Len(buffer) : buffer[i].no = Len(finished) + i
        BY <2>0, <2>00, <3>3 DEF Numbered
      <3>8. \A i \in 1..Len(InHand') : InHand'[i].no = Len(finished) + i
        BY <2>0, <3>5, <3>7
      <3>9. ASSUME NEW i \in 1..Len(buffer') PROVE buffer'[i].no = Len(finished) + n + i
        <4>1. buffer'[i] = buffer[i + n] /\ i + n \in 1..Len(buffer)
          BY <3>10
        <4>2. buffer[i + n].no = Len(finished) + (i + n)
          BY <3>7, <4>1
        <4>3. i \in Nat
          BY <2>0, <3>6
        <4> QED
          BY <2>0, <4>1, <4>2, <4>3
      <3>11. accepted' = Len(finished') + Len(InHand') + Len(buffer')
        <4>1. Len(InHand') = n /\ Len(buffer') = Len(buffer) - n /\ Len(finished') = Len(finished)
          BY <3>4, <3>5, <3>6
        <4>2. accepted' = Len(finished) + Len(buffer) /\ n \in Int
          BY <3>4, <3>7
        <4> QED
          BY <2>0, <4>1, <4>2
      <3>12. \A i \in 1..Len(finished') : finished'[i].no = i
        BY <2>00, <3>4 DEF Numbered
      <3> QED
        BY <3>4, <3>5, <3>8, <3>9, <3>11, <3>12 DEF Numbered
    <2>4. ASSUME NEW s \in Sender, ProcessNothing(s) PROVE Numbered'
      <3>1. lock = s /\ lock' = Nobody /\ batch[s] = << >> /\ batch' = batch
        BY <2>4, <2>00, SenderAssumption
           DEF ProcessNothing, Release, LockHeld, Holding, OnlyHolderHasBatch
      <3>2. InHand' = InHand
        BY <3>1 DEF InHand
      <3> QED
        BY <2>4, <2>K, <3>2 DEF ProcessNothing, bufferVars
    <2>5. ASSUME NEW s \in Sender, Post(s) PROVE Numbered'
      BY <2>5, <2>K DEF Post, bufferVars, InHand
    <2>6. ASSUME NEW s \in Sender, Answer(s) PROVE Numbered'
      <3>1. lock = s /\ s # Nobody /\ lock' = Nobody
        BY <2>6, <2>00, SenderAssumption DEF Answer, Release, LockHeld, Holding
      <3>2. InHand = batch[s] /\ InHand' = << >>
        BY <3>1 DEF InHand
      <3>3. finished' = finished \o InHand /\ buffer' = buffer /\ accepted' = accepted
        BY <2>6, <3>2 DEF Answer, bufferVars
      <3>4. Len(finished') = Len(finished) + Len(InHand)
        BY <2>0, <3>3, ConcatProperties
      <3>5. ASSUME NEW i \in 1..Len(finished') PROVE finished'[i].no = i
        <4>1. finished'[i] = IF i <= Len(finished) THEN finished[i] ELSE InHand[i - Len(finished)]
          BY <2>0, <3>3, <3>4, ConcatProperties
        <4>2. CASE i <= Len(finished)
          BY <2>0, <2>00, <4>1, <4>2 DEF Numbered
        <4>3. CASE i > Len(finished)
          <5>1. i - Len(finished) \in 1..Len(InHand)
            BY <2>0, <3>4, <4>3
          <5> QED
            BY <2>0, <2>00, <4>1, <4>3, <5>1 DEF Numbered
        <4> QED
          BY <2>0, <3>4, <4>2, <4>3
      <3>6. accepted = Len(finished') + Len(buffer)
            /\ \A i \in 1..Len(buffer) : buffer[i].no = Len(finished') + i
        BY <2>0, <2>00, <3>4 DEF Numbered
      <3>7. Len(InHand') = 0 /\ Len(finished') \in Nat
        BY <2>0, <3>2, <3>4
      <3> QED
        BY <2>0, <3>3, <3>5, <3>6, <3>7 DEF Numbered
    <2>7. ASSUME NEW s \in Sender, Reject(s) PROVE FALSE
      BY <2>7 DEF Reject, OrderInv, TypeOK
    <2>8. ASSUME NEW s \in Sender, Retry(s) PROVE FALSE
      BY <2>00, <2>8 DEF Retry, OnlyHolderHasBatch
    <2>9. CASE WindowEnds
      BY <2>9, <2>K DEF WindowEnds, bufferVars, InHand
    <2>10. CASE UNCHANGED vars
      BY <2>10, <2>K DEF vars, bucketVars, bufferVars, InHand
    <2> QED
      BY <2>1, <2>2, <2>3, <2>4, <2>5, <2>6, <2>7, <2>8, <2>9, <2>10
         DEF Next, Progress, Finished
  <1> QED
    BY <1>1, <1>2, <1>3, TypeCorrect, LockDiscipline, PTL DEF Spec, OrderInv

(* Messages finish in the order in which they were appended, none lost and none
   twice, for every number of senders and messages, as long as the library sends
   no request a second time.                                                   *)
THEOREM FirstInFirstOut == ASSUME MaxRetries = 0 PROVE Spec => []FifoOrder
  BY OrderHolds, OrderInvGivesFifo, PTL

-----------------------------------------------------------------------------
(***************************************************************************)
(* The lengths of what is buffered and joined.  SizeOf is a sum defined by  *)
(* recursion; induction on sets of numbers shows that the recursion defines *)
(* it, and that sums of pieces add up.                                      *)
(***************************************************************************)

(* Induction, of a set in place of a predicate: the provers can instantiate it. *)
LEMMA SetInduction ==
  ASSUME NEW S, 0 \in S, \A n \in Nat : n \in S => n + 1 \in S
  PROVE  Nat \subseteq S
  <1> DEFINE Wrong == {n \in Nat : n \notin S}
             Initials == {0..n : n \in Wrong}
             Below == StrictSubsetOrdering(Nat)
  <1>1. ASSUME NEW w \in Wrong PROVE FALSE
    <2>1. IsWellFoundedOn(Below, FiniteSubsetsOf(Nat))
      BY FS_StrictSubsetOrderingWellFounded
    <2>2. Initials \subseteq FiniteSubsetsOf(Nat) /\ Initials # {}
      <3>1. ASSUME NEW n \in Wrong PROVE 0..n \in FiniteSubsetsOf(Nat)
        BY FS_Interval DEF FiniteSubsetsOf
      <3> QED
        BY <1>1, <3>1
    <2>3. PICK U \in Initials : \A V \in Initials : ~(<<V, U>> \in Below)
      <3> HIDE DEF Below, Initials
      <3> QED
        BY <2>1, <2>2, WFMin
    <2>4. PICK n \in Wrong : U = 0..n
      OBVIOUS
    <2>5. n \in Nat /\ n # 0 /\ n - 1 \in Nat /\ n - 1 + 1 = n
      OBVIOUS
    <2>6. 0..(n - 1) \subseteq 0..n /\ 0..(n - 1) # 0..n
      <3>1. n \in 0..n /\ n \notin 0..(n - 1)
        BY <2>5
      <3> QED
        BY <2>5, <3>1
    <2>7. <<0..(n - 1), 0..n>> \in Below
      BY <2>5, <2>6 DEF StrictSubsetOrdering
    <2>8. n - 1 \in S
      BY <2>3, <2>4, <2>5, <2>7
    <2> QED
      BY <2>5, <2>8
  <1> QED
    BY <1>1

Sized(q) == q \in Seq(Message)

(* f gives the sum of the first n lengths for every n up to k. *)
Sums(f, q, k) == /\ f \in [0..k -> Nat]
                 /\ f[0] = 0
                 /\ \A n \in 1..k : f[n] = f[n - 1] + q[n].size

LEMMA MessageSizes ==
  ASSUME NEW q, Sized(q), NEW n \in 1..Len(q)
  PROVE  q[n].size \in Nat /\ q[n].size < Limit
  <1>1. q[n] \in Message
    BY ElementOfSeq DEF Sized
  <1>2. q[n].size \in Size
    BY <1>1 DEF Message
  <1>3. q[n].size \in 0..(Limit - 1) /\ Limit \in Nat
    BY <1>2, SizeAssumption
  <1> QED
    BY <1>3

LEMMA SumsExist ==
  ASSUME NEW q, Sized(q)
  PROVE  \E f : Sums(f, q, Len(q))
  <1>0. Len(q) \in Nat
    BY LenProperties DEF Sized
  <1> DEFINE S == {k \in Nat : k <= Len(q) => \E f : Sums(f, q, k)}
  <1>1. 0 \in S
    <2>1. Sums([n \in 0..0 |-> 0], q, 0)
      BY DEF Sums
    <2> QED
      BY <2>1
  <1>2. ASSUME NEW k \in Nat, k \in S PROVE k + 1 \in S
    <2> SUFFICES ASSUME k + 1 <= Len(q) PROVE \E f : Sums(f, q, k + 1)
      OBVIOUS
    <2>1. PICK f : Sums(f, q, k)
      BY <1>0, <1>2
    <2> DEFINE g == [n \in 0..(k + 1) |-> IF n = k + 1 THEN f[k] + q[k + 1].size ELSE f[n]]
    <2>2. q[k + 1].size \in Nat /\ f[k] \in Nat
      BY <1>0, <2>1, MessageSizes DEF Sums
    <2>3. g \in [0..(k + 1) -> Nat]
      BY <2>1, <2>2 DEF Sums
    <2>4. \A n \in 1..(k + 1) : g[n] = g[n - 1] + q[n].size
      BY <2>1 DEF Sums
    <2>5. g[0] = 0
      BY <2>1 DEF Sums
    <2>6. Sums(g, q, k + 1)
      BY <2>3, <2>4, <2>5 DEF Sums
    <2> QED
      BY <2>6
  <1>3. Nat \subseteq S
    <2> HIDE DEF S
    <2> QED
      BY <1>1, <1>2, SetInduction
  <1> QED
    BY <1>0, <1>3

(* p has the lengths that q has after the first o. *)
Shifted(p, q, k, o) == \A n \in 1..k : q[o + n].size \in Nat /\ p[n].size = q[o + n].size

(* Sums that start alike go on alike, by an offset. *)
LEMMA SumsAgree ==
  ASSUME NEW p, NEW q, NEW k \in Nat, NEW o \in Nat, NEW f, NEW g,
         NEW l \in Nat, o + k <= l, Sums(f, p, k), Sums(g, q, l),
         Shifted(p, q, k, o)
  PROVE  \A n \in 0..k : f[n] = g[o + n] - g[o]
  <1> DEFINE S == {n \in Nat : n <= k => f[n] = g[o + n] - g[o]}
  <1>1. 0 \in S
    BY DEF Sums
  <1>2. ASSUME NEW n \in Nat, n \in S PROVE n + 1 \in S
    <2> SUFFICES ASSUME n + 1 <= k PROVE f[n + 1] = g[o + (n + 1)] - g[o]
      OBVIOUS
    <2>0. n + 1 \in 1..k /\ o + (n + 1) \in 1..l /\ n + 1 - 1 = n /\ o + (n + 1) - 1 = o + n
      OBVIOUS
    <2>1. f[n + 1] = f[n] + p[n + 1].size /\ g[o + (n + 1)] = g[o + n] + q[o + (n + 1)].size
      BY <2>0 DEF Sums
    <2>2. f[n] = g[o + n] - g[o] /\ p[n + 1].size = q[o + (n + 1)].size /\ q[o + (n + 1)].size \in Nat
      BY <1>2, <2>0 DEF Shifted
    <2>3. f[n] \in Nat /\ g[o + n] \in Nat /\ g[o] \in Nat /\ f[n + 1] \in Nat /\ g[o + (n + 1)] \in Nat
      BY <2>0 DEF Sums
    <2> QED
      BY <2>1, <2>2, <2>3
  <1>3. Nat \subseteq S
    <2> HIDE DEF S
    <2> QED
      BY <1>1, <1>2, SetInduction
  <1> QED
    BY <1>3

(* The recursive definition of SizeOf defines the sum. *)
LEMMA SizeOfIsSum ==
  ASSUME NEW q, Sized(q), NEW f, Sums(f, q, Len(q))
  PROVE  SizeOf(q) = f[Len(q)]
  <1>0. Len(q) \in Nat
    BY LenProperties DEF Sized
  <1> DEFINE Rule(g) == [n \in 0..Len(q) |-> IF n = 0 THEN 0 ELSE g[n - 1] + q[n].size]
             total == CHOOSE g : g = Rule(g)
  <1>1. SizeOf(q) = total[Len(q)]
    BY DEF SizeOf
  <1>2. f = Rule(f)
    BY <1>0 DEF Sums
  <1>3. total = Rule(total)
    <2> HIDE DEF Rule
    <2> QED
      BY <1>2
  <1>4. PICK sum : sum = Rule(sum) /\ SizeOf(q) = sum[Len(q)]
    BY <1>1, <1>3
  <1>5. Sums(sum, q, Len(q))
    <2> DEFINE S == {n \in Nat : n <= Len(q) => sum[n] \in Nat}
    <2>1. 0 \in S
      BY <1>0, <1>4
    <2>2. ASSUME NEW n \in Nat, n \in S PROVE n + 1 \in S
      <3> SUFFICES ASSUME n + 1 <= Len(q) PROVE sum[n + 1] \in Nat
        OBVIOUS
      <3>1. sum[n + 1] = sum[n] + q[n + 1].size
        BY <1>0, <1>4
      <3>2. q[n + 1].size \in Nat
        BY <1>0, MessageSizes
      <3> QED
        BY <2>2, <3>1, <3>2
    <2>3. Nat \subseteq S
      <3> HIDE DEF S
      <3> QED
        BY <2>1, <2>2, SetInduction
    <2>4. sum \in [0..Len(q) -> Nat]
      BY <1>0, <1>4, <2>3
    <2>5. sum[0] = 0
      BY <1>0, <1>4
    <2>6. \A n \in 1..Len(q) : sum[n] = sum[n - 1] + q[n].size
      BY <1>0, <1>4
    <2> QED
      BY <2>4, <2>5, <2>6 DEF Sums
  <1>6. sum[Len(q)] = f[Len(q)]
    <2>0. PICK o \in Nat : o = 0
      OBVIOUS
    <2>1. \A n \in 0..Len(q) : f[n] = sum[o + n] - sum[o]
      <3>1. o + Len(q) <= Len(q) /\ Shifted(q, q, Len(q), o)
        BY <1>0, <2>0, MessageSizes DEF Shifted
      <3>2. PICK k \in Nat, l \in Nat : k = Len(q) /\ l = Len(q)
        BY <1>0
      <3>3. o + k <= l
        BY <2>0, <3>2
      <3>4. Sums(f, q, k) /\ Sums(sum, q, l) /\ Shifted(q, q, k, o)
        BY <1>5, <3>1, <3>2
      <3>5. \A n \in 0..k : f[n] = sum[o + n] - sum[o]
        BY <3>3, <3>4, SumsAgree
      <3> QED
        BY <3>2, <3>5
    <2> QED
      BY <1>0, <1>5, <2>0, <2>1 DEF Sums
  <1> QED
    BY <1>4, <1>6

LEMMA SizeOfType == ASSUME NEW q, Sized(q) PROVE SizeOf(q) \in Nat
  <1>1. PICK f : Sums(f, q, Len(q))
    BY SumsExist
  <1> QED
    BY <1>1, SizeOfIsSum, LenProperties DEF Sums, Sized

LEMMA SizeOfEmpty == SizeOf(<< >>) = 0
  <1>1. Sized(<< >>) /\ Len(<< >>) = 0
    BY EmptySeq DEF Sized
  <1>2. PICK f : Sums(f, << >>, Len(<< >>))
    BY <1>1, SumsExist
  <1> QED
    BY <1>1, <1>2, SizeOfIsSum DEF Sums

(* What is in front and what is behind add up to the whole. *)
LEMMA SizeOfPieces ==
  ASSUME NEW q, Sized(q), NEW n \in 0..Len(q)
  PROVE  SizeOf(q) = SizeOf(SubSeq(q, 1, n)) + SizeOf(SubSeq(q, n + 1, Len(q)))
  <1> DEFINE front == SubSeq(q, 1, n)
             rest == SubSeq(q, n + 1, Len(q))
  <1>0. Len(q) \in Nat /\ q \in Seq(Message)
    BY LenProperties DEF Sized
  <1>1. Sized(front) /\ Len(front) = n /\ \A i \in 1..n : front[i] = q[i]
    BY <1>0 DEF Sized
  <1>2. Sized(rest) /\ Len(rest) = Len(q) - n /\ \A i \in 1..(Len(q) - n) : rest[i] = q[n + i]
    BY <1>0 DEF Sized
  <1>3. PICK f : Sums(f, q, Len(q))
    BY SumsExist
  <1>4. PICK a : Sums(a, front, n)
    BY <1>1, SumsExist
  <1>5. PICK b : Sums(b, rest, Len(q) - n)
    BY <1>2, SumsExist
  <1> HIDE DEF front, rest
  <1>6. PICK o \in Nat : o = 0 /\ \A i \in 0..n : a[i] = f[o + i] - f[o]
    <2>0. PICK o \in Nat : o = 0
      OBVIOUS
    <2>1. n \in Nat /\ o + n <= Len(q) /\ Shifted(front, q, n, o)
      BY <1>0, <1>1, <2>0, MessageSizes DEF Shifted
    <2>2. \A i \in 0..n : a[i] = f[o + i] - f[o]
      BY <1>0, <1>3, <1>4, <2>1, SumsAgree
    <2> QED
      BY <2>0, <2>2
  <1>7. \A i \in 0..(Len(q) - n) : b[i] = f[n + i] - f[n]
    <2>1. Len(q) - n \in Nat /\ n \in Nat /\ n + (Len(q) - n) <= Len(q) /\ Shifted(rest, q, Len(q) - n, n)
      BY <1>0, <1>2, MessageSizes DEF Shifted
    <2> QED
      BY <1>0, <1>3, <1>5, <2>1, SumsAgree
  <1>8. SizeOf(front) = a[n] /\ SizeOf(rest) = b[Len(q) - n] /\ SizeOf(q) = f[Len(q)]
    BY <1>1, <1>2, <1>3, <1>4, <1>5, SizeOfIsSum
  <1>9. f[0] = 0 /\ f[n] \in Nat /\ f[Len(q)] \in Nat
    BY <1>0, <1>3 DEF Sums
  <1>10. a[n] = f[n] - f[0] /\ b[Len(q) - n] = f[Len(q)] - f[n]
    <2>1. n \in 0..n /\ Len(q) - n \in 0..(Len(q) - n) /\ o + n = n /\ n + (Len(q) - n) = Len(q)
      BY <1>0, <1>6
    <2> QED
      BY <1>6, <1>7, <2>1
  <1> QED
    BY <1>8, <1>9, <1>10 DEF front, rest

LEMMA SizeOfOne == ASSUME NEW q, Sized(q), Len(q) = 1 PROVE SizeOf(q) = q[1].size
  <1>1. PICK f : Sums(f, q, 1)
    BY SumsExist
  <1>2. SizeOf(q) = f[1]
    BY <1>1, SizeOfIsSum
  <1>3. 1 \in 1..Len(q)
    OBVIOUS
  <1>4. q[1].size \in Nat
    BY <1>3, MessageSizes
  <1> QED
    BY <1>1, <1>2, <1>4 DEF Sums

LEMMA SizeOfAppend ==
  ASSUME NEW q, Sized(q), NEW m \in Message
  PROVE  SizeOf(Append(q, m)) = SizeOf(q) + m.size
  <1> DEFINE r == Append(q, m)
             n == Len(q)
             last == SubSeq(r, n + 1, Len(r))
  <1>1. q \in Seq(Message) /\ n \in Nat /\ r \in Seq(Message) /\ Len(r) = n + 1
    BY DEF Sized
  <1>2. SubSeq(r, 1, n) = q
    BY <1>1
  <1>3. Sized(last) /\ Len(last) = 1 /\ last[1] = m
    BY <1>1 DEF Sized
  <1>4. SizeOf(r) = SizeOf(SubSeq(r, 1, n)) + SizeOf(last)
    <2>1. Sized(r) /\ n \in 0..Len(r)
      BY <1>1 DEF Sized
    <2> HIDE DEF r, n
    <2> QED
      BY <2>1, SizeOfPieces
  <1>5. SizeOf(last) = m.size
    <2> HIDE DEF last
    <2> QED
      BY <1>3, SizeOfOne
  <1> QED
    BY <1>2, <1>4, <1>5

-----------------------------------------------------------------------------
(* What a step does to the buffer and the batches: a message is appended, a
   sender takes a prefix out, a sender's batch is finished, or nothing moves. *)
Appended(s, z) ==
  /\ buffer' = Append(buffer, [no |-> accepted + 1, from |-> s, size |-> z])
  /\ count' = count + z /\ accepted' = accepted + 1
  /\ batch' = batch /\ finished' = finished
TakenOut(s) ==
  /\ pc[s] = "locked" /\ pc'[s] = "taken"
  /\ \E n \in 1..Len(buffer) : TakeOut(s, n)
  /\ accepted' = accepted /\ finished' = finished
Answered(s) ==
  /\ pc[s] = "posting"
  /\ finished' = finished \o batch[s] /\ batch' = [batch EXCEPT ![s] = << >>]
  /\ buffer' = buffer /\ count' = count /\ accepted' = accepted
Unmoved ==
  buffer' = buffer /\ count' = count /\ batch' = batch /\ finished' = finished /\ accepted' = accepted

LEMMA Moves ==
  ASSUME [Next]_vars, TypeOK
  PROVE  \/ \E s \in Sender, z \in Size : Appended(s, z)
         \/ \E s \in Sender : TakenOut(s)
         \/ \E s \in Sender : Answered(s)
         \/ Unmoved
  <1>1. ASSUME NEW s \in Sender, NEW z \in Size, NEW min \in {1, 2}, Append_(s, z, min)
        PROVE  Appended(s, z)
    BY <1>1 DEF Append_, Appended
  <1>2. ASSUME NEW s \in Sender, Process(s) PROVE TakenOut(s)
    BY <1>2 DEF Process, TakenOut, TypeOK
  <1>3. ASSUME NEW s \in Sender, Answer(s) PROVE Answered(s)
    BY <1>3 DEF Answer, Answered, bufferVars
  <1>4. ASSUME NEW s \in Sender, Relock(s) \/ ProcessNothing(s) \/ Post(s) \/ Reject(s) \/ Retry(s)
        PROVE  Unmoved
    BY <1>4 DEF Relock, ProcessNothing, Post, Reject, Retry, Unmoved, bufferVars
  <1>5. WindowEnds \/ UNCHANGED vars => Unmoved
    BY DEF WindowEnds, Unmoved, vars, bufferVars
  <1> QED
    BY <1>1, <1>2, <1>3, <1>4, <1>5 DEF Next, Progress, Finished

(***************************************************************************)
(* The count that Append and Process keep is the sum of the lengths, however *)
(* many messages come and go; and no joined request reaches Limit.           *)
(***************************************************************************)
THEOREM CountStaysExact == Spec => []CountExact
  <1>1. Init => CountExact
    BY SizeOfEmpty DEF Init, CountExact
  <1>2. TypeOK /\ CountExact /\ [Next]_vars => CountExact'
    <2> SUFFICES ASSUME TypeOK, CountExact, [Next]_vars PROVE count' = SizeOf(buffer')
      BY DEF CountExact
    <2>0. Sized(buffer) /\ Len(buffer) \in Nat /\ count = SizeOf(buffer)
      BY LenProperties DEF TypeOK, Sized, CountExact
    <2>1. ASSUME NEW s \in Sender, NEW z \in Size, Appended(s, z) PROVE count' = SizeOf(buffer')
      <3> DEFINE m == [no |-> accepted + 1, from |-> s, size |-> z]
      <3>1. m \in Message /\ m.size = z
        BY DEF TypeOK, Message
      <3>2. buffer' = Append(buffer, m) /\ count' = count + z
        BY <2>1 DEF Appended
      <3> HIDE DEF m
      <3> QED
        BY <2>0, <3>1, <3>2, SizeOfAppend
    <2>2. ASSUME NEW s \in Sender, TakenOut(s) PROVE count' = SizeOf(buffer')
      <3>1. PICK n \in 1..Len(buffer) : TakeOut(s, n)
        BY <2>2 DEF TakenOut
      <3>2. /\ buffer' = SubSeq(buffer, n + 1, Len(buffer))
            /\ count' = IF Len(buffer) = 1 THEN 0 ELSE count - SizeOf(SubSeq(buffer, 1, n))
        BY <3>1 DEF TakeOut, Prefix
      <3>3. SizeOf(buffer) = SizeOf(SubSeq(buffer, 1, n)) + SizeOf(SubSeq(buffer, n + 1, Len(buffer)))
        BY <2>0, SizeOfPieces
      <3>4. /\ SizeOf(SubSeq(buffer, 1, n)) \in Nat
            /\ SizeOf(SubSeq(buffer, n + 1, Len(buffer))) \in Nat
        <4>1. Sized(SubSeq(buffer, 1, n)) /\ Sized(SubSeq(buffer, n + 1, Len(buffer)))
          BY <2>0 DEF Sized
        <4> QED
          BY <4>1, SizeOfType
      <3>5. CASE Len(buffer) = 1
        <4>1. buffer' = << >>
          BY <2>0, <3>2, <3>5 DEF Sized
        <4> QED
          BY <3>2, <3>5, <4>1, SizeOfEmpty
      <3>6. CASE Len(buffer) # 1
        BY <2>0, <3>2, <3>3, <3>4, <3>6
      <3> QED
        BY <3>5, <3>6
    <2>3. ASSUME NEW s \in Sender, Answered(s) PROVE count' = SizeOf(buffer')
      BY <2>0, <2>3 DEF Answered
    <2>4. CASE Unmoved
      BY <2>0, <2>4 DEF Unmoved
    <2> QED
      BY <2>1, <2>2, <2>3, <2>4, Moves
  <1> QED
    BY <1>1, <1>2, TypeCorrect, PTL DEF Spec

THEOREM RequestsFit == Spec => []BatchFits
  <1>1. Init => BatchFits
    BY DEF Init, BatchFits
  <1>2. TypeOK /\ BatchFits /\ [Next]_vars => BatchFits'
    <2> SUFFICES ASSUME TypeOK, BatchFits, [Next]_vars PROVE BatchFits'
      OBVIOUS
    <2>0. Sized(buffer) /\ Len(buffer) \in Nat /\ batch \in [Sender -> Seq(Message)]
      BY LenProperties DEF TypeOK, Sized
    <2>1. ASSUME NEW s \in Sender, NEW z \in Size, Appended(s, z) PROVE BatchFits'
      BY <2>1 DEF Appended, BatchFits
    <2>2. ASSUME NEW s \in Sender, TakenOut(s) PROVE BatchFits'
      <3>1. PICK n \in 1..Len(buffer) : TakeOut(s, n)
        BY <2>2 DEF TakenOut
      <3>2. batch' = [batch EXCEPT ![s] = SubSeq(buffer, 1, n)] /\ Longest(n)
        BY <3>1 DEF TakeOut, Prefix
      <3>3. SizeOf(SubSeq(buffer, 1, n)) + (Len(SubSeq(buffer, 1, n)) - 1) < Limit
        <4>0. Len(SubSeq(buffer, 1, n)) = n /\ Sized(SubSeq(buffer, 1, n))
          BY <2>0 DEF Sized
        <4>1. CASE n = 1
          <5>1. buffer[1] \in Message /\ buffer[1].size \in Nat /\ buffer[1].size < Limit
            BY <2>0, <4>1, MessageSizes, ElementOfSeq DEF Sized
          <5>2. SubSeq(buffer, 1, n)[1] = buffer[1]
            BY <2>0, <4>1 DEF Sized
          <5>3. SizeOf(SubSeq(buffer, 1, n)) = buffer[1].size
            BY <4>0, <4>1, <5>2, SizeOfOne
          <5> QED
            BY <4>0, <4>1, <5>1, <5>3
        <4>2. CASE n # 1
          BY <3>2, <4>0, <4>2, SizeOfType, SizeAssumption DEF Longest, Fits, Prefix
        <4> QED
          BY <4>1, <4>2
      <3> QED
        BY <2>0, <3>2, <3>3 DEF BatchFits
    <2>3. ASSUME NEW s \in Sender, Answered(s) PROVE BatchFits'
      BY <2>0, <2>3 DEF Answered, BatchFits
    <2>4. CASE Unmoved
      BY <2>4 DEF Unmoved, BatchFits
    <2> QED
      BY <2>1, <2>2, <2>3, <2>4, Moves
  <1> QED
    BY <1>1, <1>2, TypeCorrect, PTL DEF Spec

-----------------------------------------------------------------------------
(***************************************************************************)
(* A call that has returned left nothing of its own behind.  Of what is in  *)
(* the buffer NeverStranded says so; what is in a batch belongs to its      *)
(* holder or to a sender that sleeps, and cannot wake up before the holder  *)
(* lets go of the bucket.                                                   *)
(***************************************************************************)
Awaited == \A i \in 1..Len(InHand) : InHand[i].from = lock \/ pc[InHand[i].from] = "asleep"

LEMMA AwaitedGivesFinished == OrderInv /\ NeverStranded /\ Awaited => ReturnedMeansFinished
  <1> SUFFICES ASSUME OrderInv, NeverStranded, Awaited,
                      NEW s \in Sender, NEW i \in 1..Len(Outstanding), Outstanding[i].from = s
               PROVE  pc[s] # "idle"
    BY DEF ReturnedMeansFinished
  <1>0. LockHeld /\ lock \in Sender \cup {Nobody}
    BY DEF OrderInv, TypeOK
  <1>1. InHand \in Seq(Message) /\ buffer \in Seq(Message) /\ Len(InHand) \in Nat /\ Len(buffer) \in Nat
    BY LenProperties DEF OrderInv, TypeOK, InHand
  <1>2. Outstanding = InHand \o buffer
    BY DEF Outstanding, InHand
  <1>3. Len(Outstanding) = Len(InHand) + Len(buffer)
    BY <1>1, <1>2, ConcatProperties
  <1>4. Outstanding[i] = IF i <= Len(InHand) THEN InHand[i] ELSE buffer[i - Len(InHand)]
    BY <1>1, <1>2, <1>3, ConcatProperties
  <1>5. CASE i <= Len(InHand)
    <2>1. s = lock \/ pc[s] = "asleep"
      BY <1>1, <1>4, <1>5 DEF Awaited
    <2> QED
      BY <1>0, <2>1 DEF LockHeld, Holding
  <1>6. CASE i > Len(InHand)
    <2>1. i - Len(InHand) \in 1..Len(buffer) /\ buffer[i - Len(InHand)].from = s
      BY <1>1, <1>3, <1>4, <1>6
    <2>2. WillProcess(s)
      BY <2>1 DEF NeverStranded
    <2> QED
      BY <2>2 DEF WillProcess
  <1> QED
    BY <1>1, <1>5, <1>6

THEOREM ReturningMeansFinished == ASSUME MaxRetries = 0 PROVE Spec => []ReturnedMeansFinished
  <1>1. Init => Awaited
    BY DEF Init, Awaited, InHand
  <1>2. OrderInv /\ NeverStranded /\ Awaited /\ [Next]_vars => Awaited'
    <2> SUFFICES ASSUME OrderInv, NeverStranded, Awaited, [Next]_vars PROVE Awaited'
      OBVIOUS
    <2>0. /\ pc \in [Sender -> Control] /\ batch \in [Sender -> Seq(Message)]
          /\ buffer \in Seq(Message) /\ Len(buffer) \in Nat
          /\ LockHeld /\ OnlyHolderHasBatch
      BY LenProperties DEF OrderInv, TypeOK
    <2>F. /\ \A i \in 1..Len(buffer) : buffer[i].from \in Sender
          /\ \A i \in 1..Len(InHand) : InHand[i].from \in Sender
      <3>1. InHand \in Seq(Message)
        BY DEF OrderInv, TypeOK, InHand
      <3>2. \A m \in Message : m.from \in Sender
        BY DEF Message
      <3> QED
        BY <2>0, <3>1, <3>2, ElementOfSeq
    <2>E. ASSUME InHand' = << >> PROVE Awaited'
      BY <2>E DEF Awaited
    <2>1. ASSUME NEW s \in Sender, NEW z \in Size, NEW min \in {1, 2}, Append_(s, z, min) PROVE Awaited'
      <3>1. batch' = batch /\ (lock' = Nobody \/ lock' = s) /\ pc[s] = "idle"
        BY <2>1 DEF Append_, Acquire
      <3>2. InHand' = << >>
        BY <2>0, <3>1 DEF InHand, OnlyHolderHasBatch
      <3> QED
        BY <2>E, <3>2
    <2>2. ASSUME NEW s \in Sender, Relock(s) PROVE Awaited'
      <3>1. batch' = batch /\ lock' = s /\ pc[s] = "asleep"
        BY <2>2 DEF Relock, Acquire
      <3>2. InHand' = << >>
        BY <2>0, <3>1, SenderAssumption DEF InHand, OnlyHolderHasBatch
      <3> QED
        BY <2>E, <3>2
    <2>3. ASSUME NEW s \in Sender, Process(s) PROVE Awaited'
      <3>1. PICK n \in 1..Len(buffer) : TakeOut(s, n)
        BY <2>3 DEF Process
      <3>2. lock = s /\ lock' = s /\ pc' = [pc EXCEPT ![s] = "taken"]
        BY <2>0, <2>3 DEF Process, LockHeld, Holding, bucketVars
      <3>3. InHand' = SubSeq(buffer, 1, n)
        BY <2>0, <3>1, <3>2, SenderAssumption DEF InHand, TakeOut, Prefix
      <3>4. ASSUME NEW i \in 1..Len(InHand') PROVE InHand'[i].from = lock' \/ pc'[InHand'[i].from] = "asleep"
        <4>1. i \in 1..Len(buffer) /\ InHand'[i] = buffer[i]
          BY <2>0, <3>3
        <4> DEFINE u == buffer[i].from
        <4>2. u \in Sender /\ WillProcess(u)
          BY <2>F, <4>1 DEF NeverStranded
        <4>3. u = s \/ pc[u] = "asleep"
          BY <2>0, <3>2, <4>2 DEF WillProcess, LockHeld, Holding, OnlyHolderHasBatch
        <4> QED
          BY <2>0, <3>2, <4>1, <4>2, <4>3
      <3> QED
        BY <3>4 DEF Awaited
    <2>4. ASSUME NEW s \in Sender, ProcessNothing(s) PROVE Awaited'
      BY <2>4, <2>E DEF ProcessNothing, Release, InHand
    <2>5. ASSUME NEW s \in Sender, Post(s) PROVE Awaited'
      <3>1. InHand' = InHand /\ lock' = lock /\ pc' = [pc EXCEPT ![s] = "posting"] /\ pc[s] = "taken"
        BY <2>5 DEF Post, InHand
      <3> QED
        BY <2>0, <2>F, <3>1 DEF Awaited
    <2>6. ASSUME NEW s \in Sender, Answer(s) PROVE Awaited'
      BY <2>6, <2>E DEF Answer, Release, InHand
    <2>7. ASSUME NEW s \in Sender, Reject(s) PROVE FALSE
      BY <2>7 DEF Reject, OrderInv, TypeOK
    <2>8. ASSUME NEW s \in Sender, Retry(s) PROVE FALSE
      BY <2>0, <2>8 DEF Retry, OnlyHolderHasBatch
    <2>9. CASE WindowEnds
      BY <2>9 DEF WindowEnds, InHand, Awaited
    <2>10. CASE UNCHANGED vars
      BY <2>10 DEF vars, bucketVars, InHand, Awaited
    <2> QED
      BY <2>1, <2>2, <2>3, <2>4, <2>5, <2>6, <2>7, <2>8, <2>9, <2>10
         DEF Next, Progress, Finished
  <1> QED
    BY <1>1, <1>2, OrderHolds, NoMessageStranded, AwaitedGivesFinished, PTL DEF Spec

-----------------------------------------------------------------------------
(***************************************************************************)
(* The refinement, step by step: appending is the channel's Accept, the     *)
(* answer to a request its Finish, and taking a batch out moves nothing of  *)
(* what is outstanding.                                                     *)
(***************************************************************************)
LEMMA JoinedIsSize == ASSUME NEW q PROVE Channel!Joined(q) = SizeOf(q) + Len(q) - 1
  BY DEF Channel!Joined, SizeOf

LEMMA AppendedIsAccept ==
  ASSUME OrderInv, NEW s \in Sender, NEW z \in Size, NEW min \in {1, 2}, Append_(s, z, min)
  PROVE  Channel!Accept(s, z)
  <1> DEFINE m == [no |-> accepted + 1, from |-> s, size |-> z]
  <1>1. /\ lock = Nobody /\ (lock' = Nobody \/ lock' = s) /\ batch' = batch /\ pc[s] = "idle"
        /\ finished' = finished /\ buffer' = Append(buffer, m)
    BY DEF Append_, Acquire
  <1>2. Outstanding = << >> \o buffer /\ Outstanding' = << >> \o buffer'
    BY <1>1 DEF Outstanding, OrderInv, OnlyHolderHasBatch
  <1>3. buffer \in Seq(Message) /\ m \in Message /\ Append(buffer, m) \in Seq(Message)
    BY DEF OrderInv, TypeOK, Message
  <1>4. Outstanding = buffer /\ Outstanding' = buffer'
    BY <1>1, <1>2, <1>3, ConcatEmptySeq
  <1>5. accepted = Len(finished) + Len(Outstanding)
    <2>1. InHand = << >>
      BY <1>1 DEF InHand
    <2> QED
      BY <1>4, <2>1 DEF OrderInv, TypeOK, Numbered
  <1> QED
    BY <1>1, <1>4, <1>5 DEF Channel!Accept

LEMMA TakenOutIsStutter ==
  ASSUME OrderInv, NEW s \in Sender, Process(s)
  PROVE  UNCHANGED <<Outstanding, finished>>
  <1>1. PICK n \in 1..Len(buffer) : TakeOut(s, n)
    BY DEF Process
  <1>2. lock = s /\ lock' = s /\ s # Nobody /\ pc[s] = "locked" /\ finished' = finished
    BY SenderAssumption DEF Process, OrderInv, LockHeld, Holding, bucketVars
  <1>3. buffer \in Seq(Message) /\ batch \in [Sender -> Seq(Message)] /\ Len(buffer) \in Nat
    BY LenProperties DEF OrderInv, TypeOK
  <1>4. Outstanding = << >> \o buffer
    BY <1>2 DEF Outstanding, OrderInv, OnlyHolderHasBatch
  <1>5. Outstanding' = SubSeq(buffer, 1, n) \o SubSeq(buffer, n + 1, Len(buffer))
    BY <1>1, <1>2, <1>3 DEF Outstanding, TakeOut, Prefix
  <1>6. SubSeq(buffer, 1, n) \o SubSeq(buffer, n + 1, Len(buffer)) = SubSeq(buffer, 1, Len(buffer))
    BY <1>3, ConcatAdjacentSubSeq
  <1>7. SubSeq(buffer, 1, Len(buffer)) = buffer /\ << >> \o buffer = buffer
    BY <1>3, SubSeqFull, ConcatEmptySeq
  <1> QED
    BY <1>2, <1>4, <1>5, <1>6, <1>7

LEMMA AnsweredIsFinish ==
  ASSUME OrderInv, BatchFits, NEW s \in Sender, Answer(s)
  PROVE  Channel!Next \/ UNCHANGED <<Outstanding, finished>>
  <1> DEFINE b == batch[s]
             n == Len(b)
  <1>1. lock = s /\ s # Nobody /\ lock' = Nobody /\ buffer' = buffer /\ finished' = finished \o b
    BY SenderAssumption DEF Answer, Release, OrderInv, LockHeld, Holding, bufferVars
  <1>2. b \in Seq(Message) /\ buffer \in Seq(Message) /\ finished \in Seq(Message)
        /\ n \in Nat /\ Len(buffer) \in Nat
    BY LenProperties DEF OrderInv, TypeOK
  <1>3. Outstanding = b \o buffer /\ Outstanding' = << >> \o buffer
    BY <1>1 DEF Outstanding
  <1>4. << >> \o buffer = buffer
    BY <1>2, ConcatEmptySeq
  <1>5. CASE b = << >>
    BY <1>1, <1>2, <1>3, <1>4, <1>5, ConcatEmptySeq
  <1>6. CASE b # << >>
    <2>1. Len(Outstanding) = n + Len(buffer) /\ n \in 1..Len(Outstanding) /\ Outstanding \in Seq(Message)
      BY <1>2, <1>3, <1>6, EmptySeq, ConcatProperties
    <2>2. SubSeq(Outstanding, 1, n) = b
      BY <1>2, <1>3
    <2>3. SubSeq(Outstanding, n + 1, Len(Outstanding)) = buffer
      <3> DEFINE rest == SubSeq(Outstanding, n + 1, Len(Outstanding))
      <3>1. rest \in Seq(Message) /\ Len(rest) = Len(buffer)
        BY <1>2, <2>1
      <3>2. \A i \in 1..Len(buffer) : rest[i] = Outstanding[n + i] /\ Outstanding[n + i] = buffer[i]
        BY <1>2, <1>3, <2>1
      <3> HIDE DEF rest
      <3> QED
        BY <1>2, <3>1, <3>2, SeqEqual DEF rest
    <2>4. Channel!Joined(b) < Limit
      <3>1. SizeOf(b) + (n - 1) < Limit /\ SizeOf(b) \in Nat
        BY <1>2, <1>6, SizeOfType DEF BatchFits, Sized
      <3>2. Channel!Joined(b) = SizeOf(b) + n - 1
        BY JoinedIsSize
      <3> HIDE DEF b
      <3> QED
        BY <1>2, <3>1, <3>2
    <2>5. Channel!Finish(n)
      BY <1>1, <1>3, <1>4, <2>2, <2>3, <2>4 DEF Channel!Finish
    <2> QED
      BY <2>1, <2>5 DEF Channel!Next
  <1> QED
    BY <1>5, <1>6

(* The buffer and the lock around it implement the channel that MessageChannel
   promises, for every number of senders, messages and lengths, as long as the
   library sends no request a second time (RequestPostWithBuffer).             *)
THEOREM BufferImplementsChannel == ASSUME MaxRetries = 0 PROVE Spec => ImplementsChannel
  <1>1. Init => Channel!Init
    <2> SUFFICES ASSUME Init PROVE Outstanding = << >> /\ finished = << >>
      BY DEF Channel!Init
    <2>1. Outstanding = << >> \o << >>
      BY DEF Init, Outstanding
    <2> QED
      BY <2>1 DEF Init
  <1>2. OrderInv /\ BatchFits /\ [Next]_vars => [Channel!Next]_<<Outstanding, finished>>
    <2> SUFFICES ASSUME OrderInv, BatchFits, [Next]_vars
                 PROVE  Channel!Next \/ UNCHANGED <<Outstanding, finished>>
      OBVIOUS
    <2>1. ASSUME NEW s \in Sender, NEW z \in Size, NEW min \in {1, 2}, Append_(s, z, min) PROVE Channel!Next
      BY <2>1, AppendedIsAccept DEF Channel!Next
    <2>2. ASSUME NEW s \in Sender, Relock(s) PROVE UNCHANGED <<Outstanding, finished>>
      <3>1. lock = Nobody /\ lock' = s /\ batch' = batch /\ buffer' = buffer /\ finished' = finished /\ pc[s] = "asleep"
        BY <2>2 DEF Relock, Acquire, bufferVars
      <3> QED
        BY <3>1 DEF Outstanding, OrderInv, OnlyHolderHasBatch
    <2>3. ASSUME NEW s \in Sender, Process(s) PROVE UNCHANGED <<Outstanding, finished>>
      BY <2>3, TakenOutIsStutter
    <2>4. ASSUME NEW s \in Sender, ProcessNothing(s) PROVE UNCHANGED <<Outstanding, finished>>
      <3>1. /\ lock = s /\ s # Nobody /\ lock' = Nobody /\ pc[s] = "locked"
            /\ batch' = batch /\ buffer' = buffer /\ finished' = finished
        BY <2>4, SenderAssumption DEF ProcessNothing, Release, OrderInv, LockHeld, Holding, bufferVars
      <3> QED
        BY <3>1 DEF Outstanding, OrderInv, OnlyHolderHasBatch
    <2>5. ASSUME NEW s \in Sender, Post(s) PROVE UNCHANGED <<Outstanding, finished>>
      BY <2>5 DEF Post, Outstanding, bufferVars
    <2>6. ASSUME NEW s \in Sender, Answer(s) PROVE Channel!Next \/ UNCHANGED <<Outstanding, finished>>
      BY <2>6, AnsweredIsFinish
    <2>7. ASSUME NEW s \in Sender, Reject(s) PROVE FALSE
      BY <2>7 DEF Reject, OrderInv, TypeOK
    <2>8. ASSUME NEW s \in Sender, Retry(s) PROVE FALSE
      BY <2>8 DEF Retry, OrderInv, OnlyHolderHasBatch
    <2>9. CASE WindowEnds
      BY <2>9 DEF WindowEnds, Outstanding, bufferVars
    <2>10. CASE UNCHANGED vars
      BY <2>10 DEF vars, bucketVars, bufferVars, Outstanding
    <2> QED
      BY <2>1, <2>2, <2>3, <2>4, <2>5, <2>6, <2>7, <2>8, <2>9, <2>10
         DEF Next, Progress, Finished
  <1> QED
    BY <1>1, <1>2, OrderHolds, RequestsFit, PTL DEF Spec, ImplementsChannel, Channel!Spec

-----------------------------------------------------------------------------
(***************************************************************************)
(* Rejected requests included, every accepted message is in exactly one     *)
(* place.  The induction says of each number whether the buffer, what is    *)
(* finished and each batch hold it once or not at all.                      *)
(***************************************************************************)
Not(q, k) == \A i \in 1..Len(q) : q[i].no # k
One(q, k) == \E i \in 1..Len(q) : q[i].no = k /\ \A j \in 1..Len(q) : q[j].no = k => j = i

Once(k) ==
  \/ One(buffer, k) /\ Not(finished, k) /\ \A s \in Sender : Not(batch[s], k)
  \/ Not(buffer, k) /\ One(finished, k) /\ \A s \in Sender : Not(batch[s], k)
  \/ Not(buffer, k) /\ Not(finished, k)
     /\ \E s \in Sender : One(batch[s], k) /\ \A t \in Sender \ {s} : Not(batch[t], k)
Nowhere(k) == Not(buffer, k) /\ Not(finished, k) /\ \A s \in Sender : Not(batch[s], k)

BatchesBelong == \A s \in Sender : batch[s] # << >> => pc[s] \in {"taken", "posting", "rejected"}

Placed == \A k \in Nat : IF k \in 1..accepted THEN Once(k) ELSE Nowhere(k)

LEMMA HoldsOnceAppend ==
  ASSUME NEW q \in Seq(Message), NEW m \in Message, NEW k
  PROVE  /\ Not(q, k) /\ m.no # k => Not(Append(q, m), k)
         /\ Not(q, k) /\ m.no = k => One(Append(q, m), k)
         /\ One(q, k) /\ m.no # k => One(Append(q, m), k)
  <1>1. /\ Len(q) \in Nat /\ Len(Append(q, m)) = Len(q) + 1
        /\ \A i \in 1..Len(q) : Append(q, m)[i] = q[i]
        /\ Append(q, m)[Len(q) + 1] = m
    BY AppendProperties, LenProperties
  <1> QED
    BY <1>1 DEF Not, One

LEMMA HoldsOnceConcat ==
  ASSUME NEW p \in Seq(Message), NEW q \in Seq(Message), NEW k
  PROVE  /\ Not(p, k) /\ Not(q, k) => Not(p \o q, k)
         /\ One(p, k) /\ Not(q, k) => One(p \o q, k)
         /\ Not(p, k) /\ One(q, k) => One(p \o q, k)
  <1>0. Len(p) \in Nat /\ Len(q) \in Nat /\ Len(p \o q) = Len(p) + Len(q)
    BY LenProperties, ConcatProperties
  <1>1. /\ \A i \in 1..Len(p) : (p \o q)[i] = p[i]
        /\ \A i \in 1..Len(q) : (p \o q)[Len(p) + i] = q[i]
        /\ \A i \in 1..Len(p \o q) : i \in 1..Len(p) \/ \E j \in 1..Len(q) : i = Len(p) + j
    <2>1. ASSUME NEW i \in 1..Len(p) PROVE (p \o q)[i] = p[i]
      BY <1>0, ConcatProperties
    <2>2. ASSUME NEW i \in 1..Len(q) PROVE (p \o q)[Len(p) + i] = q[i]
      BY <1>0, ConcatProperties
    <2>3. ASSUME NEW i \in 1..Len(p \o q), i \notin 1..Len(p) PROVE \E j \in 1..Len(q) : i = Len(p) + j
      <3>1. i - Len(p) \in 1..Len(q) /\ i = Len(p) + (i - Len(p))
        BY <1>0, <2>3
      <3> QED
        BY <3>1
    <2> QED
      BY <2>1, <2>2, <2>3
  <1>2. ASSUME Not(p, k), Not(q, k) PROVE Not(p \o q, k)
    BY <1>0, <1>1, <1>2 DEF Not
  <1>3. ASSUME One(p, k), Not(q, k) PROVE One(p \o q, k)
    <2>1. PICK i \in 1..Len(p) : p[i].no = k /\ \A j \in 1..Len(p) : p[j].no = k => j = i
      BY <1>3 DEF One
    <2>2. \A j \in 1..Len(p \o q) : (p \o q)[j].no = k => j = i
      BY <1>1, <1>3, <2>1 DEF Not
    <2> QED
      BY <1>0, <1>1, <2>1, <2>2 DEF One
  <1>4. ASSUME Not(p, k), One(q, k) PROVE One(p \o q, k)
    <2>1. PICK i \in 1..Len(q) : q[i].no = k /\ \A j \in 1..Len(q) : q[j].no = k => j = i
      BY <1>4 DEF One
    <2>2. \A j \in 1..Len(p \o q) : (p \o q)[j].no = k => j = Len(p) + i
      BY <1>1, <1>4, <2>1 DEF Not
    <2>3. Len(p) + i \in 1..Len(p \o q)
      BY <1>0
    <2> QED
      BY <1>1, <2>1, <2>2, <2>3 DEF One
  <1> QED
    BY <1>2, <1>3, <1>4

LEMMA HoldsOnceSplit ==
  ASSUME NEW q \in Seq(Message), NEW n \in 1..Len(q), NEW k
  PROVE  LET front == SubSeq(q, 1, n)
             rest == SubSeq(q, n + 1, Len(q))
         IN  /\ Not(q, k) => Not(front, k) /\ Not(rest, k)
             /\ One(q, k) => \/ One(front, k) /\ Not(rest, k)
                             \/ Not(front, k) /\ One(rest, k)
  <1> DEFINE front == SubSeq(q, 1, n)
             rest == SubSeq(q, n + 1, Len(q))
  <1>1. /\ Len(q) \in Nat /\ Len(front) = n /\ Len(rest) = Len(q) - n
    BY LenProperties
  <1>F. ASSUME NEW i \in 1..Len(front) PROVE i \in 1..Len(q) /\ i <= n /\ front[i] = q[i]
    BY <1>1
  <1>R. ASSUME NEW i \in 1..Len(rest) PROVE n + i \in 1..Len(q) /\ rest[i] = q[n + i]
    BY <1>1
  <1> HIDE DEF front, rest
  <1>2. ASSUME Not(q, k) PROVE Not(front, k) /\ Not(rest, k)
    BY <1>F, <1>R, <1>2 DEF Not
  <1>3. ASSUME One(q, k) PROVE \/ One(front, k) /\ Not(rest, k)
                               \/ Not(front, k) /\ One(rest, k)
    <2>1. PICK i \in 1..Len(q) : q[i].no = k /\ \A j \in 1..Len(q) : q[j].no = k => j = i
      BY <1>3 DEF One
    <2>2. CASE i <= n
      <3>1. i \in 1..Len(front) /\ front[i].no = k
        BY <1>1, <1>F, <2>1, <2>2
      <3>2. \A j \in 1..Len(front) : front[j].no = k => j = i
        BY <1>F, <2>1
      <3>3. ASSUME NEW j \in 1..Len(rest) PROVE rest[j].no # k
        <4>1. n + j # i
          BY <1>1, <2>2
        <4> QED
          BY <1>R, <2>1, <4>1
      <3> QED
        BY <3>1, <3>2, <3>3 DEF One, Not
    <2>3. CASE i > n
      <3>1. i - n \in 1..Len(rest) /\ rest[i - n].no = k
        <4>1. i - n \in 1..Len(rest) /\ n + (i - n) = i
          BY <1>1, <2>3
        <4> QED
          BY <1>R, <2>1, <4>1
      <3>2. ASSUME NEW j \in 1..Len(rest), rest[j].no = k PROVE j = i - n
        <4>1. n + j = i
          BY <1>R, <2>1, <3>2
        <4> QED
          BY <1>1, <4>1
      <3>3. Not(front, k)
        BY <1>1, <1>F, <2>1, <2>3 DEF Not
      <3> QED
        BY <3>1, <3>2, <3>3 DEF One
    <2> QED
      BY <2>2, <2>3
  <1> QED
    BY <1>2, <1>3 DEF front, rest

LEMMA PlacedGivesExactlyOnce == TypeOK /\ Placed => ExactlyOnce
  <1> SUFFICES ASSUME TypeOK, NEW k \in 1..accepted, Once(k) PROVE Cardinality(Places(k)) = 1
    BY DEF Placed, ExactlyOnce, TypeOK
  <1>1. ASSUME NEW p, Places(k) = {p} PROVE Cardinality(Places(k)) = 1
    BY <1>1, FS_Singleton
  <1>2. CASE One(buffer, k) /\ Not(finished, k) /\ \A s \in Sender : Not(batch[s], k)
    <2>1. PICK i \in 1..Len(buffer) : buffer[i].no = k /\ \A j \in 1..Len(buffer) : buffer[j].no = k => j = i
      BY <1>2 DEF One
    <2>2. Places(k) = {[b |-> "buffer", i |-> i]}
      BY <1>2, <2>1 DEF Places, Not
    <2> QED
      BY <1>1, <2>2
  <1>3. CASE Not(buffer, k) /\ One(finished, k) /\ \A s \in Sender : Not(batch[s], k)
    <2>1. PICK i \in 1..Len(finished) : finished[i].no = k /\ \A j \in 1..Len(finished) : finished[j].no = k => j = i
      BY <1>3 DEF One
    <2>2. Places(k) = {[b |-> "finished", i |-> i]}
      BY <1>3, <2>1 DEF Places, Not
    <2> QED
      BY <1>1, <2>2
  <1>4. ASSUME Not(buffer, k), Not(finished, k), NEW s \in Sender, One(batch[s], k),
               \A t \in Sender \ {s} : Not(batch[t], k)
        PROVE  Cardinality(Places(k)) = 1
    <2>1. PICK i \in 1..Len(batch[s]) : batch[s][i].no = k /\ \A j \in 1..Len(batch[s]) : batch[s][j].no = k => j = i
      BY <1>4 DEF One
    <2>2. Places(k) = {[b |-> s, i |-> i]}
      BY <1>4, <2>1 DEF Places, Not
    <2> QED
      BY <1>1, <2>2
  <1> QED
    BY <1>2, <1>3, <1>4 DEF Once

LEMMA BatchesStay == Spec => []BatchesBelong
  <1>1. Init => BatchesBelong
    BY DEF Init, BatchesBelong
  <1>2. TypeOK /\ BatchesBelong /\ [Next]_vars => BatchesBelong'
    <2> SUFFICES ASSUME TypeOK, BatchesBelong, [Next]_vars PROVE BatchesBelong'
      OBVIOUS
    <2> USE DEF BatchesBelong
    <2>0. pc \in [Sender -> Control] /\ batch \in [Sender -> Seq(Message)]
      BY DEF TypeOK
    <2>1. ASSUME NEW s \in Sender, NEW z \in Size, NEW min \in {1, 2}, Append_(s, z, min) PROVE BatchesBelong'
      <3>1. batch' = batch /\ pc[s] = "idle"
            /\ (pc' = [pc EXCEPT ![s] = "asleep"] \/ pc' = [pc EXCEPT ![s] = "locked"])
        BY <2>1 DEF Append_
      <3> QED
        BY <2>0, <3>1
    <2>2. ASSUME NEW s \in Sender, Relock(s) PROVE BatchesBelong'
      BY <2>0, <2>2 DEF Relock
    <2>3. ASSUME NEW s \in Sender, Process(s) PROVE BatchesBelong'
      <3>1. PICK n \in 1..Len(buffer) : batch' = [batch EXCEPT ![s] = Prefix(n)]
        BY <2>3 DEF Process, TakeOut
      <3> QED
        BY <2>0, <2>3, <3>1 DEF Process
    <2>4. ASSUME NEW s \in Sender, ProcessNothing(s) PROVE BatchesBelong'
      BY <2>0, <2>4 DEF ProcessNothing
    <2>5. ASSUME NEW s \in Sender, Post(s) PROVE BatchesBelong'
      BY <2>0, <2>5 DEF Post
    <2>6. ASSUME NEW s \in Sender, Answer(s) PROVE BatchesBelong'
      <3>1. batch' = [batch EXCEPT ![s] = << >>]
            /\ pc' = [pc EXCEPT ![s] = IF left[s] = 0 THEN "idle" ELSE "asleep"]
        BY <2>6 DEF Answer
      <3> QED
        BY <2>0, <3>1
    <2>7. ASSUME NEW s \in Sender, Reject(s) PROVE BatchesBelong'
      BY <2>0, <2>7 DEF Reject
    <2>8. ASSUME NEW s \in Sender, Retry(s) PROVE BatchesBelong'
      BY <2>0, <2>8 DEF Retry
    <2>9. CASE WindowEnds
      BY <2>9 DEF WindowEnds
    <2>10. CASE UNCHANGED vars
      BY <2>10 DEF vars
    <2> QED
      BY <2>1, <2>2, <2>3, <2>4, <2>5, <2>6, <2>7, <2>8, <2>9, <2>10
         DEF Next, Progress, Finished
  <1> QED
    BY <1>1, <1>2, TypeCorrect, PTL DEF Spec

LEMMA PlacedHolds == Spec => []Placed
  <1>1. Init => Placed
    BY DEF Init, Placed, Nowhere, Not
  <1>2. TypeOK /\ BatchesBelong /\ Placed /\ [Next]_vars => Placed'
    <2> SUFFICES ASSUME TypeOK, BatchesBelong, Placed, [Next]_vars, NEW k \in Nat
                 PROVE  IF k \in 1..accepted' THEN Once(k)' ELSE Nowhere(k)'
      BY DEF Placed
    <2>0. /\ batch \in [Sender -> Seq(Message)] /\ accepted \in Nat
          /\ buffer \in Seq(Message) /\ finished \in Seq(Message)
          /\ IF k \in 1..accepted THEN Once(k) ELSE Nowhere(k)
      BY DEF TypeOK, Placed
    <2>1. ASSUME NEW s \in Sender, NEW z \in Size, Appended(s, z)
          PROVE  IF k \in 1..accepted' THEN Once(k)' ELSE Nowhere(k)'
      <3> DEFINE m == [no |-> accepted + 1, from |-> s, size |-> z]
      <3>1. m \in Message /\ m.no = accepted + 1 /\ buffer' = Append(buffer, m)
            /\ accepted' = accepted + 1 /\ batch' = batch /\ finished' = finished
        BY <2>0, <2>1 DEF Appended, Message
      <3> HIDE DEF m
      <3>2. /\ Not(buffer, k) /\ m.no # k => Not(buffer', k)
            /\ Not(buffer, k) /\ m.no = k => One(buffer', k)
            /\ One(buffer, k) /\ m.no # k => One(buffer', k)
        BY <2>0, <3>1, HoldsOnceAppend
      <3>3. CASE k = accepted + 1
        <4>1. Nowhere(k)
          BY <2>0, <3>3
        <4> QED
          BY <2>0, <3>1, <3>2, <3>3, <4>1 DEF Nowhere, Once
      <3>4. CASE k # accepted + 1
        <4>1. Once(k) => Once(k)'
          BY <3>1, <3>2, <3>4 DEF Once
        <4>2. Nowhere(k) => Nowhere(k)'
          BY <3>1, <3>2, <3>4 DEF Nowhere
        <4> QED
          BY <2>0, <3>1, <3>4, <4>1, <4>2
      <3> QED
        BY <3>3, <3>4
    <2>2. ASSUME NEW s \in Sender, TakenOut(s)
          PROVE  IF k \in 1..accepted' THEN Once(k)' ELSE Nowhere(k)'
      <3>1. PICK n \in 1..Len(buffer) : TakeOut(s, n)
        BY <2>2 DEF TakenOut
      <3>2. /\ buffer' = SubSeq(buffer, n + 1, Len(buffer))
            /\ batch'[s] = SubSeq(buffer, 1, n)
            /\ \A t \in Sender \ {s} : batch'[t] = batch[t]
            /\ finished' = finished /\ accepted' = accepted
        BY <2>0, <2>2, <3>1 DEF TakeOut, TakenOut, Prefix
      <3>3. batch[s] = << >>
        BY <2>2 DEF TakenOut, BatchesBelong
      <3>4. /\ Not(buffer, k) => Not(batch'[s], k) /\ Not(buffer', k)
            /\ One(buffer, k) => \/ One(batch'[s], k) /\ Not(buffer', k)
                                 \/ Not(batch'[s], k) /\ One(buffer', k)
        BY <2>0, <3>2, HoldsOnceSplit
      <3>5. ~One(batch[s], k)
        BY <3>3 DEF One
      <3>6. Once(k) => Once(k)'
        <4>1. CASE One(buffer, k) /\ Not(finished, k) /\ \A t \in Sender : Not(batch[t], k)
          <5>1. CASE One(batch'[s], k) /\ Not(buffer', k)
            BY <3>2, <4>1, <5>1 DEF Once
          <5>2. CASE Not(batch'[s], k) /\ One(buffer', k)
            BY <3>2, <4>1, <5>2 DEF Once
          <5> QED
            BY <3>4, <4>1, <5>1, <5>2
        <4>2. CASE Not(buffer, k) /\ One(finished, k) /\ \A t \in Sender : Not(batch[t], k)
          BY <3>2, <3>4, <4>2 DEF Once
        <4>3. ASSUME Not(buffer, k), Not(finished, k), NEW u \in Sender, One(batch[u], k),
                     \A t \in Sender \ {u} : Not(batch[t], k)
              PROVE  Once(k)'
          BY <3>2, <3>4, <3>5, <4>3 DEF Once
        <4> QED
          BY <4>1, <4>2, <4>3 DEF Once
      <3>7. Nowhere(k) => Nowhere(k)'
        BY <3>2, <3>4 DEF Nowhere
      <3> QED
        BY <2>0, <3>2, <3>6, <3>7
    <2>3. ASSUME NEW s \in Sender, Answered(s)
          PROVE  IF k \in 1..accepted' THEN Once(k)' ELSE Nowhere(k)'
      <3>1. /\ finished' = finished \o batch[s] /\ buffer' = buffer /\ accepted' = accepted
            /\ batch'[s] = << >> /\ \A t \in Sender \ {s} : batch'[t] = batch[t]
        BY <2>0, <2>3 DEF Answered
      <3>2. /\ Not(finished, k) /\ Not(batch[s], k) => Not(finished', k)
            /\ One(finished, k) /\ Not(batch[s], k) => One(finished', k)
            /\ Not(finished, k) /\ One(batch[s], k) => One(finished', k)
        BY <2>0, <3>1, HoldsOnceConcat
      <3>3. Not(batch'[s], k)
        BY <3>1 DEF Not
      <3>4. Once(k) => Once(k)'
        <4>1. CASE One(buffer, k) /\ Not(finished, k) /\ \A t \in Sender : Not(batch[t], k)
          BY <3>1, <3>2, <3>3, <4>1 DEF Once
        <4>2. CASE Not(buffer, k) /\ One(finished, k) /\ \A t \in Sender : Not(batch[t], k)
          BY <3>1, <3>2, <3>3, <4>2 DEF Once
        <4>3. ASSUME Not(buffer, k), Not(finished, k), NEW u \in Sender, One(batch[u], k),
                     \A t \in Sender \ {u} : Not(batch[t], k)
              PROVE  Once(k)'
          <5>1. CASE u = s
            BY <3>1, <3>2, <3>3, <4>3, <5>1 DEF Once
          <5>2. CASE u # s
            BY <3>1, <3>2, <3>3, <4>3, <5>2 DEF Once
          <5> QED
            BY <5>1, <5>2
        <4> QED
          BY <4>1, <4>2, <4>3 DEF Once
      <3>5. Nowhere(k) => Nowhere(k)'
        BY <3>1, <3>2, <3>3 DEF Nowhere
      <3> QED
        BY <2>0, <3>1, <3>4, <3>5
    <2>4. ASSUME Unmoved PROVE IF k \in 1..accepted' THEN Once(k)' ELSE Nowhere(k)'
      BY <2>0, <2>4 DEF Unmoved, Once, Nowhere
    <2> QED
      BY <2>1, <2>2, <2>3, <2>4, Moves
  <1> QED
    BY <1>1, <1>2, TypeCorrect, BatchesStay, PTL DEF Spec

(* The bookkeeping of the buffer is sound through every number of retries: the
   count is exact, no joined request reaches Limit and every accepted message is
   in exactly one place (sbRequestBuffer, RequestPostWithBuffer).              *)
THEOREM BufferAlwaysSound == Spec => []BufferSound
  BY CountStaysExact, RequestsFit, TypeCorrect, PlacedHolds, PlacedGivesExactlyOnce, PTL DEF BufferSound
=============================================================================
