---------------------------- MODULE MessageBuffer ----------------------------
(***************************************************************************)
(* Posting to one Discord channel (GuildInfo.go RequestPostWithBuffer,      *)
(* RequestBuffer.go).  Every sender appends its message to a buffer that    *)
(* hangs off the channel's rate-limit bucket.  With little of the bucket    *)
(* left it lets go of the bucket and sleeps, so that others may append; it  *)
(* then drains the buffer in joined messages of less than Limit, with the   *)
(* bucket locked around each of them, whoever the messages belong to.       *)
(*                                                                          *)
(* The bucket, its lock and the request belong to the discordgo library.    *)
(* Time is abstract: window says that the bucket's reset is still ahead.    *)
(***************************************************************************)
EXTENDS Integers, Sequences, FiniteSets

CONSTANTS Sender,       (* goroutines that post to the channel              *)
          Size,         (* lengths of the messages SendMessage hands over   *)
          Limit,        (* Discord's limit on a message's length (2000)     *)
          Headroom,     (* what Discord may say remains in the bucket       *)
          MaxCalls,     (* bound: messages per sender                         *)
          MaxRetries,   (* bound: rejections of one request (429) that the
                           library answers by sending it again              *)
          Nobody        (* the lock is free                                 *)

(* SendMessage cuts a message into pieces shorter than Limit. *)
ASSUME SizeAssumption == /\ Limit \in Nat
                         /\ Size \subseteq 0..(Limit - 1)
                         /\ Headroom \subseteq Nat
ASSUME SenderAssumption == Nobody \notin Sender

VARIABLES
  pc,         (* where each sender stands                                   *)
  calls,      (* messages each sender has handed over                       *)
  lock,       (* holder of the bucket's mutex                               *)
  remaining,  (* bucket.Remaining: requests left in this window             *)
  window,     (* bucket.reset is in the future                              *)
  buffer,     (* sbRequestBuffer.buffer                                     *)
  count,      (* sbRequestBuffer.count                                      *)
  batch,      (* messages each sender took out with Process                 *)
  left,       (* what Process returned with them: messages still buffered   *)
  retries,    (* rejections of each sender's current request                *)
  accepted,   (* history: how many messages were handed over in all         *)
  finished    (* history: messages posted or failed, in that order          *)

bucketVars == <<lock, remaining, window>>
bufferVars == <<buffer, count>>
vars == <<pc, calls, bucketVars, bufferVars, batch, left, retries, accepted, finished>>

(* "idle": not in RequestPostWithBuffer; "asleep": in it, without the bucket;
   "locked": with the bucket, about to Process; "taken": holds a batch and waits
   for the bucket to allow a request; "posting": the request is under way;
   "rejected": it was rejected and the library has let go of the bucket.      *)
Holding == {"locked", "taken", "posting"}
Control == {"idle", "asleep", "rejected"} \cup Holding

Message == [no : Nat, from : Sender, size : Size]

SizeOf(q) ==
  LET total[n \in 0..Len(q)] == IF n = 0 THEN 0 ELSE total[n - 1] + q[n].size
  IN  total[Len(q)]

(* Ratelimiter.GetWaitTime(bucket, min) > 0. *)
MustWait(min) == remaining < min /\ window

Release == lock' = Nobody

Acquire(s) == lock = Nobody /\ lock' = s

Init ==
  /\ pc = [s \in Sender |-> "idle"]
  /\ calls = [s \in Sender |-> 0]
  /\ lock = Nobody
  /\ remaining \in Headroom
  /\ window \in BOOLEAN
  /\ buffer = << >>
  /\ count = 0
  /\ batch = [s \in Sender |-> << >>]
  /\ left = [s \in Sender |-> 0]
  /\ retries = [s \in Sender |-> 0]
  /\ accepted = 0
  /\ finished = << >>

(***************************************************************************)
(* sbRequestBuffer.Append, under the bucket's lock.  Its result is nonzero *)
(* when the buffer fills a whole request: then the sender does not sleep.  *)
(***************************************************************************)
Full(q, n) == n + Len(q) >= Limit - 1

(* SendMessage asks for min = 1 with the pieces of a long message and 2 with
   the last or only one. *)
Append_(s, z, min) ==
  /\ pc[s] = "idle"
  /\ calls[s] < MaxCalls
  /\ calls' = [calls EXCEPT ![s] = @ + 1]
  /\ lock = Nobody
  /\ buffer' = Append(buffer, [no |-> accepted + 1, from |-> s, size |-> z])
  /\ count' = count + z
  /\ accepted' = accepted + 1
  /\ IF ~Full(buffer', count') /\ MustWait(min)
       THEN /\ UNCHANGED lock
            /\ pc' = [pc EXCEPT ![s] = "asleep"]
       ELSE /\ Acquire(s)
            /\ pc' = [pc EXCEPT ![s] = "locked"]
  /\ UNCHANGED <<remaining, window, batch, left, retries, finished>>

(* The sleep is over: lock the bucket again. *)
Relock(s) ==
  /\ pc[s] = "asleep"
  /\ Acquire(s)
  /\ pc' = [pc EXCEPT ![s] = "locked"]
  /\ UNCHANGED <<calls, remaining, window, bufferVars, batch, left, retries, accepted, finished>>

(***************************************************************************)
(* sbRequestBuffer.Process: the first message and those that follow it as  *)
(* long as all of them, joined with newlines, stay below Limit.            *)
(***************************************************************************)
Prefix(n) == SubSeq(buffer, 1, n)

Fits(q) == SizeOf(q) + Len(q) - 1 < Limit

Longest(n) == /\ n = 1 \/ Fits(Prefix(n))
              /\ n < Len(buffer) => ~Fits(Prefix(n + 1))

(* Faulty variant: the remainder of the buffer starts one message late. *)
TakeOutSkippingOne(s, n) ==
  /\ Longest(n)
  /\ batch' = [batch EXCEPT ![s] = Prefix(n)]
  /\ buffer' = SubSeq(buffer, n + 2, Len(buffer))
  /\ count' = count - SizeOf(buffer) + SizeOf(buffer')
  /\ left' = [left EXCEPT ![s] = Len(buffer')]

TakeOut(s, n) ==
  /\ Longest(n)
  /\ batch' = [batch EXCEPT ![s] = Prefix(n)]
  /\ buffer' = SubSeq(buffer, n + 1, Len(buffer))
  /\ count' = IF Len(buffer) = 1 THEN 0 ELSE count - SizeOf(Prefix(n))
  /\ left' = [left EXCEPT ![s] = Len(buffer) - n]

Process(s) ==
  /\ pc[s] = "locked"
  /\ \E n \in 1..Len(buffer) : TakeOut(s, n)
  /\ pc' = [pc EXCEPT ![s] = "taken"]
  /\ UNCHANGED <<calls, bucketVars, retries, accepted, finished>>

(* Process found nothing: somebody else took this sender's message along. *)
ProcessNothing(s) ==
  /\ pc[s] = "locked"
  /\ buffer = << >>
  /\ Release
  /\ pc' = [pc EXCEPT ![s] = "idle"]
  /\ UNCHANGED <<calls, remaining, window, bufferVars, batch, left, retries, accepted, finished>>

(* The wait for the bucket, spent with its lock held, is over. *)
Post(s) ==
  /\ pc[s] = "taken"
  /\ ~MustWait(1)
  /\ remaining' = remaining - 1
  /\ pc' = [pc EXCEPT ![s] = "posting"]
  /\ UNCHANGED <<calls, lock, window, bufferVars, batch, left, retries, accepted, finished>>

(***************************************************************************)
(* RequestWithLockedBucket, the library's: the request succeeds or fails,  *)
(* and either way the bucket is released, with or without new headers.     *)
(* The loop goes on when Process had left messages behind, error or not.   *)
(***************************************************************************)
Headers == /\ remaining' \in Headroom
           /\ window' \in BOOLEAN

(* Faulty variant: the loop ends without looking at what Process left behind. *)
AnswerAndReturn(s) ==
  /\ pc[s] = "posting"
  /\ Headers \/ UNCHANGED <<remaining, window>>
  /\ Release
  /\ finished' = finished \o batch[s]
  /\ batch' = [batch EXCEPT ![s] = << >>]
  /\ left' = [left EXCEPT ![s] = 0]
  /\ retries' = [retries EXCEPT ![s] = 0]
  /\ pc' = [pc EXCEPT ![s] = "idle"]
  /\ UNCHANGED <<calls, bufferVars, accepted>>

Answer(s) ==
  /\ pc[s] = "posting"
  /\ Headers \/ UNCHANGED <<remaining, window>>
  /\ Release
  /\ finished' = finished \o batch[s]
  /\ batch' = [batch EXCEPT ![s] = << >>]
  /\ left' = [left EXCEPT ![s] = 0]
  /\ retries' = [retries EXCEPT ![s] = 0]
  /\ pc' = [pc EXCEPT ![s] = IF left[s] = 0 THEN "idle" ELSE "asleep"]
  /\ UNCHANGED <<calls, bufferVars, accepted>>

(* Faulty variant: a rejected request is given up, its messages with it. *)
RejectGivingUp(s) ==
  /\ pc[s] = "posting"
  /\ retries[s] < MaxRetries
  /\ retries' = [retries EXCEPT ![s] = @ + 1]
  /\ Headers
  /\ Release
  /\ batch' = [batch EXCEPT ![s] = << >>]
  /\ left' = [left EXCEPT ![s] = 0]
  /\ pc' = [pc EXCEPT ![s] = "asleep"]
  /\ UNCHANGED <<calls, bufferVars, accepted, finished>>

(* 429: the library releases the bucket, sleeps, locks it and posts again. *)
Reject(s) ==
  /\ pc[s] = "posting"
  /\ retries[s] < MaxRetries
  /\ retries' = [retries EXCEPT ![s] = @ + 1]
  /\ Headers
  /\ Release
  /\ pc' = [pc EXCEPT ![s] = "rejected"]
  /\ UNCHANGED <<calls, bufferVars, batch, left, accepted, finished>>

Retry(s) ==
  /\ pc[s] = "rejected"
  /\ Acquire(s)
  /\ pc' = [pc EXCEPT ![s] = "taken"]
  /\ UNCHANGED <<calls, remaining, window, bufferVars, batch, left, retries, accepted, finished>>

(* Time passes and the bucket's window ends. *)
WindowEnds ==
  /\ window
  /\ window' = FALSE
  /\ UNCHANGED <<pc, calls, lock, remaining, bufferVars, batch, left, retries, accepted, finished>>

(* Every sender has said all it had to say. *)
Finished ==
  /\ \A s \in Sender : pc[s] = "idle" /\ calls[s] = MaxCalls
  /\ UNCHANGED vars

Progress(s) == \/ Relock(s) \/ Process(s) \/ ProcessNothing(s)
               \/ Post(s) \/ Answer(s) \/ Reject(s) \/ Retry(s)

Next == \/ \E s \in Sender, z \in Size, min \in {1, 2} : Append_(s, z, min)
        \/ \E s \in Sender : Progress(s)
        \/ WindowEnds
        \/ Finished

Spec == Init /\ [][Next]_vars

(* A goroutine that can run runs; sync.Mutex hands the lock to a waiter that
   has starved for a millisecond, so that none waits for ever; sleeps and
   rate-limit windows end; Discord answers or the request times out.        *)
FairSpec == /\ Spec
            /\ WF_vars(WindowEnds)
            /\ \A s \in Sender :
                 /\ SF_vars(Relock(s)) /\ SF_vars(Retry(s))
                 /\ WF_vars(Process(s)) /\ WF_vars(ProcessNothing(s))
                 /\ WF_vars(Post(s)) /\ WF_vars(Answer(s) \/ Reject(s))

-----------------------------------------------------------------------------
(* The types of the bucket, the buffer and the senders: lock names at most one
   goroutine, what is buffered or taken out are whole messages, and what
   Process says is left is never negative.                                  *)
TypeOK ==
  /\ pc \in [Sender -> Control]
  /\ calls \in [Sender -> Nat]
  /\ lock \in Sender \cup {Nobody}
  /\ remaining \in Int
  /\ window \in BOOLEAN
  /\ buffer \in Seq(Message)
  /\ batch \in [Sender -> Seq(Message)]
  /\ left \in [Sender -> Nat]
  /\ retries \in [Sender -> Nat]
  /\ accepted \in Nat
  /\ finished \in Seq(Message)

-----------------------------------------------------------------------------
(* The bucket is held by exactly the sender whose step needs it. *)
LockHeld == \A s \in Sender : pc[s] \in Holding <=> lock = s

(***************************************************************************)
(* A sender whose message is still in the buffer is still inside            *)
(* RequestPostWithBuffer and will call Process again: whatever the other    *)
(* senders do, no message is left in the buffer with nobody to post it, and *)
(* the buffer never holds more messages than there are calls under way.     *)
(***************************************************************************)
WillProcess(s) == \/ pc[s] \in {"asleep", "locked"}
                  \/ pc[s] \in {"taken", "posting", "rejected"} /\ left[s] > 0

NeverStranded == \A i \in 1..Len(buffer) : WillProcess(buffer[i].from)

(***************************************************************************)
(* sbRequestBuffer.count, kept by Append and Process with additions and     *)
(* subtractions over the life of the buffer, is the sum of the lengths.     *)
(***************************************************************************)
CountExact == count = SizeOf(buffer)

(***************************************************************************)
(* What is posted is below Discord's limit, newlines between the joined     *)
(* messages included.                                                       *)
(***************************************************************************)
BatchFits ==
  \A s \in Sender : batch[s] # << >> => SizeOf(batch[s]) + (Len(batch[s]) - 1) < Limit

(* What is accepted and not finished, if only the holder of the bucket has a
   request under way. *)
Outstanding == (IF lock = Nobody THEN << >> ELSE batch[lock]) \o buffer

(***************************************************************************)
(* Messages finish in the order in which they were appended, none lost and  *)
(* none twice, whichever sender happens to post them.  It holds as long as  *)
(* the library sends no request a second time.                              *)
(***************************************************************************)
FifoOrder ==
  LET all == finished \o Outstanding
  IN  /\ Len(all) = accepted
      /\ \A i \in 1..Len(all) : all[i].no = i

(***************************************************************************)
(* With rejected requests too, every accepted message is in exactly one     *)
(* place: the buffer, one sender's batch, or finished.                      *)
(***************************************************************************)
Places(k) ==
  [b : {"buffer"}, i : {i \in 1..Len(buffer) : buffer[i].no = k}]
    \cup [b : {"finished"}, i : {i \in 1..Len(finished) : finished[i].no = k}]
    \cup UNION {[b : {s}, i : {i \in 1..Len(batch[s]) : batch[s][i].no = k}] : s \in Sender}

ExactlyOnce == \A k \in 1..accepted : Cardinality(Places(k)) = 1

(***************************************************************************)
(* When RequestPostWithBuffer returns, the message it was given has been    *)
(* posted or has failed, even if it was another sender that posted it: so   *)
(* the pieces of one long message stay in order.  It holds as long as no    *)
(* request is sent a second time: a rejected one is no longer in the buffer.*)
(***************************************************************************)
ReturnedMeansFinished ==
  \A s \in Sender, i \in 1..Len(Outstanding) :
    Outstanding[i].from = s => pc[s] # "idle"

(* The bookkeeping of the buffer through retries: what is counted, what is joined *)
(* and what is kept (sbRequestBuffer, RequestPostWithBuffer).                     *)
BufferSound == CountExact /\ BatchFits /\ ExactlyOnce

(***************************************************************************)
(* Every message handed over is posted or fails, whoever takes it along and *)
(* however often it is rejected, and every call returns.                    *)
(***************************************************************************)
EveryMessageFinishes ==
  \A s \in Sender : \A k \in 1..MaxCalls :
    calls[s] >= k ~> Len(SelectSeq(finished, LAMBDA m : m.from = s)) >= k

EveryCallReturns == \A s \in Sender : pc[s] # "idle" ~> pc[s] = "idle"

EveryCallCompletes == EveryMessageFinishes /\ EveryCallReturns

Channel == INSTANCE MessageChannel WITH waiting <- Outstanding

(* The buffer and the lock around it implement the channel. *)
ImplementsChannel == Channel!Spec
=============================================================================
