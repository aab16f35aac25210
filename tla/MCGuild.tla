------------------------------- MODULE MCGuild -------------------------------
(* Instances for TLC of the modules a server's members meet: SpamPressure,
   WordFilters, GuildStores and MemberRecords.  They work on different parts of the state; a
   behaviour explores one of them. *)
EXTENDS SpamPressure, WordFilters, GuildStores, MemberRecords

CONSTANTS p1, p2, e1, e2, f1, f2, c1, c2, g1, g2, h1, h2, n1, n2

(* SpamPressure: messages one after the other, some of them in a channel that counts
   double, or two at a time; one text weighs nothing. *)
TwoPosters == {p1, p2}
TextWeight == [t \in {"quiet", "loud"} |-> IF t = "loud" THEN 2 ELSE 0]
InOneChannel == [inTurn |-> TRUE, silenceTimeout |-> 2, scales |-> {1}, posts |-> 4, byHand |-> 1, time |-> 4, late |-> 1]
SpamRuns == {InOneChannel,
             [InOneChannel EXCEPT !.scales = {1, 2}, !.posts = 3, !.byHand = 0, !.time = 3, !.late = 0],
             [InOneChannel EXCEPT !.inTurn = FALSE, !.posts = 3, !.byHand = 0, !.time = 3, !.late = 0]}
DefaultScope == {[InOneChannel EXCEPT !.silenceTimeout = 0, !.posts = 3, !.byHand = 0, !.time = 3, !.late = 0]}

(* WordFilters and GuildStores. *)
TwoEditors == {e1, e2}
TwoFilters == {f1, f2}
TwoCallers == {c1, c2}
StoreGroups == {{"bucket"}, {"counters", "setup"}, {"quotes"}, {"roles"}}

(* MemberRecords. *)
TwoGuilds == {g1, g2}
TwoHands == {h1, h2}
TwoNames == {n1, n2}

Alike == UNION {Permutations(S) : S \in {TwoPosters, TwoCallers}}

-----------------------------------------------------------------------------
VARIABLE part

InSpam(A) == part = "spam" /\ A /\ UNCHANGED <<part, fvars, gvars, rvars>>
InFilters(A) == part = "filters" /\ A /\ UNCHANGED <<part, svars, gvars, rvars>>
InStores(A) == part = "stores" /\ A /\ UNCHANGED <<part, svars, fvars, rvars>>
InRecords(A) == part = "records" /\ A /\ UNCHANGED <<part, svars, fvars, gvars>>

(* The parts that are not explored stay in one of their initial states. *)
Init ==
  /\ part \in {"spam", "filters", "stores", "records"}
  /\ part = "spam" \/ allowed = CHOOSE s \in SpamScopes : TRUE
  /\ part = "filters" \/ together = TRUE
  /\ part = "stores" \/ stores = [about |-> {"quotes"}, inTurn |-> TRUE]
  /\ part = "records" \/ (account = [p \in Person |-> n1] /\ since = [place \in Place |-> NoDate])
  /\ SInit /\ FInit /\ GInit /\ MRInit

Next ==
  \/ \E h \in Poster :
       \/ InSpam(Filtered(h)) \/ InSpam(Known(h)) \/ InSpam(Track(h)) \/ InSpam(Stamp(h)) \/ InSpam(LoadPressure(h))
       \/ InSpam(StorePressure(h)) \/ InSpam(Counted(h)) \/ InSpam(Kill(h)) \/ InSpam(Mark(h)) \/ InSpam(Judge(h))
       \/ \E text \in Text, sent \in second - allowed.late .. second : InSpam(Post(h, text, sent))
  \/ InSpam(Leave) \/ InSpam(SilenceByHand) \/ InSpam(Lift) \/ InSpam(SecondPasses)
  \/ \E h \in Editor :
       \/ InFilters(ClearRegex(h)) \/ InFilters(Compile(h)) \/ InFilters(SaveFilters(h))
       \/ \E f \in Filter :
            \/ \E w \in Word : InFilters(AddFilter(h, f, w)) \/ InFilters(RemoveFilter(h, f, w))
            \/ \E silent \in BOOLEAN, rooms \in SUBSET Room : InFilters(SetFilter(h, f, silent, rooms))
            \/ \E t \in Template : InFilters(SetTemplate(h, f, t))
            \/ InFilters(DeleteFilter(h, f))
  \/ \E t \in Trigger : InFilters(AddWit(t)) \/ InFilters(RemoveWit(t))
  \/ InFilters(Reload)
  \/ \E c \in Caller :
       \/ InStores(Marshal(c)) \/ InStores(Open(c)) \/ InStores(Write(c)) \/ InStores(Created(c)) \/ InStores(Engage(c))
       \/ InStores(Fight(c)) \/ InStores(SetupFails(c))
       \/ \E i \in Item : InStores(Give(c, i)) \/ InStores(Drop(c, i))
       \/ \E n \in Name : \/ InStores(AddCounter(c, n)) \/ InStores(RemoveCounter(c, n)) \/ InStores(Increment(c, n))
                          \/ InStores(Decrement(c, n)) \/ InStores(AddStatus(c, n)) \/ InStores(RemoveStatus(c, n))
       \/ \E u \in User : \/ \E text \in Item : InStores(AddQuote(c, u, text))
                          \/ \E number \in 0..MaxQuotes + 1 : InStores(RemoveQuote(c, u, number))
       \/ \E r \in Role : \/ InStores(CreateRole(c, r)) \/ InStores(AddRole(c, r)) \/ InStores(RemoveRole(c, r))
                          \/ InStores(DeleteRole(c, r)) \/ InStores(LeaveRole(c, r)) \/ InStores(RoleDeleted(c, r))
                          \/ InStores(Setup(c, r)) \/ InStores(SetModRole(c, r))
       \/ \E rs \in SUBSET Role \ {{}} : InStores(JoinRole(c, rs))
  \/ \E r \in Role : InStores(DeletedByHand(r))
  \/ InStores(Reread)
  \/ \E h \in Hand, g \in Guild :
       \/ InRecords(BanNewcomers(h, g)) \/ InRecords(BanRaid(h, g))
       \/ \E p \in Person : InRecords(GuildMemberAdd(h, p, g)) \/ InRecords(MemberLeaves(h, p, g))
  \/ \E p \in Person :
       \/ \E n \in Username : InRecords(UserUpdate(p, n))
       \/ \E g \in Guild : \/ \E logged \in BOOLEAN : InRecords(MessageSent(p, g, logged))
                           \/ \E date \in {NoDate, since[p, g]} : InRecords(MemberUpdate(p, g, date))
  \/ InRecords(ReceiveTask)
  \/ \E h \in Hand \cup {Deferred} :
       \/ InRecords(ReadName(h)) \/ InRecords(AddUser(h)) \/ InRecords(AddMember(h)) \/ InRecords(RemoveMember(h))
       \/ InRecords(AddMessage(h)) \/ InRecords(SentMessage(h)) \/ InRecords(SawUser(h))
  \/ \E kept \in SUBSET chatlog : InRecords(CleanAliases(kept))
  \/ InRecords(NextDay)

allvars == <<part, svars, fvars, gvars, rvars>>

Spec == Init /\ [][Next]_allvars

(* The messages by themselves, for the property the code does not have. *)
SpamOnly == part = "spam" /\ Init /\ [][Next]_allvars
==============================================================================
