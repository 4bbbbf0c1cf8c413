---------------------------- MODULE InboxProofs ----------------------------
(***************************************************************************)
(* Proofs about the inbox, for every set of panes, agents and ids and      *)
(* every value of the limits.  The argument goes from one message to the   *)
(* box that holds it: what each operation makes of a message keeps the     *)
(* message good, what it makes of a box keeps the box good, so every       *)
(* action keeps the inbox good.  The last part relates what the box        *)
(* remembers of the posts to the log of all of them.                       *)
(***************************************************************************)
EXTENDS InboxLog, TLAPS, WellFoundedInduction, SequenceTheorems,
        FiniteSetTheorems

\* What the invariants ask of one message.
Good(m) == m \in Messages /\ HolderOK(m) /\ HandOversOK(m)

\* What one operation may make of message m: the same message, for the same
\* recipient unless it is an offer, as HoldersExcluded and EndedStays ask.
Follows(m, n) ==
  /\ n.id = m.id
  /\ n.kind = m.kind
  /\ ~IsOffer(m) => n.recipient = m.recipient
  /\ m.excluded \subseteq n.excluded
  /\ m.recipient \notin {NoRecipient, n.recipient} =>
       /\ m.recipient \in n.excluded
       /\ n.recipient = NoRecipient
  /\ Terminal(m) /\ n.state # m.state =>
       /\ ~IsOffer(m)
       /\ m.state = Undeliverable("MaxDeliver")
       /\ n.state = Acknowledged

\* The same, of a message that keeps its recipient or goes back to its pool.
Continues(m, n) == Follows(m, n) /\ n.recipient \in {m.recipient, NoRecipient}

-----------------------------------------------------------------------------
(* Messages.                                                               *)

USE DEF IsOffer, Terminal, State, Queued, Fetched, Acknowledged

\* The states the operations build are states.
LEMMA StateTypes ==
  /\ Queued \in States /\ Fetched \in States /\ Acknowledged \in States
  /\ \A reason \in Reasons : Undeliverable(reason) \in States
  /\ \A by \in Recipients \cup {NoRecipient}, t \in Nat : Claimed(by, t) \in States
BY DEF States, Names, Times, Reasons, Undeliverable, Claimed

\* A bound recipient is a recipient, and a real one.
LEMMA BoundType ==
  \A a \in Agents : Bound(a) \in Recipients /\ Bound(a) # NoRecipient
BY InboxConstants DEF Bound, Recipients

LEMMA RealRecipient == NoRecipient \notin Recipients
BY InboxConstants DEF Recipients

\* Moving a message to a state leaves a message.
LEMMA MovedType ==
  ASSUME NEW m \in Messages, NEW s \in States, now \in Nat
  PROVE  Moved(m, s) \in Messages
BY DEF Moved, Messages, Times

\* A new direct message or copy is good.
LEMMA NewGood ==
  ASSUME NEW id \in Ids, NEW kind \in {"Direct", "Publish"}, now \in Nat,
         NEW to \in Recipients, NEW bytes \in Nat
  PROVE  Good(NewMessage(id, kind, "None", to, bytes, 0))
<1> DEFINE m == NewMessage(id, kind, "None", to, bytes, 0)
<1>1. m \in Messages
  BY StateTypes DEF NewMessage, Messages, Times
<1>2. HolderOK(m)
  BY RealRecipient DEF NewMessage, HolderOK
<1>3. HandOversOK(m)
  BY DEF NewMessage, HandOversOK
<1> QED BY <1>1, <1>2, <1>3 DEF Good

\* A new offer is good.
LEMMA NewOfferGood ==
  ASSUME NEW id \in Ids, NEW scope \in Scopes, now \in Nat,
         NEW bytes \in Nat, NEW ttl \in Nat
  PROVE  Good(NewMessage(id, "Offer", scope, NoRecipient, bytes, ttl))
<1> DEFINE m == NewMessage(id, "Offer", scope, NoRecipient, bytes, ttl)
<1>1. m \in Messages
  BY StateTypes DEF NewMessage, Messages, Times
<1>2. HolderOK(m)
  BY DEF NewMessage, HolderOK
<1>3. HandOversOK(m)
  BY InboxLimits DEF NewMessage, HandOversOK
<1> QED BY <1>1, <1>2, <1>3 DEF Good

\* An offer still open that leaves its holder.
LEMMA ReturnedGood ==
  ASSUME NEW m, Good(m), IsOffer(m), ~Terminal(m), now \in Nat
  PROVE  Good(Returned(m)) /\ Continues(m, Returned(m))
<1>1. Returned(m) \in Messages
  <2> DEFINE excluded == IF m.recipient = NoRecipient THEN m.excluded
                         ELSE m.excluded \cup {m.recipient}
             back == [m EXCEPT !.assign_deadline = NoTime, !.recipient = NoRecipient,
                               !.excluded = excluded]
             s == IF m.deliveries >= MaxDeliver THEN Undeliverable("MaxDeliver") ELSE Queued
  <2>1. m \in Messages /\ NoTime \in Times /\ s \in States
    BY StateTypes DEF Good, Times, Reasons
  <2>2. excluded \in SUBSET Recipients
    BY <2>1 DEF Messages
  <2>3. Returned(m) = Moved(back, s)
    BY DEF Returned
  <2> HIDE DEF excluded, s
  <2>4. back \in Messages
    BY <2>1, <2>2 DEF Messages
  <2> HIDE DEF back
  <2>5. Moved(back, s) \in Messages
    BY <2>1, <2>4 DEF Moved, Messages
  <2>6. QED
    BY <2>3, <2>5
<1>2. HolderOK(Returned(m))
  BY DEF Good, Returned, Moved, Messages, HolderOK, Undeliverable
<1>3. HandOversOK(Returned(m))
  BY InboxLimits DEF Good, Returned, Moved, Messages, HandOversOK, Undeliverable
<1>4. Continues(m, Returned(m))
  BY DEF Good, Returned, Moved, Messages, Continues, Follows
<1> QED BY <1>1, <1>2, <1>3, <1>4 DEF Good

\* A message that ends, whatever for.
LEMMA EndedGood ==
  ASSUME NEW m, Good(m), ~Terminal(m), now \in Nat,
         NEW s \in {Acknowledged} \cup {Undeliverable(r) : r \in Reasons}
  PROVE  Good(Moved(m, s)) /\ Continues(m, Moved(m, s))
<1>1. s \in States /\ s.name \in {"Acknowledged", "Undeliverable"}
  BY StateTypes DEF Undeliverable
<1>2. Moved(m, s) \in Messages
  BY <1>1 DEF Good, Moved, Messages, Times
<1>3. HolderOK(Moved(m, s))
  BY <1>1 DEF Good, Moved, Messages, HolderOK
<1>4. HandOversOK(Moved(m, s))
  BY <1>1 DEF Good, Moved, Messages, HandOversOK
<1>5. Continues(m, Moved(m, s))
  BY DEF Good, Moved, Messages, Continues, Follows
<1> QED BY <1>2, <1>3, <1>4, <1>5 DEF Good

\* The ack of a direct message or copy that ran out of hand-overs.
LEMMA LateAckGood ==
  ASSUME NEW m, Good(m), ~IsOffer(m), m.state = Undeliverable("MaxDeliver"),
         now \in Nat
  PROVE  Good(Moved(m, Acknowledged)) /\ Continues(m, Moved(m, Acknowledged))
<1>1. Moved(m, Acknowledged) \in Messages
  BY StateTypes DEF Good, Moved, Messages, Times
<1>2. HolderOK(Moved(m, Acknowledged)) /\ HandOversOK(Moved(m, Acknowledged))
  BY DEF Good, Moved, Messages, HolderOK, HandOversOK
<1>3. Continues(m, Moved(m, Acknowledged))
  BY DEF Good, Moved, Messages, Continues, Follows
<1> QED BY <1>1, <1>2, <1>3 DEF Good

\* An offer its holder claims.
LEMMA ClaimedGood ==
  ASSUME NEW m, Good(m), IsOffer(m), ~Terminal(m),
         m.recipient # NoRecipient, now \in Nat
  PROVE  LET n == Moved(m, Claimed(m.recipient, now + m.claim_ttl))
         IN  Good(n) /\ Continues(m, n)
<1> DEFINE s == Claimed(m.recipient, now + m.claim_ttl)
           n == Moved(m, s)
<1>1. now + m.claim_ttl \in Nat /\ m.recipient \in Recipients \cup {NoRecipient}
  BY DEF Good, Messages
<1>2. s \in States /\ s.name = "Claimed" /\ s.by = m.recipient /\ s.expires \in Nat
  BY <1>1, StateTypes DEF Claimed
<1> HIDE DEF s
<1>3. n \in Messages
  BY <1>2 DEF Good, Moved, Messages, Times
<1>4. HolderOK(n)
  BY <1>2 DEF Good, Moved, Messages, HolderOK
<1>5. HandOversOK(n)
  BY <1>2 DEF Good, Moved, Messages, HandOversOK
<1>6. Continues(m, n)
  BY DEF Good, Moved, Messages, Continues, Follows
<1> QED BY <1>3, <1>4, <1>5, <1>6 DEF Good, s

\* A pooled offer handed to an agent that has not held it.
LEMMA AssignedGood ==
  ASSUME NEW m, Good(m), IsOffer(m), m.recipient = NoRecipient,
         m.state = Queued, NEW a \in Agents,
         \A e \in m.excluded : ~SameHolder(e, Bound(a)), now \in Nat
  PROVE  Good(Assigned(m, a)) /\ Follows(m, Assigned(m, a))
<1>1. now + OfferAssignWait \in Nat
  BY InboxLimits
<1>2. Assigned(m, a) \in Messages
  <2> DEFINE r == [m EXCEPT !.recipient = Bound(a), !.deliveries = @ + 1,
                            !.assign_deadline = now + OfferAssignWait]
  <2>1. m \in Messages /\ m.deliveries + 1 \in Nat
    BY DEF Good, Messages
  <2>2. Bound(a) \in Recipients \cup {NoRecipient}
    BY BoundType
  <2>3. now + OfferAssignWait \in Times
    BY <1>1 DEF Times
  <2>4. r \in Messages
    BY <2>1, <2>2, <2>3 DEF Messages
  <2> QED BY <2>4, StateTypes, MovedType DEF Assigned
<1>3. HolderOK(Assigned(m, a))
  BY <1>1, BoundType, InboxConstants DEF Good, Assigned, Moved, Messages, HolderOK
<1>4. HandOversOK(Assigned(m, a))
  BY InboxLimits, BoundType DEF Good, Assigned, Moved, Messages, HandOversOK
<1>5. Follows(m, Assigned(m, a))
  BY DEF Good, Assigned, Moved, Messages, Follows
<1> QED BY <1>2, <1>3, <1>4, <1>5 DEF Good

\* A queued message handed to a receiver.
LEMMA FetchedGood ==
  ASSUME NEW m, Good(m), m.state = Queued, m.recipient # NoRecipient, now \in Nat
  PROVE  LET n == Moved(HandedOut(m), Fetched)
         IN  Good(n) /\ Continues(m, n)
<1> DEFINE n == Moved(HandedOut(m), Fetched)
<1>1. n \in Messages
  <2>1. HandedOut(m) \in Messages
    BY DEF Good, HandedOut, Messages
  <2> QED BY <2>1, StateTypes, MovedType
<1>2. HolderOK(n)
  BY DEF Good, HandedOut, Moved, Messages, HolderOK
<1>3. HandOversOK(n)
  BY DEF Good, HandedOut, Moved, Messages, HandOversOK
<1>4. Continues(m, n)
  BY DEF Good, HandedOut, Moved, Messages, Continues, Follows
<1> QED BY <1>1, <1>2, <1>3, <1>4 DEF Good

\* One more hand-out of a direct message or copy.
LEMMA HandedOutGood ==
  ASSUME NEW m, Good(m), ~IsOffer(m)
  PROVE  Good(HandedOut(m)) /\ Continues(m, HandedOut(m))
BY DEF Good, HandedOut, Messages, HolderOK, HandOversOK, Continues, Follows

\* A fetched direct message or copy queued again.
LEMMA RequeuedGood ==
  ASSUME NEW m, Good(m), ~IsOffer(m), m.state = Fetched, now \in Nat
  PROVE  Good(Moved(m, Queued)) /\ Continues(m, Moved(m, Queued))
<1>1. Moved(m, Queued) \in Messages
  BY StateTypes DEF Good, Moved, Messages, Times
<1>2. HolderOK(Moved(m, Queued)) /\ HandOversOK(Moved(m, Queued))
  BY DEF Good, Moved, Messages, HolderOK, HandOversOK
<1>3. Continues(m, Moved(m, Queued))
  BY DEF Good, Moved, Messages, Continues, Follows
<1> QED BY <1>1, <1>2, <1>3 DEF Good

\* A message whose body aged out.
LEMMA AgedGood ==
  ASSUME NEW m, Good(m)
  PROVE  /\ Good(AgedBody(m))
         /\ \A l : Follows(l, m) => Follows(l, AgedBody(m))
BY DEF Good, AgedBody, Messages, HolderOK, HandOversOK, Follows

\* A message left alone.
LEMMA SameFollows == \A m : Follows(m, m)
BY DEF Follows

-----------------------------------------------------------------------------
(* Boxes.                                                                  *)

\* A box whose messages are all good, after n insertions.
GoodBox(box, n) ==
  IsBox(box, n) /\ \A k \in Held(box) : Good(box.messages[k])

\* Every message of c that b has too follows what it is in b.
FollowsBox(b, c) ==
  \A k \in Held(b) \cap Held(c) : Follows(b.messages[k], c.messages[k])

\* The least of a set of naturals is one of them, and least.
LEMMA MinNat ==
  ASSUME NEW S, S \subseteq Nat, S # {}
  PROVE  Min(S) \in S /\ \A y \in S : Min(S) <= y
<1>1. PICK x \in S : \A y \in S : <<y, x>> \notin OpToRel(<, Nat)
  BY NatLessThanWellFounded, WFMin
<1>2. ASSUME NEW y \in S PROVE x <= y
  <2>1. x \in Nat /\ y \in Nat
    OBVIOUS
  <2>2. <<y, x>> \notin {p \in Nat \X Nat : p[1] < p[2]}
    BY <1>1 DEF OpToRel
  <2>3. ~(y < x)
    BY <2>1, <2>2
  <2> QED BY <2>1, <2>3
<1> QED BY <1>2 DEF Min

\* What is left of a sequence from some place on.
LEMMA SuffixType ==
  ASSUME NEW S, NEW s \in Seq(S), NEW i \in Nat, i >= 1
  PROVE  SubSeq(s, i, Len(s)) \in Seq(S)
<1>1. Len(s) \in Nat /\ \A j \in 1..Len(s) : s[j] \in S
  OBVIOUS
<1>2. \A j \in i..Len(s) : s[j] \in S
  BY <1>1
<1> QED BY <1>1, <1>2, SubSeqProperties

\* Forgetting old ids.
LEMMA ExpireDedupGood ==
  ASSUME NEW box, NEW n \in Nat, GoodBox(box, n), now \in Nat
  PROVE  /\ GoodBox(ExpireDedup(box), n)
         /\ ExpireDedup(box).messages = box.messages
         /\ DOMAIN ExpireDedup(box).dedup_state \subseteq DOMAIN box.dedup_state
         /\ ExpireDedup(box).events = box.events
<1> DEFINE young == {i \in DOMAIN box.dedup : now - box.dedup[i].at < DedupWindow}
           first == IF young = {} THEN Len(box.dedup) + 1 ELSE Min(young)
           gone == {box.dedup[i].id : i \in 1..(first - 1)}
           dd == SubSeq(box.dedup, first, Len(box.dedup))
           ds == [i \in DOMAIN box.dedup_state \ gone |-> box.dedup_state[i]]
           b == [box EXCEPT !.dedup = dd, !.dedup_state = ds]
<1>1. box.dedup \in Seq([at : Nat, id : Ids]) /\ Len(box.dedup) \in Nat
      /\ DOMAIN box.dedup = 1..Len(box.dedup)
  BY DEF GoodBox, IsBox
<1>2. first \in Nat /\ first >= 1
  <2>1. CASE young = {}
    BY <1>1, <2>1
  <2>2. CASE young # {}
    <3>1. young \subseteq Nat
      BY <1>1
    <3>2. Min(young) \in young
      BY <2>2, <3>1, MinNat
    <3> HIDE DEF young
    <3>3. first = Min(young)
      BY <2>2
    <3> QED BY <1>1, <3>2, <3>3 DEF young
  <2> QED BY <2>1, <2>2
<1> HIDE DEF first
<1>3. dd \in Seq([at : Nat, id : Ids])
  BY <1>1, <1>2, SuffixType
<1>4. DOMAIN ds \subseteq DOMAIN box.dedup_state
  OBVIOUS
<1>5. ds \in [DOMAIN ds -> Names] /\ DOMAIN ds \subseteq Ids
  BY DEF GoodBox, IsBox
<1> HIDE DEF dd, ds
<1>6. IsBox(b, n)
  BY <1>3, <1>5 DEF GoodBox, IsBox
<1>7. b.messages = box.messages /\ b.dedup_state = ds /\ b.events = box.events
  BY DEF GoodBox, IsBox
<1>8. b = ExpireDedup(box)
  BY DEF ExpireDedup, dd, ds, first
<1> HIDE DEF b
<1> QED BY <1>4, <1>6, <1>7, <1>8 DEF GoodBox, Held

\* Remembering an accepted id.
LEMMA RegisterIdGood ==
  ASSUME NEW box, NEW n \in Nat, GoodBox(box, n), now \in Nat, NEW id \in Ids
  PROVE  /\ GoodBox(RegisterId(box, id), n)
         /\ RegisterId(box, id).messages = box.messages
         /\ RegisterId(box, id).events = box.events
<1> DEFINE S == [at : Nat, id : Ids]
           longer == Append(box.dedup, [at |-> now, id |-> id])
           over == IF Len(longer) > DedupMaxIds THEN Len(longer) - DedupMaxIds ELSE 0
           gone == {longer[i].id : i \in 1..over}
           dd == SubSeq(longer, over + 1, Len(longer))
           ds == [i \in (DOMAIN box.dedup_state \cup {id}) \ gone |->
                    IF i = id THEN "Queued" ELSE box.dedup_state[i]]
           b == [box EXCEPT !.dedup = dd, !.dedup_state = ds]
<1>1. box.dedup \in Seq(S) /\ [at |-> now, id |-> id] \in S
  BY DEF GoodBox, IsBox
<1>2. longer \in Seq(S)
  BY <1>1, AppendProperties
<1> HIDE DEF longer, S
<1>3. over \in Nat
  <2>1. Len(longer) \in Nat /\ DedupMaxIds \in Nat
    BY <1>2, InboxLimits
  <2> QED BY <2>1
<1> HIDE DEF over
<1>4. dd \in Seq(S)
  BY <1>2, <1>3, SuffixType
<1>5. ds \in [DOMAIN ds -> Names] /\ DOMAIN ds \subseteq Ids
  BY DEF GoodBox, IsBox, Names
<1> HIDE DEF dd, ds
<1>6. IsBox(b, n)
  BY <1>4, <1>5 DEF GoodBox, IsBox, S
<1>7. b.messages = box.messages /\ b.events = box.events
  BY DEF GoodBox, IsBox
<1>8. b = RegisterId(box, id)
  BY DEF RegisterId, dd, ds, over, longer
<1> HIDE DEF b
<1> QED BY <1>6, <1>7, <1>8 DEF GoodBox, Held

\* Counting a post against its sender's quota.
LEMMA RecordRateGood ==
  ASSUME NEW box, NEW n \in Nat, GoodBox(box, n), now \in Nat, NEW from \in Agents
  PROVE  /\ GoodBox(RecordRate(box, from), n)
         /\ RecordRate(box, from).messages = box.messages
         /\ RecordRate(box, from).events = box.events
<1> DEFINE rt == [box.rate EXCEPT ![from] = Append(@, now)]
           b == [box EXCEPT !.rate = rt]
<1>1. box.rate \in [Agents -> Seq(Nat)]
  BY DEF GoodBox, IsBox
<1>2. rt \in [Agents -> Seq(Nat)]
  <2>1. Append(box.rate[from], now) \in Seq(Nat)
    BY <1>1, AppendProperties
  <2> QED BY <1>1, <2>1
<1>3. b = RecordRate(box, from)
  BY DEF RecordRate
<1> HIDE DEF rt
<1>4. IsBox(b, n) /\ b.messages = box.messages /\ b.events = box.events
  BY <1>2 DEF GoodBox, IsBox
<1> HIDE DEF b
<1> QED BY <1>3, <1>4 DEF GoodBox, Held

\* Forgetting the posts outside the rate window.
LEMMA PruneRateGood ==
  ASSUME NEW box, NEW n \in Nat, GoodBox(box, n), now \in Nat
  PROVE  /\ GoodBox(PruneRate(box), n)
         /\ PruneRate(box).messages = box.messages
         /\ PruneRate(box).events = box.events
<1> DEFINE young(a) == {i \in DOMAIN box.rate[a] : now - box.rate[a][i] < RateWindow}
           left(a) == IF young(a) = {} THEN <<>>
                      ELSE SubSeq(box.rate[a], Min(young(a)), Len(box.rate[a]))
           rt == [a \in Agents |-> left(a)]
           b == [box EXCEPT !.rate = rt]
<1>1. ASSUME NEW a \in Agents PROVE left(a) \in Seq(Nat)
  <2>1. box.rate[a] \in Seq(Nat)
    BY DEF GoodBox, IsBox
  <2>2. young(a) \subseteq Nat /\ \A i \in young(a) : i >= 1
    BY <2>1
  <2> HIDE DEF young
  <2>3. CASE young(a) = {}
    BY <2>3
  <2>4. CASE young(a) # {}
    <3>1. Min(young(a)) \in young(a)
      BY <2>2, <2>4, MinNat
    <3> QED BY <2>1, <2>2, <2>4, <3>1, SuffixType
  <2> QED BY <2>3, <2>4
<1>2. b = PruneRate(box)
  BY DEF PruneRate
<1> HIDE DEF left
<1>3. rt \in [Agents -> Seq(Nat)]
  BY <1>1
<1> HIDE DEF rt
<1>4. IsBox(b, n) /\ b.messages = box.messages /\ b.events = box.events
  BY <1>3 DEF GoodBox, IsBox
<1> HIDE DEF b
<1> QED BY <1>2, <1>4 DEF GoodBox, Held

\* Reservations only count.
LEMMA ReservedGood ==
  ASSUME NEW box, NEW n \in Nat, GoodBox(box, n), NEW r \in Nat
  PROVE  LET b == [box EXCEPT !.reserved_replies = r]
         IN  GoodBox(b, n) /\ b.messages = box.messages /\ b.events = box.events
BY DEF GoodBox, IsBox, Held

\* Draining the events leaves the messages.
LEMMA DrainedGood ==
  ASSUME NEW n \in Nat, GoodBox(inbox, n)
  PROVE  /\ GoodBox(Drained, n)
         /\ Drained.messages = inbox.messages
         /\ Drained.events = {}
BY DEF GoodBox, IsBox, Held, Drained

\* What the hub is told of a message is an event.
LEMMA EventType ==
  ASSUME NEW m, Good(m)
  PROVE  Event(m) \in Events
BY DEF Good, Messages, Event, Events

\* Changing some entries of a box.
LEMMA TransitionGood ==
  ASSUME NEW box, NEW n \in Nat, GoodBox(box, n), NEW changed,
         DOMAIN changed \subseteq Held(box),
         \A k \in DOMAIN changed : Good(changed[k])
  PROVE  LET b == Transition(box, changed)
         IN  /\ GoodBox(b, n)
             /\ Held(b) = Held(box)
             /\ \A k \in Held(box) :
                  b.messages[k] = IF k \in DOMAIN changed THEN changed[k]
                                  ELSE box.messages[k]
             /\ b.events = box.events \cup {Event(changed[k]) : k \in DOMAIN changed}
<1> DEFINE of(i) == {k \in DOMAIN changed : changed[k].id = i}
           ms == [k \in DOMAIN box.messages |->
                    IF k \in DOMAIN changed THEN changed[k] ELSE box.messages[k]]
           name(i) == IF of(i) = {} THEN box.dedup_state[i]
                      ELSE changed[Min(of(i))].state.name
           ds == [i \in DOMAIN box.dedup_state |-> name(i)]
           ev == box.events \cup {Event(changed[k]) : k \in DOMAIN changed}
           b == [box EXCEPT !.messages = ms, !.dedup_state = ds, !.events = ev]
<1>1. DOMAIN ms = Held(box) /\ \A k \in Held(box) : Good(ms[k])
  BY DEF GoodBox, Held
<1>2. ms \in [DOMAIN ms -> Messages]
  BY <1>1 DEF Good, Held
<1>3. ASSUME NEW i \in DOMAIN box.dedup_state PROVE name(i) \in Names
  <2>1. CASE of(i) = {}
    BY <2>1 DEF GoodBox, IsBox
  <2>2. CASE of(i) # {}
    <3>1. of(i) \subseteq DOMAIN changed /\ of(i) \subseteq Nat
      BY DEF GoodBox, IsBox, Held
    <3> HIDE DEF of
    <3>2. Min(of(i)) \in DOMAIN changed
      BY <2>2, <3>1, MinNat
    <3>3. changed[Min(of(i))].state.name \in Names
      BY <3>2 DEF Good, Messages, States
    <3> QED BY <2>2, <3>3
  <2> QED BY <2>1, <2>2
<1> HIDE DEF name
<1>4. ds \in [DOMAIN ds -> Names] /\ DOMAIN ds \subseteq Ids
  BY <1>3 DEF GoodBox, IsBox
<1>5. ev \in SUBSET Events
  BY EventType DEF GoodBox, IsBox
<1>6. b = Transition(box, changed)
  BY DEF Transition, name
<1>7. \A k \in Held(box) : ms[k] = IF k \in DOMAIN changed THEN changed[k]
                                   ELSE box.messages[k]
  BY DEF Held
<1> HIDE DEF ms, ds, ev
<1>8. IsBox(b, n) /\ b.messages = ms /\ b.events = ev
  BY <1>1, <1>2, <1>4, <1>5 DEF GoodBox, IsBox, Held
<1> HIDE DEF b
<1>9. Held(b) = Held(box)
  BY <1>1, <1>8 DEF Held
<1> QED BY <1>1, <1>6, <1>7, <1>8, <1>9 DEF GoodBox, ev

\* Adding new entries to a box.
LEMMA InsertGood ==
  ASSUME NEW box, NEW n \in Nat, GoodBox(box, n), NEW new, NEW n2 \in Nat, n <= n2,
         DOMAIN new \subseteq (n + 1)..n2, \A k \in DOMAIN new : Good(new[k])
  PROVE  LET b == Insert(box, new)
         IN  /\ GoodBox(b, n2)
             /\ Held(b) = Held(box) \cup DOMAIN new
             /\ \A k \in DOMAIN new : b.messages[k] = new[k]
             /\ \A k \in Held(box) : b.messages[k] = box.messages[k]
             /\ b.events = box.events \cup {Event(new[k]) : k \in DOMAIN new}
<1> DEFINE ms == [k \in DOMAIN box.messages \cup DOMAIN new |->
                    IF k \in DOMAIN new THEN new[k] ELSE box.messages[k]]
           ev == box.events \cup {Event(new[k]) : k \in DOMAIN new}
           b == [box EXCEPT !.messages = ms, !.events = ev]
<1>1. DOMAIN box.messages \subseteq 1..n
  BY DEF GoodBox, IsBox
<1>2. /\ DOMAIN ms = Held(box) \cup DOMAIN new
      /\ \A k \in DOMAIN new : ms[k] = new[k]
  BY DEF Held
<1>3. \A k \in Held(box) : ms[k] = box.messages[k]
  <2>1. \A k \in Held(box) : k \notin DOMAIN new
    BY <1>1 DEF Held
  <2> QED BY <2>1 DEF Held
<1>4. \A k \in DOMAIN ms : Good(ms[k])
  BY <1>2, <1>3 DEF GoodBox
<1>5. ms \in [DOMAIN ms -> Messages]
  BY <1>4 DEF Good
<1>6. DOMAIN ms \subseteq 1..n2
  BY <1>1, <1>2 DEF Held
<1>7. ev \in SUBSET Events
  BY EventType DEF GoodBox, IsBox
<1>8. b = Insert(box, new)
  BY DEF Insert
<1> HIDE DEF ms, ev
<1>9. IsBox(b, n2) /\ b.messages = ms /\ b.events = ev
  BY <1>5, <1>6, <1>7 DEF GoodBox, IsBox
<1> HIDE DEF b
<1> QED BY <1>2, <1>3, <1>4, <1>8, <1>9 DEF GoodBox, Held, ev

\* Dropping entries and ageing the bodies of others.
LEMMA ThinnedGood ==
  ASSUME NEW box, NEW n \in Nat, GoodBox(box, n), NEW ms,
         ms = [k \in DOMAIN ms |-> ms[k]], DOMAIN ms \subseteq Held(box),
         \A k \in DOMAIN ms : ms[k] \in {box.messages[k], AgedBody(box.messages[k])}
  PROVE  LET b == [box EXCEPT !.messages = ms]
         IN  GoodBox(b, n) /\ b.messages = ms /\ b.events = box.events
<1> DEFINE b == [box EXCEPT !.messages = ms]
<1>1. \A k \in DOMAIN ms : Good(ms[k])
  BY AgedGood DEF GoodBox
<1>2. ms \in [DOMAIN ms -> Messages]
  BY <1>1 DEF Good
<1>3. IsBox(b, n) /\ b.messages = ms /\ b.events = box.events
  BY <1>2 DEF GoodBox, IsBox, Held
<1> HIDE DEF b
<1> QED BY <1>1, <1>3 DEF GoodBox, Held, b

\* Trimming the history keeps what it keeps, but for aged bodies.
LEMMA TrimGood ==
  ASSUME NEW box, NEW n \in Nat, GoodBox(box, n)
  PROVE  LET b == TrimHistory(box)
         IN  /\ GoodBox(b, n)
             /\ Held(b) \subseteq Held(box)
             /\ \A k \in Held(b) : b.messages[k] = AgedBody(box.messages[k])
             /\ Live(b) = Live(box)
             /\ \A k \in Live(box) : b.messages[k] = box.messages[k]
             /\ b.events = box.events
<1> DEFINE aged == [k \in Held(box) |-> AgedBody(box.messages[k])]
           paned == Without(aged, OverPaneHistory(aged))
           ms == Without(paned, OverDeckHistory(paned))
<1>1. \A k \in Held(box) : /\ Terminal(aged[k]) <=> Terminal(box.messages[k])
                           /\ ~Terminal(box.messages[k]) => aged[k] = box.messages[k]
  BY DEF AgedBody, GoodBox, Good, Messages
<1>2. /\ DOMAIN paned \subseteq Held(box)
      /\ \A k \in DOMAIN paned : paned[k] = AgedBody(box.messages[k])
  BY DEF Without
<1>3. \A k \in Live(box) : k \in DOMAIN paned /\ paned[k] = box.messages[k]
  <2>1. \A k \in OverPaneHistory(aged) : Terminal(aged[k])
    BY DEF OverPaneHistory
  <2> QED BY <1>1, <2>1 DEF Live, Without
<1>4. TrimHistory(box) = [box EXCEPT !.messages = ms]
  BY DEF TrimHistory
<1> HIDE DEF paned
<1>5. /\ DOMAIN ms \subseteq Held(box)
      /\ ms = [k \in DOMAIN ms |-> ms[k]]
      /\ \A k \in DOMAIN ms : ms[k] = AgedBody(box.messages[k])
  BY <1>2 DEF Without
<1>6. \A k \in Live(box) : k \in DOMAIN ms /\ ms[k] = box.messages[k]
  <2>1. \A k \in OverDeckHistory(paned) : Terminal(paned[k])
    BY DEF OverDeckHistory
  <2> QED BY <1>3, <2>1 DEF Live, Without
<1> HIDE DEF ms
<1>7. /\ GoodBox(TrimHistory(box), n)
      /\ TrimHistory(box).messages = ms
      /\ TrimHistory(box).events = box.events
  BY <1>4, <1>5, ThinnedGood
<1>8. Live(TrimHistory(box)) = Live(box)
  BY <1>1, <1>5, <1>6, <1>7 DEF Live, Held
<1> QED BY <1>5, <1>6, <1>7, <1>8 DEF Held

-----------------------------------------------------------------------------
(* Operations, from the inbox before them.                                 *)

\* The inductive invariant.
Inv == stamp \in Nat /\ now \in Nat /\ GoodBox(inbox, stamp) /\ Distinct(inbox)

\* What box c, after n insertions, has done with what the inbox owes: whatever is
\* live in it was, or is new, and is for its old recipient, for one of R or in
\* its pool; whatever ended, the events tell; and they tell of no other end.
Accounts(c, n, R) ==
  /\ \A k \in Live(c) :
       \/ /\ k \in Live(inbox)
          /\ c.messages[k].recipient = inbox.messages[k].recipient
       \/ /\ k \in Live(inbox) \/ k \in (stamp + 1)..n
          /\ c.messages[k].recipient \in R \cup {NoRecipient}
  /\ \A k \in Live(inbox) :
       k \in Live(c) \/ \E e \in c.events :
                          /\ e.id = inbox.messages[k].id
                          /\ e.recipient \in {inbox.messages[k].recipient, NoRecipient}
                          /\ Terminal(e)
  /\ \A e \in c.events :
       Terminal(e) => \E k \in Held(inbox) : /\ k \notin Live(c)
                                             /\ inbox.messages[k].id = e.id

\* Box c, after n insertions, is good and may replace the inbox.
Keeps(c, n, R) ==
  GoodBox(c, n) /\ Distinct(c) /\ FollowsBox(inbox, c) /\ Accounts(c, n, R)

\* Two messages stay apart whatever follows from them.
LEMMA ApartFollows ==
  ASSUME NEW l, NEW m, NEW l2, NEW m2, Apart(l, m), Follows(l, l2), Follows(m, m2)
  PROVE  Apart(l2, m2)
BY DEF Apart, Follows, HolderPane

\* A box with the same messages and events.
LEMMA KeepsSame ==
  ASSUME NEW R, NEW b, NEW n \in Nat, Keeps(b, n, R), NEW c, GoodBox(c, n),
         c.messages = b.messages, c.events = b.events
  PROVE  Keeps(c, n, R)
<1>1. Held(c) = Held(b) /\ Live(c) = Live(b)
  BY DEF Held, Live
<1> QED BY <1>1 DEF Keeps, Distinct, FollowsBox, Accounts

LEMMA KeepsDrained ==
  ASSUME Inv, NEW R
  PROVE  /\ Keeps(Drained, stamp, R)
         /\ Drained.messages = inbox.messages /\ Drained.events = {}
<1> DEFINE d == Drained
<1>1. GoodBox(d, stamp) /\ d.messages = inbox.messages /\ d.events = {}
  BY DrainedGood DEF Inv
<1> HIDE DEF d
<1>2. Held(d) = Held(inbox) /\ Live(d) = Live(inbox)
  BY <1>1 DEF Held, Live
<1>3. FollowsBox(inbox, d) /\ Distinct(d)
  BY <1>1, <1>2, SameFollows DEF Inv, FollowsBox, Distinct
<1>4. Accounts(d, stamp, R)
  BY <1>1, <1>2 DEF Accounts
<1> QED BY <1>1, <1>3, <1>4 DEF Keeps, d

\* The box every post starts from.
LEMMA KeepsExpired ==
  ASSUME Inv, NEW R
  PROVE  LET b == ExpireDedup(Drained)
         IN  Keeps(b, stamp, R) /\ b.messages = inbox.messages /\ b.events = {}
<1>1. /\ Keeps(Drained, stamp, R)
      /\ Drained.messages = inbox.messages /\ Drained.events = {}
  BY KeepsDrained
<1>2. /\ GoodBox(ExpireDedup(Drained), stamp)
      /\ ExpireDedup(Drained).messages = Drained.messages
      /\ ExpireDedup(Drained).events = Drained.events
  BY <1>1, ExpireDedupGood DEF Keeps, Inv
<1> QED BY <1>1, <1>2, KeepsSame DEF Inv

LEMMA KeepsTrim ==
  ASSUME NEW R, NEW b, NEW n \in Nat, Keeps(b, n, R)
  PROVE  Keeps(TrimHistory(b), n, R)
<1> DEFINE c == TrimHistory(b)
<1>1. /\ GoodBox(c, n)
      /\ Held(c) \subseteq Held(b)
      /\ \A k \in Held(c) : c.messages[k] = AgedBody(b.messages[k])
      /\ Live(c) = Live(b)
      /\ \A k \in Live(b) : c.messages[k] = b.messages[k]
      /\ c.events = b.events
  BY TrimGood DEF Keeps
<1> HIDE DEF c
<1>2. \A k \in Held(c) : Good(b.messages[k])
  BY <1>1 DEF Keeps, GoodBox
<1>3. FollowsBox(inbox, c)
  BY <1>1, <1>2, AgedGood DEF Keeps, FollowsBox
<1>4. \A k \in Held(c) : Follows(b.messages[k], c.messages[k])
  BY <1>1, <1>2, AgedGood, SameFollows
<1>5. Distinct(c)
  <2> SUFFICES ASSUME NEW j \in Held(c), NEW k \in Held(c), j # k
               PROVE  Apart(c.messages[j], c.messages[k])
    BY DEF Distinct
  <2>1. Apart(b.messages[j], b.messages[k])
    BY <1>1 DEF Keeps, Distinct
  <2> QED BY <1>4, <2>1, ApartFollows
<1>6. Accounts(c, n, R)
  BY <1>1 DEF Keeps, Accounts
<1> QED BY <1>1, <1>3, <1>5, <1>6 DEF Keeps, c

\* What an entry of b may be changed to in a box that may replace the inbox.
MayBecome(b, k, m, R) ==
  /\ Good(m)
  /\ Follows(b.messages[k], m)
  /\ m.recipient \in {b.messages[k].recipient, NoRecipient} \cup R
  /\ k \in Held(inbox) => Follows(inbox.messages[k], m)
  /\ Terminal(m) => /\ k \in Held(inbox)
                    /\ m.recipient \in {inbox.messages[k].recipient, NoRecipient}

LEMMA KeepsTransition ==
  ASSUME NEW R, NEW b, NEW n \in Nat, Keeps(b, n, R), NEW changed,
         DOMAIN changed \subseteq Held(b),
         \A k \in DOMAIN changed : MayBecome(b, k, changed[k], R)
  PROVE  Keeps(Transition(b, changed), n, R)
<1> DEFINE c == Transition(b, changed)
<1>1. /\ GoodBox(c, n)
      /\ Held(c) = Held(b)
      /\ \A k \in Held(b) : c.messages[k] = IF k \in DOMAIN changed THEN changed[k]
                                            ELSE b.messages[k]
      /\ c.events = b.events \cup {Event(changed[k]) : k \in DOMAIN changed}
  BY TransitionGood DEF Keeps, MayBecome
<1> HIDE DEF c
<1>2. FollowsBox(inbox, c)
  BY <1>1 DEF Keeps, FollowsBox, MayBecome
<1>3. \A k \in Held(c) : Follows(b.messages[k], c.messages[k])
  BY <1>1, SameFollows DEF MayBecome
<1>4. Distinct(c)
  <2> SUFFICES ASSUME NEW j \in Held(c), NEW k \in Held(c), j # k
               PROVE  Apart(c.messages[j], c.messages[k])
    BY DEF Distinct
  <2>1. Apart(b.messages[j], b.messages[k])
    BY <1>1 DEF Keeps, Distinct
  <2> QED BY <1>3, <2>1, ApartFollows
<1>5. Live(c) \subseteq Live(b)
  BY <1>1, <1>3 DEF Live, Follows
<1>6. Accounts(c, n, R)
  <2>1. ASSUME NEW k \in Live(c)
        PROVE  \/ /\ k \in Live(inbox)
                  /\ c.messages[k].recipient = inbox.messages[k].recipient
               \/ /\ k \in Live(inbox) \/ k \in (stamp + 1)..n
                  /\ c.messages[k].recipient \in R \cup {NoRecipient}
    <3>1. k \in Live(b) /\ k \in Held(b)
      BY <1>1, <1>5 DEF Live
    <3>2. c.messages[k].recipient \in {b.messages[k].recipient, NoRecipient} \cup R
      BY <1>1, <3>1 DEF MayBecome
    <3> QED BY <3>1, <3>2 DEF Keeps, Accounts
  <2>2. ASSUME NEW k \in Live(inbox), k \notin Live(c)
        PROVE  \E e \in c.events :
                 /\ e.id = inbox.messages[k].id
                 /\ e.recipient \in {inbox.messages[k].recipient, NoRecipient}
                 /\ Terminal(e)
    <3>1. CASE k \in Live(b)
      <4> DEFINE e == Event(changed[k])
      <4>1. k \in DOMAIN changed /\ Terminal(changed[k])
        BY <1>1, <2>2, <3>1 DEF Live
      <4>2. /\ changed[k].id = inbox.messages[k].id
            /\ changed[k].recipient \in {inbox.messages[k].recipient, NoRecipient}
        BY <4>1 DEF MayBecome, Follows, Live
      <4>3. e.id = changed[k].id /\ e.recipient = changed[k].recipient /\ e.state = changed[k].state
        BY DEF Event
      <4>4. e \in c.events
        BY <1>1, <4>1
      <4> HIDE DEF e
      <4> QED BY <4>1, <4>2, <4>3, <4>4
    <3>2. CASE k \notin Live(b)
      BY <1>1, <3>2 DEF Keeps, Accounts
    <3> QED BY <3>1, <3>2
  <2>3. ASSUME NEW e \in c.events, Terminal(e)
        PROVE  \E k \in Held(inbox) : k \notin Live(c) /\ inbox.messages[k].id = e.id
    <3>1. CASE e \in b.events
      BY <1>5, <2>3, <3>1 DEF Keeps, Accounts
    <3>2. CASE \E k \in DOMAIN changed : e = Event(changed[k])
      <4>1. PICK k \in DOMAIN changed : e = Event(changed[k])
        BY <3>2
      <4>2. Terminal(changed[k]) /\ e.id = changed[k].id
        BY <2>3, <4>1 DEF Event
      <4>3. k \in Held(inbox) /\ changed[k].id = inbox.messages[k].id
        BY <4>2 DEF MayBecome, Follows
      <4>4. k \notin Live(c)
        BY <1>1, <4>2 DEF Live
      <4> QED BY <4>2, <4>3, <4>4
    <3> QED BY <1>1, <3>1, <3>2
  <2> QED BY <2>1, <2>2, <2>3 DEF Accounts
<1> QED BY <1>1, <1>2, <1>4, <1>6 DEF Keeps, c

\* What continues an entry of the inbox is one of the things it may become.
LEMMA ContinuesBecome ==
  ASSUME NEW R, NEW b, b.messages = inbox.messages, NEW k \in Held(inbox),
         NEW m, Good(m), Continues(inbox.messages[k], m)
  PROVE  MayBecome(b, k, m, R)
BY DEF MayBecome, Continues

\* One entry of the inbox changed in a box with the inbox's messages.
LEMMA KeepsChange ==
  ASSUME Inv, NEW R, NEW b, Keeps(b, stamp, R), b.messages = inbox.messages,
         NEW k \in Held(inbox), NEW m, Good(m), Continues(inbox.messages[k], m)
  PROVE  /\ Keeps(Change(b, k, m), stamp, R)
         /\ Keeps(TrimHistory(Change(b, k, m)), stamp, R)
<1> DEFINE changed == [j \in {k} |-> m]
<1>1. /\ DOMAIN changed \subseteq Held(b)
      /\ \A j \in DOMAIN changed : MayBecome(b, j, changed[j], R)
  BY ContinuesBecome DEF Held
<1> HIDE DEF changed
<1>2. Keeps(Transition(b, changed), stamp, R)
  BY <1>1, KeepsTransition DEF Inv
<1>3. Keeps(Change(b, k, m), stamp, R)
  BY <1>2 DEF Change, changed
<1> QED BY <1>3, KeepsTrim DEF Inv

\* New entries under one id the box does not hold.
LEMMA KeepsInsert ==
  ASSUME Inv, NEW R, NEW b, Keeps(b, stamp, R), NEW new, NEW n2 \in Nat, stamp <= n2,
         DOMAIN new \subseteq (stamp + 1)..n2, NEW id,
         \A k \in Held(b) : b.messages[k].id # id,
         \A k \in DOMAIN new : Good(new[k]) /\ new[k].id = id,
         \A k \in DOMAIN new : /\ ~Terminal(new[k])
                               /\ new[k].recipient \in R \cup {NoRecipient},
         \A j, k \in DOMAIN new : j # k => Apart(new[j], new[k])
  PROVE  Keeps(Insert(b, new), n2, R)
<1> DEFINE c == Insert(b, new)
<1>1. /\ GoodBox(c, n2)
      /\ Held(c) = Held(b) \cup DOMAIN new
      /\ \A k \in DOMAIN new : c.messages[k] = new[k]
      /\ \A k \in Held(b) : c.messages[k] = b.messages[k]
      /\ c.events = b.events \cup {Event(new[k]) : k \in DOMAIN new}
  BY InsertGood DEF Keeps, Inv
<1> HIDE DEF c
<1>2. Distinct(c)
  <2> SUFFICES ASSUME NEW j \in Held(c), NEW k \in Held(c), j # k
               PROVE  Apart(c.messages[j], c.messages[k])
    BY DEF Distinct
  <2>1. CASE j \in Held(b) /\ k \in Held(b)
    BY <1>1, <2>1 DEF Keeps, Distinct
  <2>2. CASE j \in DOMAIN new /\ k \in DOMAIN new
    BY <1>1, <2>2
  <2>3. CASE j \in DOMAIN new /\ k \in Held(b)
    BY <1>1, <2>3 DEF Apart
  <2>4. CASE j \in Held(b) /\ k \in DOMAIN new
    BY <1>1, <2>4 DEF Apart
  <2> QED BY <1>1, <2>1, <2>2, <2>3, <2>4
<1>3. FollowsBox(inbox, c)
  <2>1. Held(inbox) \subseteq 1..stamp
    BY DEF Inv, GoodBox, IsBox, Held
  <2>2. \A k \in Held(inbox) : k \notin DOMAIN new
    BY <2>1 DEF Inv
  <2> QED BY <1>1, <2>2 DEF Keeps, FollowsBox
<1>4. Live(c) = Live(b) \cup DOMAIN new
  BY <1>1 DEF Live
<1>5. DOMAIN new \cap Held(inbox) = {}
  BY DEF Inv, GoodBox, IsBox, Held
<1>6. \A e \in c.events : Terminal(e) => e \in b.events
  BY <1>1 DEF Event
<1>7. Accounts(c, n2, R)
  <2>1. ASSUME NEW k \in Live(c)
        PROVE  \/ /\ k \in Live(inbox)
                  /\ c.messages[k].recipient = inbox.messages[k].recipient
               \/ /\ k \in Live(inbox) \/ k \in (stamp + 1)..n2
                  /\ c.messages[k].recipient \in R \cup {NoRecipient}
    <3>1. CASE k \in DOMAIN new
      BY <1>1, <3>1
    <3>2. CASE k \in Live(b)
      <4>1. c.messages[k] = b.messages[k] /\ (k \in (stamp + 1)..stamp => FALSE)
        BY <1>1, <3>2 DEF Live, Inv
      <4> QED BY <3>2, <4>1 DEF Keeps, Accounts
    <3> QED BY <1>4, <3>1, <3>2
  <2>2. \A k \in Held(inbox) : k \notin Live(b) => k \notin Live(c)
    BY <1>4, <1>5
  <2> QED BY <1>1, <1>4, <1>6, <2>1, <2>2 DEF Keeps, Accounts
<1> QED BY <1>1, <1>2, <1>3, <1>7 DEF Keeps, c

\* One new direct message.
LEMMA KeepsInsertDirect ==
  ASSUME Inv, NEW R, NEW b, Keeps(b, stamp, R), NEW to \in Recipients, to \in R,
         NEW id \in Ids,
         \A k \in Held(b) : b.messages[k].id # id, NEW bytes \in Nat
  PROVE  Keeps(InsertDirect(b, to, id, bytes), stamp + 1, R)
<1> DEFINE m == NewMessage(id, "Direct", "None", to, bytes, 0)
           new == [k \in {stamp + 1} |-> m]
           r == RegisterId(b, id)
<1>1. GoodBox(r, stamp) /\ r.messages = b.messages /\ r.events = b.events
  BY RegisterIdGood DEF Keeps, Inv
<1>2. Keeps(r, stamp, R)
  BY <1>1, KeepsSame DEF Inv
<1>3. Good(m) /\ m.id = id /\ ~Terminal(m) /\ m.recipient = to
  BY NewGood DEF Inv, NewMessage
<1> HIDE DEF m, r
<1>4. /\ stamp + 1 \in Nat /\ stamp <= stamp + 1
      /\ DOMAIN new \subseteq (stamp + 1)..(stamp + 1)
      /\ \A k \in DOMAIN new : Good(new[k]) /\ new[k].id = id
      /\ \A k \in DOMAIN new : ~Terminal(new[k]) /\ new[k].recipient \in R
      /\ \A j, k \in DOMAIN new : j # k => Apart(new[j], new[k])
  BY <1>3 DEF Inv
<1>5. \A k \in Held(r) : r.messages[k].id # id
  BY <1>1 DEF Held
<1> HIDE DEF new
<1>6. Keeps(Insert(r, new), stamp + 1, R)
  BY <1>2, <1>4, <1>5, KeepsInsert
<1>7. Keeps(TrimHistory(Insert(r, new)), stamp + 1, R)
  BY <1>4, <1>6, KeepsTrim
<1> QED BY <1>7 DEF InsertDirect, InsertOne, m, new, r

\* What every action has to show.
Kept(R) == stamp' \in Nat /\ now' \in Nat /\ Keeps(inbox', stamp', R)

LEMMA AdmissionKept ==
  ASSUME Inv, NEW R, Admission
  PROVE  Kept(R)
BY KeepsExpired DEF Admission, Kept, Inv

LEMMA AddresseeType ==
  /\ \A to \in Addressees : to \in Recipients
  /\ \A bytes \in BodySizes : bytes \in Nat
BY InboxConstants DEF Recipients

LEMMA PostDirectKept ==
  ASSUME Inv, NEW R, NEW to \in Recipients, to \in R, NEW id \in Ids, NEW bytes \in Nat,
         PostDirect(to, id, bytes)
  PROVE  Kept(R)
<1> DEFINE b == ExpireDedup(Drained)
<1>1. Keeps(b, stamp, R)
  BY KeepsExpired
<1>2. \A k \in Held(b) : b.messages[k].id # id
  BY DEF PostDirect, AdmitDirect, AdmitReply, CheckId
<1>3. inbox' = InsertDirect(b, to, id, bytes) /\ stamp' = stamp + 1 /\ now' = now
  BY DEF PostDirect
<1> HIDE DEF b
<1>4. Keeps(InsertDirect(b, to, id, bytes), stamp + 1, R)
  BY <1>1, <1>2, KeepsInsertDirect
<1> QED BY <1>3, <1>4 DEF Kept, Inv

LEMMA PostAgentDirectKept ==
  ASSUME Inv, NEW R, NEW from \in Agents, NEW to \in Recipients, to \in R,
         NEW id \in Ids,
         NEW bytes \in Nat, PostAgentDirect(from, to, id, bytes)
  PROVE  Kept(R)
<1> DEFINE b == ExpireDedup(Drained)
           r == RecordRate(b, from)
<1>1. Keeps(b, stamp, R)
  BY KeepsExpired
<1>2. \A k \in Held(b) : b.messages[k].id # id
  BY DEF PostAgentDirect, AdmitDirect, AdmitReply, CheckId
<1>3. inbox' = InsertDirect(r, to, id, bytes) /\ stamp' = stamp + 1 /\ now' = now
  BY DEF PostAgentDirect
<1> HIDE DEF b
<1>4. GoodBox(r, stamp) /\ r.messages = b.messages /\ r.events = b.events
  BY <1>1, RecordRateGood DEF Keeps, Inv
<1> HIDE DEF r
<1>5. Keeps(r, stamp, R) /\ \A k \in Held(r) : r.messages[k].id # id
  BY <1>1, <1>2, <1>4, KeepsSame DEF Inv, Held
<1>6. Keeps(InsertDirect(r, to, id, bytes), stamp + 1, R)
  BY <1>5, KeepsInsertDirect
<1> QED BY <1>3, <1>6 DEF Kept, Inv

\* Counting a reservation in or out of a box.
LEMMA KeepsReserved ==
  ASSUME NEW R, NEW b, NEW n \in Nat, Keeps(b, n, R)
  PROVE  /\ Keeps([b EXCEPT !.reserved_replies = @ + 1], n, R)
         /\ Keeps(Released(b), n, R)
         /\ Released(b).messages = b.messages /\ Released(b).events = b.events
<1>1. b.reserved_replies + 1 \in Nat
  BY DEF Keeps, GoodBox, IsBox
<1>2. (IF b.reserved_replies = 0 THEN 0 ELSE b.reserved_replies - 1) \in Nat
  BY DEF Keeps, GoodBox, IsBox
<1>3. \A r \in Nat : LET c == [b EXCEPT !.reserved_replies = r]
                     IN  GoodBox(c, n) /\ c.messages = b.messages /\ c.events = b.events
  BY ReservedGood DEF Keeps
<1>4. \A r \in Nat : Keeps([b EXCEPT !.reserved_replies = r], n, R)
  BY <1>3, KeepsSame
<1> QED BY <1>1, <1>2, <1>3, <1>4 DEF Released

LEMMA ReserveKept ==
  ASSUME Inv, NEW R,
         \/ ReserveReply
         \/ \E p, id, bytes, replacing : ReserveDelegate(p, id, bytes, replacing)
         \/ ReleaseReply
  PROVE  Kept(R)
<1>1. CASE ReserveReply
  BY <1>1, KeepsDrained, KeepsReserved DEF ReserveReply, Kept, Inv
<1>2. CASE \E p, id, bytes, replacing : ReserveDelegate(p, id, bytes, replacing)
  <2> DEFINE b == ExpireDedup(Drained)
  <2>1. Keeps(b, stamp, R) /\ stamp \in Nat
    BY KeepsExpired DEF Inv
  <2>2. inbox' = [b EXCEPT !.reserved_replies = @ + 1] /\ stamp' = stamp /\ now' = now
    BY <1>2 DEF ReserveDelegate
  <2> HIDE DEF b
  <2>3. Keeps(inbox', stamp, R)
    BY <2>1, <2>2, KeepsReserved
  <2>4. QED
    BY <2>2, <2>3 DEF Kept, Inv
<1>3. CASE ReleaseReply
  BY <1>3, KeepsDrained, KeepsReserved DEF ReleaseReply, Kept, Inv
<1> QED BY <1>1, <1>2, <1>3

LEMMA PostReservedReplyKept ==
  ASSUME Inv, NEW R, NEW to \in Recipients, to \in R, NEW id \in Ids, NEW bytes \in Nat,
         PostReservedReply(to, id, bytes)
  PROVE  Kept(R)
<1> DEFINE b == ExpireDedup(Drained)
           r == Released(b)
<1>1. Keeps(b, stamp, R)
  BY KeepsExpired
<1>2. \A k \in Held(b) : b.messages[k].id # id
  BY DEF PostReservedReply, AdmitReservedReply, CheckId
<1>3. inbox' = InsertDirect(r, to, id, bytes) /\ stamp' = stamp + 1 /\ now' = now
  BY DEF PostReservedReply
<1> HIDE DEF b
<1>4. Keeps(r, stamp, R) /\ r.messages = b.messages
  BY <1>1, KeepsReserved DEF Inv
<1> HIDE DEF r
<1>5. \A k \in Held(r) : r.messages[k].id # id
  BY <1>2, <1>4 DEF Held
<1>6. Keeps(InsertDirect(r, to, id, bytes), stamp + 1, R)
  BY <1>4, <1>5, KeepsInsertDirect
<1> QED BY <1>3, <1>6 DEF Kept, Inv

\* The box a publish or an offer starts from.
LEMMA KeepsNoted ==
  ASSUME Inv, NEW R, NEW id \in Ids, NEW from \in Agents
  PROVE  LET r == RecordRate(RegisterId(ExpireDedup(Drained), id), from)
         IN  Keeps(r, stamp, R) /\ r.messages = inbox.messages
<1> DEFINE b == ExpireDedup(Drained)
           c == RegisterId(b, id)
           r == RecordRate(c, from)
<1>1. Keeps(b, stamp, R) /\ b.messages = inbox.messages
  BY KeepsExpired
<1> HIDE DEF b
<1>2. GoodBox(c, stamp) /\ c.messages = b.messages /\ c.events = b.events
  BY <1>1, RegisterIdGood DEF Keeps, Inv
<1> HIDE DEF c
<1>3. GoodBox(r, stamp) /\ r.messages = c.messages /\ r.events = c.events
  BY <1>2, RecordRateGood DEF Inv
<1> QED BY <1>1, <1>2, <1>3, KeepsSame DEF Inv, b, c

LEMMA PublishKept ==
  ASSUME Inv, NEW R, NEW from \in Agents, NEW topic, NEW id \in Ids,
         NEW bytes \in BodySizes, NEW recipients \in OnePerPane,
         \A a \in recipients : Bound(a) \in R,
         Publish(from, topic, id, bytes, recipients)
  PROVE  Kept(R)
<1> DEFINE b == ExpireDedup(Drained)
           room == {a \in recipients : HasRoomFor(b, PaneOf[a])}
           n == Cardinality(room)
           r == RecordRate(RegisterId(b, id), from)
           copy(a) == NewMessage(id, "Publish", "None", Bound(a), bytes, 0)
<1>1. Keeps(r, stamp, R) /\ r.messages = inbox.messages
  BY KeepsNoted
<1>2. /\ \A k \in Held(b) : b.messages[k].id # id
      /\ b.messages = inbox.messages
  BY KeepsExpired DEF Publish, CheckId
<1>3. room \subseteq Agents /\ \A a, c \in room : PaneOf[a] = PaneOf[c] => a = c
  BY DEF OnePerPane
<1>4. n \in Nat
  BY <1>3, InboxConstants, FS_Subset, FS_CardinalityType
<1>5. PICK order \in Injection(1..n, room) :
        inbox' = TrimHistory(Insert(r, [k \in (stamp + 1)..(stamp + n) |->
                                          copy(order[k - stamp])]))
  BY DEF Publish
<1> DEFINE new == [k \in (stamp + 1)..(stamp + n) |-> copy(order[k - stamp])]
<1>6. stamp' = stamp + n /\ now' = now
  BY DEF Publish
<1> HIDE DEF b, room, n, r
<1>7. /\ order \in [1..n -> room]
      /\ \A i, j \in 1..n : order[i] = order[j] => i = j
  BY <1>5 DEF Injection, IsInjective
<1>8. ASSUME NEW a \in room
      PROVE  /\ Good(copy(a)) /\ copy(a).id = id /\ copy(a).kind = "Publish"
             /\ HolderPane(copy(a)) = PaneOf[a]
             /\ ~Terminal(copy(a)) /\ copy(a).recipient \in R
  <2>1. Good(copy(a))
    BY <1>3, BoundType, AddresseeType, NewGood DEF Inv
  <2>2. HolderPane(copy(a)) = PaneOf[a]
    BY <1>3, BoundType DEF HolderPane, NewMessage, Bound
  <2>3. Bound(a) \in R
    BY DEF room
  <2> QED BY <2>1, <2>2, <2>3 DEF NewMessage
<1> HIDE DEF copy
<1>9. ASSUME NEW k \in (stamp + 1)..(stamp + n)
      PROVE  k - stamp \in 1..n /\ order[k - stamp] \in room
  <2>1. k - stamp \in 1..n
    BY <1>4 DEF Inv
  <2> QED BY <1>7, <2>1
<1>10. \A k \in DOMAIN new : /\ Good(new[k]) /\ new[k].id = id
                             /\ ~Terminal(new[k]) /\ new[k].recipient \in R
  BY <1>8, <1>9
<1>11. ASSUME NEW j \in DOMAIN new, NEW k \in DOMAIN new, j # k
       PROVE  Apart(new[j], new[k])
  <2>1. j - stamp # k - stamp
    <3>1. stamp \in Int /\ n \in Int /\ j \in Int /\ k \in Int
      BY <1>4 DEF Inv
    <3> QED BY <1>11, <3>1
  <2>2. order[j - stamp] # order[k - stamp]
    BY <1>7, <1>9, <2>1
  <2>3. PaneOf[order[j - stamp]] # PaneOf[order[k - stamp]]
    BY <1>3, <1>9, <2>2
  <2> QED BY <1>8, <1>9, <2>3 DEF Apart
<1>12. /\ stamp + n \in Nat /\ stamp <= stamp + n
       /\ DOMAIN new \subseteq (stamp + 1)..(stamp + n)
  BY <1>4 DEF Inv
<1>13. \A k \in Held(r) : r.messages[k].id # id
  BY <1>1, <1>2 DEF Held
<1> HIDE DEF new
<1>14. Keeps(Insert(r, new), stamp + n, R)
  BY <1>1, <1>10, <1>11, <1>12, <1>13, KeepsInsert
<1>15. Keeps(TrimHistory(Insert(r, new)), stamp + n, R)
  BY <1>12, <1>14, KeepsTrim
<1> QED BY <1>5, <1>6, <1>12, <1>15 DEF Kept, Inv, new

\* Handing an offer out of its pool, or leaving it there.
LEMMA KeepsAssignments ==
  ASSUME NEW R, NEW n \in Nat, NEW b, Keeps(b, n, R), now \in Nat, NEW k \in Held(b),
         IsOffer(b.messages[k]), b.messages[k].recipient = NoRecipient,
         b.messages[k].state = Queued, NEW candidates \in OnePerPane,
         \A a \in candidates : Bound(a) \in R,
         k \in Held(inbox) => b.messages[k] = inbox.messages[k],
         NEW c \in Assignments(b, k, candidates)
  PROVE  Keeps(c, n, R)
<1> DEFINE m == b.messages[k]
<1>1. CASE c = b
  BY <1>1
<1>2. CASE \E a \in Eligible(b, m, candidates) : c = Change(b, k, Assigned(m, a))
  <2>1. PICK a \in Eligible(b, m, candidates) : c = Change(b, k, Assigned(m, a))
    BY <1>2
  <2>2. /\ a \in Agents /\ Bound(a) \in R
        /\ \A e \in m.excluded : ~SameHolder(e, Bound(a))
    BY DEF Eligible, OnePerPane
  <2>3. Good(m)
    BY DEF Keeps, GoodBox
  <2>4. Good(Assigned(m, a)) /\ Follows(m, Assigned(m, a))
    BY <2>2, <2>3, AssignedGood
  <2> DEFINE x == Assigned(m, a)
             changed == [j \in {k} |-> x]
  <2>5. x.recipient \in R /\ ~Terminal(x)
    BY <2>2, <2>3 DEF Assigned, Moved, Good, Messages
  <2> HIDE DEF x
  <2>6. MayBecome(b, k, x, R)
    BY <2>4, <2>5 DEF MayBecome, x
  <2>7. /\ DOMAIN changed \subseteq Held(b)
        /\ \A j \in DOMAIN changed : MayBecome(b, j, changed[j], R)
    BY <2>6
  <2> HIDE DEF changed
  <2>8. Keeps(Transition(b, changed), n, R)
    BY <2>7, KeepsTransition
  <2> QED BY <2>1, <2>8 DEF Change, changed, x
<1> QED BY <1>1, <1>2 DEF Assignments

LEMMA OfferKept ==
  ASSUME Inv, NEW R, NEW from \in Agents, NEW scope \in Scopes, NEW id \in Ids,
         NEW bytes \in BodySizes, NEW ttl \in ClaimTtls,
         NEW candidates \in OnePerPane, \A a \in candidates : Bound(a) \in R,
         Offer(from, scope, id, bytes, ttl, candidates)
  PROVE  Kept(R)
<1> DEFINE b == ExpireDedup(Drained)
           r == RecordRate(RegisterId(b, id), from)
           m == NewMessage(id, "Offer", scope, NoRecipient, bytes, ttl)
           new == [k \in {stamp + 1} |-> m]
           h == Insert(r, new)
<1>1. Keeps(r, stamp, R) /\ r.messages = inbox.messages
  BY KeepsNoted
<1>2. /\ \A k \in Held(b) : b.messages[k].id # id
      /\ b.messages = inbox.messages
  BY KeepsExpired DEF Offer, CheckId
<1>3. Good(m) /\ m.id = id /\ IsOffer(m) /\ m.recipient = NoRecipient /\ m.state = Queued
  BY NewOfferGood, AddresseeType, InboxConstants DEF Inv, NewMessage
<1>4. inbox' \in Assignments(h, stamp + 1, candidates) /\ stamp' = stamp + 1 /\ now' = now
  BY DEF Offer, InsertOne
<1> HIDE DEF b, r, m
<1>5. /\ stamp + 1 \in Nat /\ stamp <= stamp + 1
      /\ DOMAIN new = {stamp + 1} /\ DOMAIN new \subseteq (stamp + 1)..(stamp + 1)
      /\ \A k \in DOMAIN new : Good(new[k]) /\ new[k].id = id /\ new[k] = m
      /\ \A j, k \in DOMAIN new : j # k => Apart(new[j], new[k])
  BY <1>3 DEF Inv
<1>6. \A k \in Held(r) : r.messages[k].id # id
  BY <1>1, <1>2 DEF Held
<1> HIDE DEF new
<1>7. \A k \in DOMAIN new : ~Terminal(new[k]) /\ new[k].recipient = NoRecipient
  BY <1>3, <1>5
<1>8. Keeps(h, stamp + 1, R)
  BY <1>1, <1>5, <1>6, <1>7, KeepsInsert
<1>9. stamp + 1 \in Held(h) /\ h.messages[stamp + 1] = m
  BY <1>1, <1>5, InsertGood DEF Keeps, Inv
<1>10. stamp + 1 \notin Held(inbox)
  BY DEF Inv, GoodBox, IsBox, Held
<1> HIDE DEF h
<1>11. Keeps(inbox', stamp + 1, R)
  BY <1>3, <1>4, <1>5, <1>8, <1>9, <1>10, KeepsAssignments DEF Inv
<1> QED BY <1>4, <1>5, <1>11 DEF Kept, Inv

LEMMA AssignOfferKept ==
  ASSUME Inv, NEW R, NEW id, NEW candidates \in OnePerPane,
         \A a \in candidates : Bound(a) \in R, AssignOffer(id, candidates)
  PROVE  Kept(R)
<1>1. PICK k \in Unassigned(inbox) : inbox' \in Assignments(Drained, k, candidates)
  BY DEF AssignOffer
<1>2. /\ k \in Held(inbox) /\ IsOffer(inbox.messages[k])
      /\ inbox.messages[k].recipient = NoRecipient /\ inbox.messages[k].state = Queued
  BY DEF Unassigned
<1>3. Keeps(Drained, stamp, R) /\ Drained.messages = inbox.messages
  BY KeepsDrained
<1>4. k \in Held(Drained)
  BY <1>2, <1>3 DEF Held
<1>5. Keeps(inbox', stamp, R)
  BY <1>1, <1>2, <1>3, <1>4, KeepsAssignments DEF Inv
<1> QED BY <1>5 DEF AssignOffer, Kept, Inv

\* An open offer its claimant settles: kept while the claim runs, returned after.
LEMMA ClaimKept ==
  ASSUME Inv, NEW R, NEW id, NEW a, Complete(id, a) \/ Release(id, a)
  PROVE  Kept(R)
<1>1. PICK k \in ClaimedBy(inbox, id, a) :
        \E s \in {Settled(inbox.messages[k], Acknowledged),
                  Returned(inbox.messages[k])} :
          inbox' = TrimHistory(Change(Drained, k, s))
  BY DEF Complete, Release
<1> DEFINE m == inbox.messages[k]
<1>2. k \in Held(inbox) /\ ~Terminal(m) /\ IsOffer(m)
  BY DEF ClaimedBy, Live
<1>3. Good(m)
  BY <1>2 DEF Inv, GoodBox
<1>4. Good(Returned(m)) /\ Continues(m, Returned(m))
  BY <1>2, <1>3, ReturnedGood DEF Inv
<1>5. Good(Moved(m, Acknowledged)) /\ Continues(m, Moved(m, Acknowledged))
  BY <1>2, <1>3, EndedGood DEF Inv
<1>6. PICK s : /\ inbox' = TrimHistory(Change(Drained, k, s))
               /\ Good(s) /\ Continues(m, s)
  BY <1>1, <1>4, <1>5 DEF Settled
<1>7. Keeps(inbox', stamp, R)
  BY <1>2, <1>6, KeepsDrained, KeepsChange
<1> QED BY <1>7 DEF Complete, Release, Kept, Inv

LEMMA AckKept ==
  ASSUME Inv, NEW R, NEW id, NEW a, Ack(id, a)
  PROVE  Kept(R)
<1>1. PICK k \in FindFor(inbox, id, a) : \E n \in AckOf(inbox.messages[k]) :
        \/ inbox' = Change(Drained, k, n)
        \/ inbox' = TrimHistory(Change(Drained, k, n))
  BY DEF Ack
<1> DEFINE m == inbox.messages[k]
<1>2. PICK n \in AckOf(m) : \/ inbox' = Change(Drained, k, n)
                            \/ inbox' = TrimHistory(Change(Drained, k, n))
  BY <1>1
<1>3. k \in Held(inbox) /\ m.recipient # NoRecipient
  BY DEF FindFor, Admits
<1>4. Good(m)
  BY <1>3 DEF Inv, GoodBox
<1> HIDE DEF m
<1>5. Good(n) /\ Continues(m, n)
  <2>1. CASE m.state.name \in {"Queued", "Fetched"} /\ IsOffer(m)
    <3>1. n = Moved(m, Claimed(m.recipient, now + m.claim_ttl))
      BY <2>1 DEF AckOf
    <3> QED BY <1>3, <1>4, <2>1, <3>1, ClaimedGood DEF Inv, m
  <2>2. CASE m.state.name \in {"Queued", "Fetched"} /\ ~IsOffer(m)
    <3>1. n = Moved(m, Acknowledged)
      BY <2>2 DEF AckOf
    <3> QED BY <1>4, <2>2, <3>1, EndedGood DEF Inv
  <2>3. CASE m.state = Undeliverable("MaxDeliver") /\ ~IsOffer(m)
    <3>1. n = Moved(m, Acknowledged)
      BY <2>3 DEF AckOf, Undeliverable
    <3> QED BY <1>4, <2>3, <3>1, LateAckGood DEF Inv
  <2> QED BY <2>1, <2>2, <2>3 DEF AckOf
<1>6. Keeps(inbox', stamp, R)
  BY <1>2, <1>3, <1>5, KeepsDrained, KeepsChange DEF m
<1> QED BY <1>6 DEF Ack, Kept, Inv

LEMMA TakeReceiptKept ==
  ASSUME Inv, NEW R, NEW id, NEW a, TakeReceipt(id, a)
  PROVE  Kept(R)
<1>1. PICK k \in FindFor(inbox, id, a) :
        /\ inbox.messages[k].state = Queued
        /\ inbox' = Change(Drained, k, Moved(HandedOut(inbox.messages[k]), Fetched))
  BY DEF TakeReceipt
<1> DEFINE m == inbox.messages[k]
           n == Moved(HandedOut(m), Fetched)
<1>2. k \in Held(inbox) /\ m.recipient # NoRecipient
  BY DEF FindFor, Admits
<1>3. Good(m)
  BY <1>2 DEF Inv, GoodBox
<1>4. Good(n) /\ Continues(m, n)
  BY <1>1, <1>2, <1>3, FetchedGood DEF Inv
<1>5. Keeps(inbox', stamp, R)
  BY <1>1, <1>2, <1>4, KeepsDrained, KeepsChange
<1> QED BY <1>5 DEF TakeReceipt, Kept, Inv

\* A repeat changes the entry without a transition.
LEMMA CountReceiptRepeatKept ==
  ASSUME Inv, NEW R, NEW id, NEW a, CountReceiptRepeat(id, a)
  PROVE  Kept(R)
<1>1. PICK k \in FindFor(inbox, id, a) :
        /\ ~IsOffer(inbox.messages[k])
        /\ inbox' = [Drained EXCEPT !.messages[k] = HandedOut(inbox.messages[k])]
  BY DEF CountReceiptRepeat
<1> DEFINE m == inbox.messages[k]
           x == HandedOut(m)
           ms == [inbox.messages EXCEPT ![k] = x]
           c == [Drained EXCEPT !.messages = ms]
<1>2. /\ Keeps(Drained, stamp, R)
      /\ Drained.messages = inbox.messages /\ Drained.events = {}
  BY KeepsDrained
<1>3. k \in Held(inbox)
  BY DEF FindFor
<1>4. Good(m)
  BY <1>3 DEF Inv, GoodBox
<1>5. Good(x) /\ Follows(m, x) /\ x.recipient = m.recipient /\ x.state = m.state
  BY <1>1, <1>4, HandedOutGood DEF Continues, HandedOut, Good, Messages
<1>6. inbox' = c
  BY <1>1, <1>2
<1> HIDE DEF x
<1>7. /\ DOMAIN ms = Held(inbox)
      /\ \A j \in Held(inbox) : ms[j] = IF j = k THEN x ELSE inbox.messages[j]
  BY <1>3 DEF Held, Inv, GoodBox, IsBox
<1>8. \A j \in Held(inbox) : /\ Good(ms[j]) /\ Follows(inbox.messages[j], ms[j])
                             /\ ms[j].recipient = inbox.messages[j].recipient
                             /\ ms[j].state = inbox.messages[j].state
  BY <1>5, <1>7, SameFollows DEF Inv, GoodBox
<1>9. ms \in [DOMAIN ms -> Messages]
  <2>1. ms = [j \in DOMAIN ms |-> ms[j]]
    BY DEF Inv, GoodBox, IsBox
  <2> QED BY <1>7, <1>8, <2>1 DEF Good
<1> HIDE DEF ms
<1>10. IsBox(c, stamp) /\ c.messages = ms /\ c.events = {}
  BY <1>2, <1>7, <1>9 DEF Keeps, Inv, GoodBox, IsBox, Held
<1> HIDE DEF c
<1>11. GoodBox(c, stamp) /\ FollowsBox(inbox, c)
  BY <1>7, <1>8, <1>10 DEF GoodBox, FollowsBox, Held
<1>12. Distinct(c)
  <2> SUFFICES ASSUME NEW i \in Held(c), NEW j \in Held(c), i # j
               PROVE  Apart(c.messages[i], c.messages[j])
    BY DEF Distinct
  <2>1. i \in Held(inbox) /\ j \in Held(inbox)
    BY <1>7, <1>10 DEF Held
  <2>2. Apart(inbox.messages[i], inbox.messages[j])
    BY <2>1 DEF Inv, Distinct
  <2> QED BY <1>8, <1>10, <2>1, <2>2, ApartFollows
<1>13. Live(c) = Live(inbox)
  BY <1>7, <1>8, <1>10 DEF Live, Held
<1>14. Accounts(c, stamp, R)
  BY <1>7, <1>8, <1>10, <1>13 DEF Accounts, Live
<1> QED BY <1>6, <1>11, <1>12, <1>14 DEF CountReceiptRepeat, Kept, Keeps, Inv

LEMMA RequeueReceiptKept ==
  ASSUME Inv, NEW R, NEW id, NEW p, RequeueReceipt(id, p)
  PROVE  Kept(R)
<1>1. PICK k \in FindAt(inbox, id, p) :
        /\ inbox.messages[k].state = Fetched
        /\ inbox' = TrimHistory(Change(Drained, k,
                      IF IsOffer(inbox.messages[k]) THEN Returned(inbox.messages[k])
                      ELSE Moved(inbox.messages[k], Queued)))
  BY DEF RequeueReceipt
<1> DEFINE m == inbox.messages[k]
           n == IF IsOffer(m) THEN Returned(m) ELSE Moved(m, Queued)
<1>2. k \in Held(inbox)
  BY DEF FindAt
<1>3. Good(m)
  BY <1>2 DEF Inv, GoodBox
<1>4. Good(n) /\ Continues(m, n)
  BY <1>1, <1>3, ReturnedGood, RequeuedGood DEF Inv
<1> HIDE DEF n
<1>5. Keeps(TrimHistory(Change(Drained, k, n)), stamp, R)
  BY <1>2, <1>4, KeepsDrained, KeepsChange
<1> QED BY <1>1, <1>5 DEF RequeueReceipt, Kept, Inv, n

LEMMA RetireKept ==
  ASSUME Inv, NEW R, NEW id, NEW p, NEW reason \in RetireReasons, Retire(id, p, reason)
  PROVE  Kept(R)
<1>1. PICK k \in Live(inbox) :
        inbox' = TrimHistory(Change(Drained, k, Moved(inbox.messages[k],
                                                      Undeliverable(reason))))
  BY DEF Retire
<1> DEFINE m == inbox.messages[k]
           n == Moved(m, Undeliverable(reason))
<1>2. k \in Held(inbox) /\ ~Terminal(m)
  BY DEF Live
<1>3. Good(m)
  BY <1>2 DEF Inv, GoodBox
<1>4. reason \in Reasons
  BY InboxConstants DEF Reasons
<1>5. Good(n) /\ Continues(m, n)
  BY <1>2, <1>3, <1>4, EndedGood DEF Inv
<1>6. Keeps(inbox', stamp, R)
  BY <1>1, <1>2, <1>5, KeepsDrained, KeepsChange
<1> QED BY <1>6 DEF Retire, Kept, Inv

\* Several entries of the drained inbox changed at once.
LEMMA KeepsSweep ==
  ASSUME Inv, NEW R, NEW changed, DOMAIN changed \subseteq Held(inbox),
         \A k \in DOMAIN changed : /\ Good(changed[k])
                                   /\ Continues(inbox.messages[k], changed[k])
  PROVE  Keeps(TrimHistory(Transition(Drained, changed)), stamp, R)
<1>1. Keeps(Drained, stamp, R) /\ Drained.messages = inbox.messages
  BY KeepsDrained
<1>2. /\ DOMAIN changed \subseteq Held(Drained)
      /\ \A k \in DOMAIN changed : MayBecome(Drained, k, changed[k], R)
  BY <1>1, ContinuesBecome DEF Held
<1>3. Keeps(Transition(Drained, changed), stamp, R)
  BY <1>1, <1>2, KeepsTransition DEF Inv
<1> QED BY <1>3, KeepsTrim DEF Inv

LEMMA AgentExitedKept ==
  ASSUME Inv, NEW R, NEW a, AgentExited(a)
  PROVE  Kept(R)
<1> DEFINE owed == {k \in Live(inbox) : inbox.messages[k].recipient = Bound(a)}
           after(m) == IF IsOffer(m) THEN Returned(m)
                       ELSE Moved(m, Undeliverable("AgentExited"))
<1>1. owed \subseteq Held(inbox)
  BY DEF Live
<1>2. ASSUME NEW k \in owed
      PROVE  /\ Good(after(inbox.messages[k]))
             /\ Continues(inbox.messages[k], after(inbox.messages[k]))
  <2>1. Good(inbox.messages[k]) /\ ~Terminal(inbox.messages[k])
    BY DEF Live, Inv, GoodBox
  <2>2. "AgentExited" \in Reasons
    BY DEF Reasons
  <2> QED BY <2>1, <2>2, ReturnedGood, EndedGood DEF Inv
<1> DEFINE changed == [k \in owed |-> after(inbox.messages[k])]
<1>3. inbox' = TrimHistory(Transition(Drained, changed))
  BY DEF AgentExited
<1> HIDE DEF owed, after
<1>4. /\ DOMAIN changed \subseteq Held(inbox)
      /\ \A k \in DOMAIN changed : /\ Good(changed[k])
                                   /\ Continues(inbox.messages[k], changed[k])
  BY <1>1, <1>2
<1> HIDE DEF changed
<1>5. Keeps(inbox', stamp, R)
  BY <1>3, <1>4, KeepsSweep
<1> QED BY <1>5 DEF AgentExited, Kept, Inv

LEMMA TickKept ==
  ASSUME Inv, NEW R, Tick
  PROVE  Kept(R)
<1> DEFINE due == {k \in Held(inbox) : Due(inbox.messages[k])}
           changed == [k \in due |-> Returned(inbox.messages[k])]
           t == TrimHistory(Transition(Drained, changed))
           e == ExpireDedup(t)
<1>1. ASSUME NEW k \in due
      PROVE  /\ Good(Returned(inbox.messages[k]))
             /\ Continues(inbox.messages[k], Returned(inbox.messages[k]))
  <2> DEFINE m == inbox.messages[k]
  <2>1. Good(m)
    BY DEF Inv, GoodBox
  <2>2. IsOffer(m) /\ ~Terminal(m)
    BY <2>1 DEF Due, Good, HolderOK
  <2> QED BY <2>1, <2>2, ReturnedGood DEF Inv
<1>2. inbox' = PruneRate(e)
  BY DEF Tick
<1>3. /\ DOMAIN changed \subseteq Held(inbox)
      /\ \A k \in DOMAIN changed : /\ Good(changed[k])
                                   /\ Continues(inbox.messages[k], changed[k])
  BY <1>1
<1> HIDE DEF changed
<1>4. Keeps(t, stamp, R)
  BY <1>3, KeepsSweep
<1> HIDE DEF t
<1>5. GoodBox(e, stamp) /\ e.messages = t.messages /\ e.events = t.events
  BY <1>4, ExpireDedupGood DEF Keeps, Inv
<1> HIDE DEF e
<1>6. /\ GoodBox(PruneRate(e), stamp)
      /\ PruneRate(e).messages = e.messages /\ PruneRate(e).events = e.events
  BY <1>5, PruneRateGood DEF Inv
<1>7. Keeps(PruneRate(e), stamp, R)
  BY <1>4, <1>5, <1>6, KeepsSame DEF Inv
<1> QED BY <1>2, <1>7 DEF Tick, Kept, Inv

LEMMA ForgetPaneHistoryKept ==
  ASSUME Inv, NEW R, NEW p, ForgetPaneHistory(p)
  PROVE  Kept(R)
<1> DEFINE gone == {k \in Held(inbox) : /\ Terminal(inbox.messages[k])
                                        /\ inbox.messages[k].recipient # NoRecipient
                                        /\ HolderPane(inbox.messages[k]) = p}
           ms == Without(inbox.messages, gone)
           c == [Drained EXCEPT !.messages = ms]
<1>1. /\ Keeps(Drained, stamp, R)
      /\ Drained.messages = inbox.messages /\ Drained.events = {}
  BY KeepsDrained
<1>2. inbox' = c
  BY <1>1 DEF ForgetPaneHistory
<1>3. \A k \in gone : Terminal(inbox.messages[k])
  OBVIOUS
<1> HIDE DEF gone
<1>4. /\ DOMAIN ms \subseteq Held(Drained)
      /\ ms = [k \in DOMAIN ms |-> ms[k]]
      /\ \A k \in DOMAIN ms : ms[k] = Drained.messages[k]
  BY <1>1 DEF Without, Held
<1>5. \A k \in Live(inbox) : k \in DOMAIN ms
  BY <1>3 DEF Without, Live, Held
<1> HIDE DEF ms
<1>6. GoodBox(c, stamp) /\ c.messages = ms /\ c.events = {}
  BY <1>1, <1>4, ThinnedGood DEF Keeps, Inv
<1> HIDE DEF c
<1>7. FollowsBox(inbox, c) /\ Distinct(c)
  BY <1>1, <1>4, <1>6, SameFollows DEF Keeps, FollowsBox, Distinct, Held
<1>8. Live(c) = Live(inbox)
  BY <1>1, <1>4, <1>6, <1>5 DEF Live, Held
<1>9. Accounts(c, stamp, R)
  BY <1>1, <1>4, <1>6, <1>5, <1>8 DEF Accounts, Live
<1> QED BY <1>2, <1>6, <1>7, <1>9 DEF ForgetPaneHistory, Kept, Keeps, Inv

\* The clock moves without the box.
LEMMA AdvanceKept ==
  ASSUME Inv, Advance
  PROVE  Inv' /\ inbox' = inbox
BY DEF Advance, Inv

-----------------------------------------------------------------------------
(* Theorems.                                                               *)

LEMMA InitInv == Init => Inv
<1> SUFFICES ASSUME Init PROVE Inv
  OBVIOUS
<1>1. IsBox(inbox, 0) /\ Held(inbox) = {}
  BY DEF Init, IsBox, Held
<1> QED BY <1>1 DEF Init, Inv, GoodBox, Distinct

\* Every end of this step is told in it.
Tells ==
  \A k \in Live(inbox) :
    k \in Live(inbox)' \/
    \E e \in inbox'.events :
      /\ e.id = inbox.messages[k].id
      /\ e.recipient \in {inbox.messages[k].recipient, NoRecipient}
      /\ Terminal(e)

LEMMA KeptTells ==
  ASSUME NEW R, Kept(R)
  PROVE  Inv' /\ FollowsBox(inbox, inbox') /\ Tells
<1>1. Live(inbox)' = Live(inbox')
  BY DEF Live, Held
<1> QED BY <1>1 DEF Kept, Keeps, Accounts, Inv, Tells, Distinct, Held, GoodBox

\* Every step keeps the inductive invariant, what follows of each message in the
\* inbox is allowed, and ends are told.
LEMMA StepKept == Inv /\ [Next]_vars => Inv' /\ FollowsBox(inbox, inbox') /\ Tells
<1> SUFFICES ASSUME Inv, [Next]_vars PROVE Inv' /\ FollowsBox(inbox, inbox') /\ Tells
  OBVIOUS
<1>1. CASE UNCHANGED vars \/ Advance
  <2>1. Inv' /\ inbox' = inbox
    BY <1>1, AdvanceKept DEF vars, Inv
  <2>2. Live(inbox)' = Live(inbox)
    BY <2>1 DEF Live, Held
  <2> QED BY <2>1, <2>2, SameFollows DEF FollowsBox, Tells
<1>2. CASE \E id \in Ids : DeckPost(id)
  <2>1. Kept(Recipients)
    BY <1>2, AddresseeType, PostDirectKept, PostReservedReplyKept DEF DeckPost
  <2> QED BY <2>1, KeptTells
<1>3. CASE \E from \in Agents, id \in Ids : AgentPost(from, id)
  <2>1. \A others \in OnePerPane : \A a \in others : Bound(a) \in Recipients
    BY BoundType DEF OnePerPane
  <2>2. PICK from \in Agents, id \in Ids : AgentPost(from, id)
    BY <1>3
  <2>3. Kept(Recipients)
    BY <2>1, <2>2, AddresseeType, PostAgentDirectKept, PublishKept, OfferKept DEF AgentPost
  <2> QED BY <2>3, KeptTells
<1>4. CASE Reserve
  BY <1>4, ReserveKept, KeptTells DEF Reserve
<1>5. CASE \E id \in Ids : Deliver(id)
  <2>1. \A candidates \in OnePerPane : \A a \in candidates : Bound(a) \in Recipients
    BY BoundType DEF OnePerPane
  <2>2. Kept(Recipients)
    BY <1>5, <2>1, AckKept, TakeReceiptKept, CountReceiptRepeatKept, ClaimKept,
       AssignOfferKept, RequeueReceiptKept, RetireKept DEF Deliver
  <2> QED BY <2>2, KeptTells
<1>6. CASE \E a \in Agents : AgentExited(a)
  BY <1>6, AgentExitedKept, KeptTells
<1>7. CASE \E p \in Panes : ForgetPaneHistory(p)
  BY <1>7, ForgetPaneHistoryKept, KeptTells
<1>8. CASE Admission \/ Tick
  BY <1>8, AdmissionKept, TickKept, KeptTells
<1> QED BY <1>1, <1>2, <1>3, <1>4, <1>5, <1>6, <1>7, <1>8 DEF Next, Upkeep

\* The inductive invariant holds of the inbox for good.
THEOREM InboxInv == Spec => []Inv
<1>1. Init => Inv
  BY InitInv
<1>2. Inv /\ [Next]_vars => Inv'
  BY StepKept
<1> QED BY <1>1, <1>2, PTL DEF Spec

\* Every field keeps its type (all of src/inbox.rs).
THEOREM TypeCorrect == Spec => []TypeOK
<1>1. Inv => TypeOK
  BY DEF Inv, TypeOK, GoodBox
<1> QED BY <1>1, InboxInv, PTL

\* An id and a pane name one entry (check_id before every insert).
THEOREM EntriesAreDistinct == Spec => []EntriesDistinct
<1>1. Inv => EntriesDistinct
  BY DEF Inv, EntriesDistinct
<1> QED BY <1>1, InboxInv, PTL

\* Claims, deadlines and exclusions of an offer agree with its holder
\* (assign_offer, ack, return_offer).
THEOREM HoldersAgree == Spec => []OneHolder
<1>1. Inv => OneHolder
  BY DEF Inv, OneHolder, GoodBox, Good
<1> QED BY <1>1, InboxInv, PTL

\* max_deliver bounds how often an offer changes hands (return_offer).
THEOREM HandOversAreBounded == Spec => []OfferHandOversBounded
<1>1. Inv => OfferHandOversBounded
  BY DEF Inv, OfferHandOversBounded, GoodBox, Good
<1> QED BY <1>1, InboxInv, PTL

\* No step takes an offer's holder back or hands a held message to another.
THEOREM ExclusionsHold == Spec => HoldersExcluded
<1>1. Inv /\ [Next]_vars =>
        [\A k \in Held(inbox) \cap Held(inbox)' :
           LET m == inbox.messages[k]
               n == inbox'.messages[k]
           IN  /\ m.excluded \subseteq n.excluded
               /\ m.recipient \notin {NoRecipient, n.recipient} =>
                    /\ m.recipient \in n.excluded
                    /\ n.recipient = NoRecipient]_vars
  BY StepKept DEF FollowsBox, Follows, Held
<1> QED BY <1>1, InboxInv, PTL DEF Spec, HoldersExcluded

\* No step changes how a message ended, but for the late ack.
THEOREM EndsHold == Spec => EndedStays
<1>1. Inv /\ [Next]_vars =>
        [\A k \in Held(inbox) \cap Held(inbox)' :
           LET m == inbox.messages[k]
               n == inbox'.messages[k]
           IN  Terminal(m) /\ n.state # m.state =>
                 /\ ~IsOffer(m)
                 /\ m.state = Undeliverable("MaxDeliver")
                 /\ n.state = Acknowledged]_vars
  BY StepKept DEF FollowsBox, Follows, Held
<1> QED BY <1>1, InboxInv, PTL DEF Spec, EndedStays

\* Nothing owed is dropped and nothing ends in silence: transition raises the
\* event of every end, and trim_history drops only what has ended.
THEOREM EndsToldHold == Spec => EndsAreTold
<1>1. Inv /\ [Next]_vars =>
        [\A k \in Live(inbox) :
           k \in Live(inbox)' \/
           \E e \in inbox'.events :
             /\ e.id = inbox.messages[k].id
             /\ e.recipient \in {inbox.messages[k].recipient, NoRecipient}
             /\ Terminal(e)]_vars
  BY StepKept DEF Tells
<1> QED BY <1>1, InboxInv, PTL DEF Spec, EndsAreTold

-----------------------------------------------------------------------------
(* The dedup window and the quotas, against the log of accepted posts.     *)

LogEntries == [at : Nat, id : Ids, from : Agents \cup {Unbound}]

\* The ids remembered are those of the last posts, no two of them the same; of a
\* post before them the window is over or enough later ones pushed it out.
Recalls(b, L, t) ==
  LET d == b.dedup
      before == Len(L) - Len(d)
  IN  /\ before >= 0
      /\ \A k \in 1..Len(d) : d[k].id = L[before + k].id /\ d[k].at = L[before + k].at
      /\ \A i \in 1..before : t - L[i].at >= DedupWindow \/ Len(L) - i >= DedupMaxIds
      /\ \A j, k \in 1..Len(d) : d[j].id = d[k].id => j = k
      /\ \A k \in 1..Len(d) : d[k].id \in DOMAIN b.dedup_state

Remembers(b, L, t) == Recalls(b, L, t) /\ Len(b.dedup) <= DedupMaxIds

PostsSince(L, a, s) == {j \in DOMAIN L : L[j].from = a /\ L[j].at >= s}

TimesSince(r, s) == {k \in DOMAIN r : r[k] >= s}

\* From every instant of the window on, the times kept of an agent are at least
\* as many as its posts.
Counts(b, L, t) ==
  \A a \in Agents, s \in Nat :
    s + RateWindow > t =>
      Cardinality(PostsSince(L, a, s)) <= Cardinality(TimesSince(b.rate[a], s))

\* The fields a box has, with the types the windows need.
Windows(b) ==
  /\ {"messages", "dedup", "dedup_state", "rate", "reserved_replies", "events"}
       \subseteq DOMAIN b
  /\ b.dedup \in Seq([at : Nat, id : Ids])
  /\ b.rate \in [Agents -> Seq(Nat)]

SameDedup(b, c) == c.dedup = b.dedup /\ DOMAIN c.dedup_state = DOMAIN b.dedup_state

\* The step from b to c leaves both windows alone.
SameWindows(b, c) == SameDedup(b, c) /\ c.rate = b.rate

LogInv ==
  /\ log \in Seq(LogEntries)
  /\ \A i \in 1..Len(log) : log[i].at <= now
  /\ Remembers(inbox, log, now)
  /\ Counts(inbox, log, now)
  /\ DedupHolds
  /\ RateHolds

LEMMA InvWindows == ASSUME Inv PROVE Windows(inbox)
BY DEF Inv, GoodBox, IsBox, Windows

LEMMA SameKeeps ==
  ASSUME NEW b, NEW c, NEW L, NEW t, SameWindows(b, c), Remembers(b, L, t), Counts(b, L, t)
  PROVE  Remembers(c, L, t) /\ Counts(c, L, t)
BY DEF SameWindows, SameDedup, Remembers, Recalls, Counts

LEMMA SameTransitive ==
  ASSUME NEW b, NEW c, NEW d, SameWindows(b, c), SameWindows(c, d)
  PROVE  SameWindows(b, d)
BY DEF SameWindows, SameDedup

\* The operators that change neither window.
LEMMA TransitionSame ==
  ASSUME NEW b, Windows(b), NEW changed
  PROVE  Windows(Transition(b, changed)) /\ SameWindows(b, Transition(b, changed))
BY DEF Windows, SameWindows, SameDedup, Transition

LEMMA ChangeSame ==
  ASSUME NEW b, Windows(b), NEW k, NEW m
  PROVE  Windows(Change(b, k, m)) /\ SameWindows(b, Change(b, k, m))
BY TransitionSame DEF Change

LEMMA InsertSame ==
  ASSUME NEW b, Windows(b), NEW new
  PROVE  Windows(Insert(b, new)) /\ SameWindows(b, Insert(b, new))
BY DEF Windows, SameWindows, SameDedup, Insert

LEMMA TrimSame ==
  ASSUME NEW b, Windows(b)
  PROVE  Windows(TrimHistory(b)) /\ SameWindows(b, TrimHistory(b))
BY DEF Windows, SameWindows, SameDedup, TrimHistory

LEMMA ReleasedSame ==
  ASSUME NEW b, Windows(b)
  PROVE  Windows(Released(b)) /\ SameWindows(b, Released(b))
BY DEF Windows, SameWindows, SameDedup, Released

LEMMA DrainedSame ==
  ASSUME Windows(inbox)
  PROVE  Windows(Drained) /\ SameWindows(inbox, Drained)
BY DEF Windows, SameWindows, SameDedup, Drained

LEMMA AssignmentsSame ==
  ASSUME NEW b, Windows(b), NEW k, NEW candidates, NEW c \in Assignments(b, k, candidates)
  PROVE  Windows(c) /\ SameWindows(b, c)
<1>1. SameWindows(b, b)
  BY DEF SameWindows, SameDedup
<1> QED BY <1>1, ChangeSame DEF Assignments

\* A sequence from some place on.
LEMMA SuffixIs ==
  ASSUME NEW S, NEW q \in Seq(S), NEW f \in 1..(Len(q) + 1)
  PROVE  LET r == SubSeq(q, f, Len(q))
         IN  r \in Seq(S) /\ Len(r) = Len(q) - f + 1 /\ \A k \in 1..Len(r) : r[k] = q[f + k - 1]
<1>1. SubSeq(q, f, Len(q)) \in Seq(S)
  BY SuffixType
<1> QED BY <1>1, SubSeqProperties

LEMMA ElementsOf ==
  ASSUME NEW S, NEW q \in Seq(S)
  PROVE  Len(q) \in Nat /\ DOMAIN q = 1..Len(q) /\ \A k \in 1..Len(q) : q[k] \in S
OBVIOUS

LEMMA WindowLimits == {DedupWindow, DedupMaxIds, RatePerMinute, RateWindow} \subseteq Nat \ {0}
BY InboxLimits

\* What has left the front of the memory, and why.
LEMMA ForgetFront ==
  ASSUME NEW b, NEW c, NEW L \in Seq(LogEntries), NEW t \in Nat, Windows(b), Recalls(b, L, t),
         NEW f \in 1..(Len(b.dedup) + 1), c.dedup = SubSeq(b.dedup, f, Len(b.dedup)),
         \A k \in 1..(f - 1) : \/ t - b.dedup[k].at >= DedupWindow
                               \/ Len(b.dedup) - k >= DedupMaxIds,
         \A i \in DOMAIN b.dedup_state :
           i \in DOMAIN c.dedup_state \/ \E k \in 1..(f - 1) : i = b.dedup[k].id
  PROVE  Recalls(c, L, t)
<1> DEFINE d == b.dedup
           e == c.dedup
           n == Len(L) - Len(d)
<1>1. /\ d \in Seq([at : Nat, id : Ids]) /\ Len(d) \in Nat /\ Len(L) \in Nat
      /\ f \in 1..(Len(d) + 1) /\ f \in Nat /\ DedupMaxIds \in Nat
  BY WindowLimits DEF Windows
<1>2. Len(e) = Len(d) - f + 1 /\ \A k \in 1..Len(e) : e[k] = d[f + k - 1]
  BY <1>1, SuffixIs
<1>3. /\ n >= 0
      /\ \A k \in 1..Len(d) : d[k].id = L[n + k].id /\ d[k].at = L[n + k].at
      /\ \A i \in 1..n : t - L[i].at >= DedupWindow \/ Len(L) - i >= DedupMaxIds
      /\ \A j, k \in 1..Len(d) : d[j].id = d[k].id => j = k
      /\ \A k \in 1..Len(d) : d[k].id \in DOMAIN b.dedup_state
  BY DEF Recalls
<1>4. \A k \in 1..(f - 1) : t - d[k].at >= DedupWindow \/ Len(d) - k >= DedupMaxIds
  OBVIOUS
<1>5. \A i \in DOMAIN b.dedup_state :
        i \in DOMAIN c.dedup_state \/ \E k \in 1..(f - 1) : i = d[k].id
  OBVIOUS
<1> HIDE DEF d, e
<1>6. Len(L) - Len(e) = n + f - 1 /\ n \in Nat /\ Len(e) \in Nat
  BY <1>1, <1>2, <1>3
<1>7. \A k \in 1..Len(e) : f + k - 1 \in 1..Len(d) /\ n + (f + k - 1) = (n + f - 1) + k
  BY <1>1, <1>2, <1>6
<1>8. \A k \in 1..Len(e) : e[k].id = L[(n + f - 1) + k].id /\ e[k].at = L[(n + f - 1) + k].at
  <2> SUFFICES ASSUME NEW k \in 1..Len(e)
               PROVE  e[k].id = L[(n + f - 1) + k].id /\ e[k].at = L[(n + f - 1) + k].at
    OBVIOUS
  <2> DEFINE x == f + k - 1
  <2>1. e[k] = d[x] /\ x \in 1..Len(d) /\ n + x = (n + f - 1) + k
    BY <1>2, <1>7
  <2> HIDE DEF x, n
  <2>2. d[x].id = L[n + x].id /\ d[x].at = L[n + x].at
    BY <1>3, <2>1
  <2> QED BY <2>1, <2>2
<1>9. ASSUME NEW i \in 1..(n + f - 1)
      PROVE  t - L[i].at >= DedupWindow \/ Len(L) - i >= DedupMaxIds
  <2>1. CASE i \in 1..n
    BY <1>3, <2>1
  <2>2. CASE i \notin 1..n
    <3>1. i - n \in 1..(f - 1) /\ i - n \in 1..Len(d) /\ n + (i - n) = i
      BY <1>1, <1>6, <2>2
    <3>2. Len(d) - (i - n) = Len(L) - i
      BY <1>1, <1>6
    <3> QED BY <1>3, <1>4, <3>1, <3>2
  <2> QED BY <2>1, <2>2
<1>10. ASSUME NEW j \in 1..Len(e), NEW k \in 1..Len(e), e[j].id = e[k].id PROVE j = k
  <2> DEFINE x == f + j - 1
             y == f + k - 1
  <2>1. e[j] = d[x] /\ x \in 1..Len(d) /\ e[k] = d[y] /\ y \in 1..Len(d)
    BY <1>2, <1>7
  <2> HIDE DEF x, y
  <2>2. x = y
    BY <1>3, <1>10, <2>1
  <2> USE DEF x, y
  <2> QED BY <1>1, <1>6, <2>2
<1>11. ASSUME NEW k \in 1..Len(e) PROVE e[k].id \in DOMAIN c.dedup_state
  <2>1. f + k - 1 \in 1..Len(d) /\ e[k] = d[f + k - 1]
    BY <1>2, <1>7
  <2>2. ASSUME NEW j \in 1..(f - 1), e[k].id = d[j].id PROVE FALSE
    <3>1. j \in 1..Len(d)
      BY <1>1
    <3>2. f + k - 1 = j
      BY <1>3, <2>1, <2>2, <3>1
    <3> QED BY <1>1, <1>6, <3>2
  <2> QED BY <1>3, <1>5, <2>1, <2>2
<1>12. n + f - 1 >= 0
  BY <1>1, <1>2, <1>3, <1>6
<1> QED BY <1>6, <1>8, <1>9, <1>10, <1>11, <1>12 DEF Recalls, e

\* expire_dedup
LEMMA ExpireDedupKeeps ==
  ASSUME NEW b, NEW L \in Seq(LogEntries), now \in Nat, Windows(b), Remembers(b, L, now)
  PROVE  /\ Windows(ExpireDedup(b)) /\ Remembers(ExpireDedup(b), L, now)
         /\ ExpireDedup(b).rate = b.rate
<1> DEFINE young == {i \in DOMAIN b.dedup : now - b.dedup[i].at < DedupWindow}
           f == IF young = {} THEN Len(b.dedup) + 1 ELSE Min(young)
           gone == {b.dedup[i].id : i \in 1..(f - 1)}
           dd == SubSeq(b.dedup, f, Len(b.dedup))
           ds == [i \in DOMAIN b.dedup_state \ gone |-> b.dedup_state[i]]
           c == [b EXCEPT !.dedup = dd, !.dedup_state = ds]
<1>1. b.dedup \in Seq([at : Nat, id : Ids]) /\ Len(b.dedup) \in Nat
      /\ DOMAIN b.dedup = 1..Len(b.dedup) /\ DedupWindow \in Nat
      /\ \A k \in 1..Len(b.dedup) : b.dedup[k].at \in Nat
  <2>1. b.dedup \in Seq([at : Nat, id : Ids]) /\ DedupWindow \in Nat
    BY WindowLimits DEF Windows
  <2>2. Len(b.dedup) \in Nat /\ DOMAIN b.dedup = 1..Len(b.dedup)
        /\ \A k \in 1..Len(b.dedup) : b.dedup[k] \in [at : Nat, id : Ids]
    BY <2>1, ElementsOf
  <2> QED BY <2>1, <2>2
<1>2. f \in 1..(Len(b.dedup) + 1) /\ \A k \in 1..(f - 1) : k \notin young
  <2>1. young \subseteq Nat /\ \A k \in young : k \in 1..Len(b.dedup)
    BY <1>1
  <2> HIDE DEF young
  <2>2. CASE young = {}
    BY <1>1, <2>2
  <2>3. CASE young # {}
    <3>1. Min(young) \in young /\ \A k \in young : Min(young) <= k
      BY <2>1, <2>3, MinNat
    <3>2. f = Min(young) /\ f \in 1..Len(b.dedup)
      BY <2>1, <2>3, <3>1
    <3> QED BY <1>1, <2>1, <3>1, <3>2
  <2> QED BY <2>2, <2>3
<1> HIDE DEF f
<1>3. \A k \in 1..(f - 1) : now - b.dedup[k].at >= DedupWindow
  <2> SUFFICES ASSUME NEW k \in 1..(f - 1) PROVE now - b.dedup[k].at >= DedupWindow
    OBVIOUS
  <2>1. k \in 1..Len(b.dedup) /\ k \notin young
    BY <1>1, <1>2
  <2>2. ~(now - b.dedup[k].at < DedupWindow) /\ b.dedup[k].at \in Nat
    BY <1>1, <2>1
  <2> QED BY <1>1, <2>2
<1>4. \A i \in DOMAIN b.dedup_state : i \in DOMAIN ds \/ \E k \in 1..(f - 1) : i = b.dedup[k].id
  OBVIOUS
<1>5. dd \in Seq([at : Nat, id : Ids])
  BY <1>1, <1>2, SuffixIs
<1>6. c = ExpireDedup(b)
  BY DEF ExpireDedup, f
<1> HIDE DEF ds
<1>7. c.dedup = dd /\ c.dedup_state = ds /\ c.rate = b.rate /\ Windows(c)
  <2> HIDE DEF dd
  <2> QED BY <1>5 DEF Windows
<1> HIDE DEF c
<1>8. Recalls(c, L, now)
  BY <1>2, <1>3, <1>4, <1>7, ForgetFront DEF Remembers
<1>9. Len(c.dedup) <= Len(b.dedup) /\ Len(c.dedup) \in Nat /\ Len(b.dedup) <= DedupMaxIds
  BY <1>1, <1>2, <1>7, SuffixIs DEF Remembers
<1>10. Len(c.dedup) <= DedupMaxIds
  BY <1>1, <1>9, WindowLimits
<1> QED BY <1>6, <1>7, <1>8, <1>10 DEF Remembers

\* register_id: the new id is remembered, and the oldest over the cap is not.
LEMMA RegisterIdKeeps ==
  ASSUME NEW b, NEW L \in Seq(LogEntries), now \in Nat, Windows(b), Remembers(b, L, now),
         NEW id \in Ids, id \notin DOMAIN b.dedup_state, NEW from \in Agents \cup {Unbound}
  PROVE  /\ Windows(RegisterId(b, id))
         /\ Remembers(RegisterId(b, id), Append(L, [at |-> now, id |-> id, from |-> from]), now)
         /\ RegisterId(b, id).rate = b.rate
<1> DEFINE S == [at : Nat, id : Ids]
           d == b.dedup
           one == [at |-> now, id |-> id]
           longer == Append(d, one)
           post == [at |-> now, id |-> id, from |-> from]
           M == Append(L, post)
           over == IF Len(longer) > DedupMaxIds THEN Len(longer) - DedupMaxIds ELSE 0
           gone == {longer[i].id : i \in 1..over}
           dd == SubSeq(longer, over + 1, Len(longer))
           ds == [i \in (DOMAIN b.dedup_state \cup {id}) \ gone |->
                    IF i = id THEN "Queued" ELSE b.dedup_state[i]]
           all == [i \in DOMAIN b.dedup_state \cup {id} |-> "Queued"]
           c == [b EXCEPT !.dedup = dd, !.dedup_state = ds]
           big == [b EXCEPT !.dedup = longer, !.dedup_state = all]
           n == Len(L) - Len(d)
<1>1. /\ d \in Seq(S) /\ Len(d) \in Nat /\ Len(L) \in Nat /\ DedupMaxIds \in Nat \ {0}
      /\ one \in S /\ post \in LogEntries
  BY WindowLimits DEF Windows, LogEntries
<1>2. /\ M \in Seq(LogEntries) /\ Len(M) = Len(L) + 1 /\ M[Len(L) + 1] = post
      /\ \A i \in 1..Len(L) : M[i] = L[i]
  BY <1>1, AppendProperties
<1>3. /\ longer \in Seq(S) /\ Len(longer) = Len(d) + 1 /\ longer[Len(d) + 1] = one
      /\ \A i \in 1..Len(d) : longer[i] = d[i]
  BY <1>1, AppendProperties
<1>4. /\ n >= 0 /\ Len(d) <= DedupMaxIds
      /\ \A k \in 1..Len(d) : d[k].id = L[n + k].id /\ d[k].at = L[n + k].at
      /\ \A i \in 1..n : now - L[i].at >= DedupWindow \/ Len(L) - i >= DedupMaxIds
      /\ \A j, k \in 1..Len(d) : d[j].id = d[k].id => j = k
      /\ \A k \in 1..Len(d) : d[k].id \in DOMAIN b.dedup_state
  BY DEF Remembers, Recalls
<1>5. one.id = id /\ one.at = now /\ post.id = id /\ post.at = now
  OBVIOUS
<1>6. c = RegisterId(b, id)
  BY DEF RegisterId
<1>7. big.dedup = longer /\ DOMAIN big.dedup_state = DOMAIN b.dedup_state \cup {id}
  BY DEF Windows
<1>8. Windows(big)
  BY <1>3 DEF Windows
<1> HIDE DEF longer, M, one, post, d, big
<1>9. n \in Nat /\ Len(M) - Len(longer) = n /\ n <= Len(L) /\ n + Len(d) = Len(L)
  BY <1>1, <1>2, <1>3, <1>4
<1>10. ASSUME NEW k \in 1..(Len(d) + 1)
       PROVE  longer[k].id = M[n + k].id /\ longer[k].at = M[n + k].at
  <2>1. CASE k \in 1..Len(d)
    <3>1. n + k \in 1..Len(L)
      BY <1>1, <1>9, <2>1
    <3> HIDE DEF n
    <3> QED BY <1>2, <1>3, <1>4, <2>1, <3>1
  <2>2. CASE k = Len(d) + 1
    <3>1. n + k = Len(L) + 1
      BY <1>1, <1>9, <2>2
    <3> QED BY <1>2, <1>3, <1>5, <2>2, <3>1
  <2> QED BY <1>1, <2>1, <2>2
<1>11. ASSUME NEW i \in 1..n
       PROVE  now - M[i].at >= DedupWindow \/ Len(M) - i >= DedupMaxIds
  <2>1. M[i] = L[i] /\ i \in Nat
    BY <1>1, <1>2, <1>9
  <2>2. Len(L) - i >= DedupMaxIds => Len(M) - i >= DedupMaxIds
    BY <1>1, <1>2, <2>1
  <2> QED BY <1>4, <2>1, <2>2
<1>12. ASSUME NEW j \in 1..(Len(d) + 1), NEW k \in 1..(Len(d) + 1), longer[j].id = longer[k].id
       PROVE  j = k
  <2>1. ASSUME NEW i \in 1..Len(d) PROVE longer[i].id # id
    <3>1. d[i].id \in DOMAIN b.dedup_state /\ longer[i] = d[i]
      BY <1>3, <1>4
    <3> QED BY <3>1
  <2>2. (j \in 1..Len(d) \/ j = Len(d) + 1) /\ (k \in 1..Len(d) \/ k = Len(d) + 1)
    BY <1>1
  <2> QED BY <1>3, <1>4, <1>5, <1>12, <2>1, <2>2
<1>13. ASSUME NEW k \in 1..(Len(d) + 1) PROVE longer[k].id \in DOMAIN b.dedup_state \cup {id}
  <2>1. k \in 1..Len(d) \/ k = Len(d) + 1
    BY <1>1
  <2> QED BY <1>3, <1>4, <1>5, <2>1
<1>14. Recalls(big, M, now)
  <2>1. Len(longer) = Len(d) + 1 /\ Len(M) - Len(longer) = n /\ n >= 0
    BY <1>3, <1>9
  <2>2. \A k \in 1..Len(longer) : longer[k].id = M[n + k].id /\ longer[k].at = M[n + k].at
    BY <1>10, <2>1
  <2>3. \A j, k \in 1..Len(longer) : longer[j].id = longer[k].id => j = k
    BY <1>12, <2>1
  <2>4. \A k \in 1..Len(longer) : longer[k].id \in DOMAIN big.dedup_state
    BY <1>7, <1>13, <2>1
  <2> HIDE DEF n
  <2> QED BY <1>7, <1>11, <2>1, <2>2, <2>3, <2>4 DEF Recalls
<1>15. /\ over + 1 \in 1..(Len(longer) + 1) /\ over \in Nat
       /\ \A k \in 1..over : Len(longer) - k >= DedupMaxIds
       /\ Len(longer) - over <= DedupMaxIds
  BY <1>1, <1>3, <1>4
<1> HIDE DEF over
<1>16. \A i \in DOMAIN b.dedup_state \cup {id} :
         i \in DOMAIN ds \/ \E k \in 1..over : i = longer[k].id
  OBVIOUS
<1>17. dd \in Seq(S) /\ Len(dd) = Len(longer) - over
  <2>1. dd \in Seq(S) /\ Len(dd) = Len(longer) - (over + 1) + 1
    BY <1>3, <1>15, SuffixIs
  <2> QED BY <1>1, <1>3, <1>15, <2>1
<1> HIDE DEF ds
<1>18. c.dedup = dd /\ c.dedup_state = ds /\ c.rate = b.rate /\ Windows(c)
  <2> HIDE DEF dd
  <2> QED BY <1>17 DEF Windows
<1> HIDE DEF c
<1>19. Recalls(c, M, now)
  <2>1. (over + 1) - 1 = over
    BY <1>15
  <2> DEFINE f == over + 1
  <2>2. f \in 1..(Len(big.dedup) + 1) /\ c.dedup = SubSeq(big.dedup, f, Len(big.dedup))
    BY <1>7, <1>15, <1>18
  <2>3. \A k \in 1..(f - 1) : \/ now - big.dedup[k].at >= DedupWindow
                              \/ Len(big.dedup) - k >= DedupMaxIds
    BY <1>7, <1>15, <2>1
  <2>4. \A i \in DOMAIN big.dedup_state :
          i \in DOMAIN c.dedup_state \/ \E k \in 1..(f - 1) : i = big.dedup[k].id
    BY <1>7, <1>16, <1>18, <2>1
  <2> HIDE DEF f
  <2> QED BY <1>2, <1>8, <1>14, <2>2, <2>3, <2>4, ForgetFront
<1> QED BY <1>6, <1>15, <1>17, <1>18, <1>19 DEF Remembers, M, post

\* Counting the posts of a log, and the times kept of an agent.
LEMMA SinceFinite ==
  /\ \A L \in Seq(LogEntries) : \A a, s :
       IsFiniteSet(PostsSince(L, a, s)) /\ Cardinality(PostsSince(L, a, s)) \in Nat
  /\ \A r \in Seq(Nat) : \A s :
       IsFiniteSet(TimesSince(r, s)) /\ Cardinality(TimesSince(r, s)) \in Nat
<1>1. ASSUME NEW L \in Seq(LogEntries), NEW a, NEW s
      PROVE  IsFiniteSet(PostsSince(L, a, s)) /\ Cardinality(PostsSince(L, a, s)) \in Nat
  <2>1. Len(L) \in Nat /\ DOMAIN L = 1..Len(L)
    BY ElementsOf
  <2>2. IsFiniteSet(1..Len(L)) /\ PostsSince(L, a, s) \subseteq 1..Len(L)
    BY <2>1, FS_Interval DEF PostsSince
  <2> QED BY <2>2, FS_Subset, FS_CardinalityType
<1>2. ASSUME NEW r \in Seq(Nat), NEW s
      PROVE  IsFiniteSet(TimesSince(r, s)) /\ Cardinality(TimesSince(r, s)) \in Nat
  <2>1. Len(r) \in Nat /\ DOMAIN r = 1..Len(r)
    BY ElementsOf
  <2>2. IsFiniteSet(1..Len(r)) /\ TimesSince(r, s) \subseteq 1..Len(r)
    BY <2>1, FS_Interval DEF TimesSince
  <2> QED BY <2>2, FS_Subset, FS_CardinalityType
<1> QED BY <1>1, <1>2

\* One more post.
LEMMA PostsLonger ==
  ASSUME NEW L \in Seq(LogEntries), NEW post \in LogEntries, NEW a, NEW s \in Nat
  PROVE  PostsSince(Append(L, post), a, s) =
           IF post.from = a /\ post.at >= s THEN PostsSince(L, a, s) \cup {Len(L) + 1}
           ELSE PostsSince(L, a, s)
<1> DEFINE M == Append(L, post)
<1>1. Len(L) \in Nat /\ DOMAIN L = 1..Len(L)
  BY ElementsOf
<1>2. /\ DOMAIN M = 1..(Len(L) + 1) /\ M[Len(L) + 1] = post
      /\ \A i \in 1..Len(L) : M[i] = L[i]
  BY AppendProperties
<1> HIDE DEF M
<1>3. \A j : j \in DOMAIN M <=> j \in DOMAIN L \/ j = Len(L) + 1
  BY <1>1, <1>2
<1>4. PostsSince(M, a, s) =
        IF post.from = a /\ post.at >= s THEN PostsSince(L, a, s) \cup {Len(L) + 1}
        ELSE PostsSince(L, a, s)
  BY <1>1, <1>2, <1>3 DEF PostsSince
<1> QED BY <1>4 DEF M

LEMMA TimesLonger ==
  ASSUME NEW r \in Seq(Nat), NEW t \in Nat, NEW s \in Nat
  PROVE  TimesSince(Append(r, t), s) =
           IF t >= s THEN TimesSince(r, s) \cup {Len(r) + 1} ELSE TimesSince(r, s)
<1> DEFINE q == Append(r, t)
<1>1. Len(r) \in Nat /\ DOMAIN r = 1..Len(r)
  BY ElementsOf
<1>2. /\ DOMAIN q = 1..(Len(r) + 1) /\ q[Len(r) + 1] = t
      /\ \A i \in 1..Len(r) : q[i] = r[i]
  BY AppendProperties
<1> HIDE DEF q
<1>3. \A j : j \in DOMAIN q <=> j \in DOMAIN r \/ j = Len(r) + 1
  BY <1>1, <1>2
<1>4. TimesSince(q, s) = IF t >= s THEN TimesSince(r, s) \cup {Len(r) + 1} ELSE TimesSince(r, s)
  BY <1>1, <1>2, <1>3 DEF TimesSince
<1> QED BY <1>4 DEF q

\* record_rate: a post that counts against its sender's quota.
LEMMA RecordKeeps ==
  ASSUME NEW b, NEW c, NEW L \in Seq(LogEntries), now \in Nat, Windows(b), Counts(b, L, now),
         NEW from \in Agents, c.rate = [b.rate EXCEPT ![from] = Append(@, now)], NEW id \in Ids
  PROVE  Counts(c, Append(L, [at |-> now, id |-> id, from |-> from]), now)
<1> DEFINE post == [at |-> now, id |-> id, from |-> from]
           M == Append(L, post)
<1> SUFFICES ASSUME NEW a \in Agents, NEW s \in Nat, s + RateWindow > now
             PROVE  Cardinality(PostsSince(M, a, s)) <= Cardinality(TimesSince(c.rate[a], s))
  BY DEF Counts
<1> DEFINE P == PostsSince(L, a, s)
           T == TimesSince(b.rate[a], s)
<1>1. post \in LogEntries /\ post.from = from /\ post.at = now
  BY DEF LogEntries
<1>2. b.rate[a] \in Seq(Nat) /\ c.rate[a] = IF a = from THEN Append(b.rate[a], now) ELSE b.rate[a]
  BY DEF Windows
<1>3. /\ Cardinality(P) <= Cardinality(T) /\ IsFiniteSet(P) /\ IsFiniteSet(T)
      /\ Cardinality(P) \in Nat /\ Cardinality(T) \in Nat
  BY <1>2, SinceFinite DEF Counts
<1> HIDE DEF post
<1>4. CASE a = from /\ now >= s
  <2>1. PostsSince(M, a, s) = P \cup {Len(L) + 1}
    <3>1. post.from = a /\ post.at >= s
      BY <1>1, <1>4
    <3> QED BY <1>1, <3>1, PostsLonger
  <2>2. TimesSince(c.rate[a], s) = T \cup {Len(b.rate[a]) + 1}
    BY <1>2, <1>4, TimesLonger
  <2>3. Len(b.rate[a]) + 1 \notin T
    BY <1>2, ElementsOf DEF TimesSince
  <2> DEFINE x == Len(L) + 1
             y == Len(b.rate[a]) + 1
  <2> HIDE DEF P, T, x, y
  <2>4. Cardinality(P \cup {x}) \in {Cardinality(P), Cardinality(P) + 1}
    BY <1>3, FS_AddElement
  <2>5. Cardinality(T \cup {y}) = Cardinality(T) + 1
    BY <1>3, <2>3, FS_AddElement DEF y
  <2>6. Cardinality(P \cup {x}) <= Cardinality(T \cup {y})
    BY <1>3, <2>4, <2>5
  <2> QED BY <2>1, <2>2, <2>6 DEF x, y
<1>5. CASE ~(a = from /\ now >= s)
  <2>1. PostsSince(M, a, s) = P
    BY <1>1, <1>5, PostsLonger
  <2>2. TimesSince(c.rate[a], s) = T
    BY <1>2, <1>5, TimesLonger
  <2> QED BY <1>3, <2>1, <2>2
<1> QED BY <1>4, <1>5

\* A post of the deck counts against no quota.
LEMMA DeckKeeps ==
  ASSUME NEW b, NEW c, NEW L \in Seq(LogEntries), now \in Nat, Counts(b, L, now),
         c.rate = b.rate, NEW id \in Ids
  PROVE  Counts(c, Append(L, [at |-> now, id |-> id, from |-> Unbound]), now)
<1> DEFINE post == [at |-> now, id |-> id, from |-> Unbound]
<1>1. post \in LogEntries /\ post.from \notin Agents
  BY InboxConstants DEF LogEntries
<1> HIDE DEF post
<1>2. ASSUME NEW a \in Agents, NEW s \in Nat
      PROVE  PostsSince(Append(L, post), a, s) = PostsSince(L, a, s)
  BY <1>1, PostsLonger
<1> QED BY <1>2 DEF Counts, post

\* Times that are all in what is left of a sequence.
LEMMA SuffixTimes ==
  ASSUME NEW r \in Seq(Nat), NEW s \in Nat, NEW m \in 1..Len(r),
         \A k \in TimesSince(r, s) : m <= k
  PROVE  Cardinality(TimesSince(r, s)) <= Cardinality(TimesSince(SubSeq(r, m, Len(r)), s))
<1> DEFINE q == SubSeq(r, m, Len(r))
           A == TimesSince(r, s)
           B == TimesSince(q, s)
<1>1. Len(r) \in Nat /\ DOMAIN r = 1..Len(r) /\ \A k \in 1..Len(r) : r[k] \in Nat
  BY ElementsOf
<1>2. m \in Nat /\ 1 <= m /\ m <= Len(r) /\ m \in 1..(Len(r) + 1)
  BY <1>1
<1>3. q \in Seq(Nat) /\ Len(q) = Len(r) - m + 1 /\ \A k \in 1..Len(q) : q[k] = r[m + k - 1]
  BY <1>2, SuffixIs
<1> HIDE DEF q
<1>4. DOMAIN q = 1..Len(q) /\ Len(q) \in Nat
  BY <1>3, ElementsOf
<1>5. IsFiniteSet(B) /\ Cardinality(B) \in Nat
  BY <1>3, SinceFinite
<1>6. ASSUME NEW k \in A PROVE k \in Nat /\ m <= k /\ k <= Len(r) /\ r[k] >= s
  BY <1>1 DEF TimesSince
<1>7. ASSUME NEW k \in A PROVE k - m + 1 \in B
  <2> DEFINE x == k - m + 1
  <2>1. x \in 1..Len(q) /\ m + x - 1 = k
    BY <1>1, <1>2, <1>3, <1>6
  <2> HIDE DEF x
  <2>2. q[x] = r[k]
    BY <1>3, <2>1
  <2>3. x \in DOMAIN q /\ q[x] >= s
    BY <1>4, <1>6, <2>1, <2>2
  <2>4. x \in B
    BY <2>3 DEF TimesSince
  <2> QED BY <2>4 DEF x
<1> DEFINE g == [k \in A |-> k - m + 1]
<1> HIDE DEF A, B
<1>8. g \in [A -> B]
  BY <1>7
<1>9. ASSUME NEW j \in A, NEW k \in A, g[j] = g[k] PROVE j = k
  BY <1>2, <1>6, <1>9
<1>10. g \in Injection(A, B)
  BY <1>8, <1>9 DEF Injection, IsInjective
<1> HIDE DEF g
<1>11. Cardinality(A) <= Cardinality(B)
  BY <1>5, <1>10, FS_Injection
<1> QED BY <1>11 DEF A, B, q

\* What the pruning of tick leaves of an agent's times.
LEMMA PrunedTimes ==
  ASSUME NEW r \in Seq(Nat), now \in Nat, NEW s \in Nat, s + RateWindow > now
  PROVE  LET young == {i \in DOMAIN r : now - r[i] < RateWindow}
             q == IF young = {} THEN <<>> ELSE SubSeq(r, Min(young), Len(r))
         IN  Cardinality(TimesSince(r, s)) <= Cardinality(TimesSince(q, s))
<1> DEFINE young == {i \in DOMAIN r : now - r[i] < RateWindow}
           q == IF young = {} THEN <<>> ELSE SubSeq(r, Min(young), Len(r))
<1>1. Len(r) \in Nat /\ DOMAIN r = 1..Len(r) /\ \A k \in 1..Len(r) : r[k] \in Nat
  BY ElementsOf
<1>2. \A k \in TimesSince(r, s) : k \in young
  BY <1>1, WindowLimits DEF TimesSince
<1>3. young \subseteq Nat /\ \A k \in young : k \in 1..Len(r)
  BY <1>1
<1> HIDE DEF young
<1>4. CASE young = {}
  <2>1. TimesSince(r, s) = {} /\ TimesSince(<<>>, s) = {}
    BY <1>2, <1>4 DEF TimesSince
  <2>2. q = <<>>
    BY <1>4
  <2>3. Cardinality(TimesSince(r, s)) = 0 /\ Cardinality(TimesSince(q, s)) = 0
    BY <2>1, <2>2, FS_EmptySet
  <2> QED BY <2>3 DEF young
<1>5. CASE young # {}
  <2> DEFINE m == Min(young)
  <2>1. q = SubSeq(r, m, Len(r))
    BY <1>5
  <2>2. m \in young /\ \A k \in young : m <= k
    BY <1>3, <1>5, MinNat
  <2> HIDE DEF m
  <2>3. m \in 1..Len(r) /\ \A k \in TimesSince(r, s) : m <= k
    BY <1>2, <1>3, <2>2
  <2>4. Cardinality(TimesSince(r, s)) <= Cardinality(TimesSince(q, s))
    BY <2>1, <2>3, SuffixTimes
  <2> QED BY <2>4 DEF young
<1> QED BY <1>4, <1>5

LEMMA PruneRateKeeps ==
  ASSUME NEW b, NEW L \in Seq(LogEntries), now \in Nat, Windows(b), Counts(b, L, now)
  PROVE  /\ Windows(PruneRate(b)) /\ Counts(PruneRate(b), L, now)
         /\ SameDedup(b, PruneRate(b))
<1> DEFINE young(a) == {i \in DOMAIN b.rate[a] : now - b.rate[a][i] < RateWindow}
           left(a) == IF young(a) = {} THEN <<>>
                      ELSE SubSeq(b.rate[a], Min(young(a)), Len(b.rate[a]))
           rt == [a \in Agents |-> left(a)]
           c == [b EXCEPT !.rate = rt]
<1>1. ASSUME NEW a \in Agents PROVE left(a) \in Seq(Nat) /\ b.rate[a] \in Seq(Nat)
  <2>1. b.rate[a] \in Seq(Nat)
    BY DEF Windows
  <2>2. young(a) \subseteq Nat /\ \A i \in young(a) : i >= 1
    BY <2>1, ElementsOf
  <2> HIDE DEF young
  <2>3. CASE young(a) = {}
    BY <2>1, <2>3
  <2>4. CASE young(a) # {}
    <3>1. Min(young(a)) \in young(a)
      BY <2>2, <2>4, MinNat
    <3> QED BY <2>1, <2>2, <2>4, <3>1, SuffixType
  <2> QED BY <2>3, <2>4
<1>2. c = PruneRate(b)
  BY DEF PruneRate
<1>3. ASSUME NEW a \in Agents, NEW s \in Nat, s + RateWindow > now
      PROVE  Cardinality(TimesSince(b.rate[a], s)) <= Cardinality(TimesSince(left(a), s))
  BY <1>1, <1>3, PrunedTimes
<1> HIDE DEF left
<1>4. rt \in [Agents -> Seq(Nat)] /\ \A a \in Agents : rt[a] = left(a)
  BY <1>1
<1> HIDE DEF rt
<1>5. c.rate = rt /\ Windows(c) /\ SameDedup(b, c)
  BY <1>4 DEF Windows, SameDedup
<1> HIDE DEF c
<1>6. ASSUME NEW a \in Agents, NEW s \in Nat, s + RateWindow > now
      PROVE  Cardinality(PostsSince(L, a, s)) <= Cardinality(TimesSince(c.rate[a], s))
  <2>1. Cardinality(PostsSince(L, a, s)) <= Cardinality(TimesSince(b.rate[a], s))
    BY <1>6 DEF Counts
  <2>2. c.rate[a] = left(a)
    BY <1>4, <1>5
  <2>3. /\ Cardinality(PostsSince(L, a, s)) \in Nat /\ Cardinality(TimesSince(b.rate[a], s)) \in Nat
        /\ Cardinality(TimesSince(left(a), s)) \in Nat
    BY <1>1, SinceFinite
  <2>4. Cardinality(TimesSince(b.rate[a], s)) <= Cardinality(TimesSince(left(a), s))
    BY <1>3, <1>6
  <2> QED BY <2>1, <2>2, <2>3, <2>4
<1>7. Counts(c, L, now)
  BY <1>6 DEF Counts
<1> QED BY <1>2, <1>5, <1>7

\* Time only takes posts out of the windows.
LEMMA LaterKeeps ==
  ASSUME NEW b, NEW L \in Seq(LogEntries), NEW t \in Nat, Windows(b),
         Remembers(b, L, t), Counts(b, L, t)
  PROVE  Remembers(b, L, t + 1) /\ Counts(b, L, t + 1)
<1>1. Counts(b, L, t + 1)
  BY WindowLimits DEF Counts
<1>2. Len(b.dedup) \in Nat /\ Len(L) \in Nat /\ DedupWindow \in Nat
  BY ElementsOf, WindowLimits DEF Windows
<1>3. ASSUME NEW i \in 1..(Len(L) - Len(b.dedup)), t - L[i].at >= DedupWindow
      PROVE  (t + 1) - L[i].at >= DedupWindow
  <2>1. i \in 1..Len(L)
    BY <1>2
  <2>2. L[i].at \in Nat
    <3>1. L[i] \in LogEntries
      BY <2>1, ElementsOf
    <3> QED BY <3>1 DEF LogEntries
  <2> QED BY <1>2, <1>3, <2>2
<1>4. Recalls(b, L, t + 1)
  <2>1. \A i \in 1..(Len(L) - Len(b.dedup)) :
          (t + 1) - L[i].at >= DedupWindow \/ Len(L) - i >= DedupMaxIds
    BY <1>3 DEF Remembers, Recalls
  <2> DEFINE n == Len(L) - Len(b.dedup)
  <2>2. /\ n >= 0
        /\ \A k \in 1..Len(b.dedup) : b.dedup[k].id = L[n + k].id /\ b.dedup[k].at = L[n + k].at
        /\ \A j, k \in 1..Len(b.dedup) : b.dedup[j].id = b.dedup[k].id => j = k
        /\ \A k \in 1..Len(b.dedup) : b.dedup[k].id \in DOMAIN b.dedup_state
    BY DEF Remembers, Recalls
  <2> QED BY <2>1, <2>2 DEF Recalls
<1> QED BY <1>1, <1>4 DEF Remembers

\* The two properties, of any log.
DedupHeld(L) ==
  \A i, j \in 1..Len(L) :
    i < j /\ L[i].id = L[j].id => L[j].at - L[i].at >= DedupWindow \/ j - i > DedupMaxIds

\* The posts of an agent in the window that starts at t
InWindow(L, a, t) == {j \in 1..Len(L) : L[j].from = a /\ L[j].at \in t..(t + RateWindow - 1)}

RateHeld(L) ==
  \A i \in 1..Len(L) :
    L[i].from \in Agents => Cardinality(InWindow(L, L[i].from, L[i].at)) <= RatePerMinute

LEMMA HeldHolds ==
  ASSUME log \in Seq(LogEntries)
  PROVE  (DedupHolds <=> DedupHeld(log)) /\ (RateHolds <=> RateHeld(log))
<1>1. DOMAIN log = 1..Len(log)
  BY ElementsOf
<1> QED BY <1>1 DEF DedupHolds, DedupHeld, RateHolds, RateHeld, InWindow

LEMMA Longer ==
  ASSUME NEW L \in Seq(LogEntries), NEW post \in LogEntries
  PROVE  /\ Append(L, post) \in Seq(LogEntries)
         /\ Len(L) \in Nat /\ Len(Append(L, post)) = Len(L) + 1
         /\ Append(L, post)[Len(L) + 1] = post
         /\ \A i \in 1..Len(L) : Append(L, post)[i] = L[i] /\ L[i] \in LogEntries
         /\ \A i \in 1..(Len(L) + 1) : i \in 1..Len(L) \/ i = Len(L) + 1
<1>1. Len(L) \in Nat /\ \A i \in 1..Len(L) : L[i] \in LogEntries
  BY ElementsOf
<1> QED BY <1>1, AppendProperties

\* An id that check_id lets in was not accepted within the window and the cap.
LEMMA DedupStep ==
  ASSUME NEW b, NEW L \in Seq(LogEntries), now \in Nat, Windows(b), Remembers(b, L, now),
         NEW post \in LogEntries, post.at = now, post.id \notin DOMAIN b.dedup_state, DedupHeld(L)
  PROVE  DedupHeld(Append(L, post))
<1> DEFINE M == Append(L, post)
           n == Len(L) - Len(b.dedup)
<1>1. /\ Len(L) \in Nat /\ Len(M) = Len(L) + 1 /\ M[Len(L) + 1] = post
      /\ \A i \in 1..Len(L) : M[i] = L[i] /\ L[i] \in LogEntries
      /\ \A i \in 1..(Len(L) + 1) : i \in 1..Len(L) \/ i = Len(L) + 1
  BY Longer
<1> HIDE DEF M
<1>2. /\ n >= 0 /\ Len(b.dedup) \in Nat /\ DedupMaxIds \in Nat
      /\ \A k \in 1..Len(b.dedup) : b.dedup[k].id = L[n + k].id
      /\ \A i \in 1..n : now - L[i].at >= DedupWindow \/ Len(L) - i >= DedupMaxIds
      /\ \A k \in 1..Len(b.dedup) : b.dedup[k].id \in DOMAIN b.dedup_state
  BY ElementsOf, WindowLimits DEF Windows, Remembers, Recalls
<1>3. ASSUME NEW i \in 1..Len(L), L[i].id = post.id
      PROVE  now - L[i].at >= DedupWindow \/ Len(L) + 1 - i > DedupMaxIds
  <2>1. i \in 1..n
    <3>1. SUFFICES ASSUME i \notin 1..n PROVE FALSE
      OBVIOUS
    <3> DEFINE k == i - n
    <3>2. k \in 1..Len(b.dedup) /\ n + k = i
      <4> DEFINE x == Len(L)
                 y == Len(b.dedup)
      <4>1. x \in Nat /\ y \in Nat /\ n = x - y /\ n >= 0 /\ i \in Nat /\ 1 <= i /\ i <= x
        BY <1>1, <1>2
      <4> HIDE DEF x, y, n
      <4>2. n \in Int /\ i > n
        BY <3>1, <4>1
      <4>3. k \in 1..y /\ n + k = i
        BY <4>1, <4>2
      <4> QED BY <4>3 DEF y
    <3> HIDE DEF k
    <3>3. b.dedup[k].id = L[n + k].id
      BY <1>2, <3>2
    <3>4. b.dedup[k].id \in DOMAIN b.dedup_state
      BY <1>2, <3>2
    <3> QED BY <1>3, <3>2, <3>3, <3>4
  <2>2. Len(L) - i >= DedupMaxIds => Len(L) + 1 - i > DedupMaxIds
    BY <1>1, <1>2
  <2> QED BY <1>2, <2>1, <2>2
<1>4. ASSUME NEW i \in 1..(Len(L) + 1), NEW j \in 1..(Len(L) + 1), i < j, M[i].id = M[j].id
      PROVE  M[j].at - M[i].at >= DedupWindow \/ j - i > DedupMaxIds
  <2>1. i \in 1..Len(L)
    BY <1>1, <1>4
  <2>2. CASE j \in 1..Len(L)
    <3>1. M[i] = L[i] /\ M[j] = L[j]
      BY <1>1, <2>1, <2>2
    <3> QED BY <1>4, <2>1, <2>2, <3>1 DEF DedupHeld
  <2>3. CASE j = Len(L) + 1
    <3>1. M[i] = L[i] /\ M[j] = post
      BY <1>1, <2>1, <2>3
    <3> QED BY <1>3, <1>4, <2>1, <2>3, <3>1
  <2> QED BY <1>1, <2>2, <2>3
<1>5. DedupHeld(M)
  BY <1>1, <1>4 DEF DedupHeld
<1> QED BY <1>5 DEF M

\* A post of the deck is in no agent's window.
LEMMA DeckStep ==
  ASSUME NEW L \in Seq(LogEntries), NEW post \in LogEntries, post.from \notin Agents, RateHeld(L)
  PROVE  RateHeld(Append(L, post))
<1> DEFINE M == Append(L, post)
<1>1. /\ Len(L) \in Nat /\ Len(M) = Len(L) + 1 /\ M[Len(L) + 1] = post
      /\ \A i \in 1..Len(L) : M[i] = L[i]
      /\ \A i \in 1..(Len(L) + 1) : i \in 1..Len(L) \/ i = Len(L) + 1
  BY Longer
<1> HIDE DEF M
<1>2. ASSUME NEW i \in 1..(Len(L) + 1), M[i].from \in Agents
      PROVE  Cardinality(InWindow(M, M[i].from, M[i].at)) <= RatePerMinute
  <2>1. i \in 1..Len(L) /\ M[i] = L[i]
    BY <1>1, <1>2
  <2>2. \A j : j \in 1..Len(L) => j \in 1..(Len(L) + 1)
    BY <1>1
  <2>3. ASSUME NEW t PROVE InWindow(M, L[i].from, t) = InWindow(L, L[i].from, t)
    BY <1>1, <1>2, <2>1, <2>2 DEF InWindow
  <2> QED BY <1>2, <2>1, <2>3 DEF RateHeld
<1>3. RateHeld(M)
  BY <1>1, <1>2 DEF RateHeld
<1> QED BY <1>3 DEF M

\* What check_rate counts.
LEMMA CheckedCount ==
  ASSUME NEW b, NEW L \in Seq(LogEntries), now \in Nat, Windows(b), Counts(b, L, now),
         NEW a \in Agents, CheckRate(b, a),
         NEW s \in Nat, s + RateWindow > now
  PROVE  Cardinality(PostsSince(L, a, s)) + 1 <= RatePerMinute
<1> DEFINE r == b.rate[a]
           Y == {i \in DOMAIN r : now - r[i] < RateWindow}
<1>1. r \in Seq(Nat) /\ Len(r) \in Nat /\ DOMAIN r = 1..Len(r) /\ \A k \in 1..Len(r) : r[k] \in Nat
  <2>1. r \in Seq(Nat)
    BY DEF Windows
  <2> QED BY <2>1, ElementsOf
<1>2. TimesSince(r, s) \subseteq Y
  <2> SUFFICES ASSUME NEW k \in TimesSince(r, s) PROVE k \in Y
    OBVIOUS
  <2>1. k \in DOMAIN r /\ k \in 1..Len(r) /\ r[k] >= s
    BY <1>1 DEF TimesSince
  <2>2. r[k] \in Nat /\ RateWindow \in Nat
    BY <1>1, <2>1, WindowLimits
  <2>3. now - r[k] < RateWindow
    <3> HIDE DEF r
    <3> QED BY <2>1, <2>2
  <2> QED BY <2>1, <2>3
<1>3. Cardinality(Y) < RatePerMinute
  BY DEF CheckRate
<1>4. IsFiniteSet(Y) /\ Cardinality(Y) \in Nat
  <2>1. IsFiniteSet(1..Len(r)) /\ Y \subseteq 1..Len(r)
    BY <1>1, FS_Interval
  <2> QED BY <2>1, FS_Subset, FS_CardinalityType
<1>5. Cardinality(PostsSince(L, a, s)) <= Cardinality(TimesSince(r, s))
  BY DEF Counts
<1> HIDE DEF r, Y
<1>6. Cardinality(TimesSince(r, s)) <= Cardinality(Y)
  BY <1>2, <1>4, FS_Subset
<1>7. Cardinality(PostsSince(L, a, s)) \in Nat /\ Cardinality(TimesSince(r, s)) \in Nat
  BY <1>1, SinceFinite
<1> QED BY <1>3, <1>4, <1>5, <1>6, <1>7, WindowLimits

\* A post that check_rate lets through overfills no window it falls in.
LEMMA AgentStep ==
  ASSUME NEW b, NEW L \in Seq(LogEntries), now \in Nat, Windows(b), Counts(b, L, now),
         \A i \in 1..Len(L) : L[i].at <= now,
         NEW post \in LogEntries, post.at = now, post.from \in Agents,
         CheckRate(b, post.from), RateHeld(L)
  PROVE  RateHeld(Append(L, post))
<1> DEFINE M == Append(L, post)
           a == post.from
<1>1. /\ Len(L) \in Nat /\ Len(M) = Len(L) + 1 /\ M[Len(L) + 1] = post
      /\ \A i \in 1..Len(L) : M[i] = L[i] /\ L[i] \in LogEntries
      /\ \A i \in 1..(Len(L) + 1) : i \in 1..Len(L) \/ i = Len(L) + 1
      /\ DOMAIN L = 1..Len(L)
  BY Longer, ElementsOf
<1> HIDE DEF M
<1>2. ASSUME NEW t \in Nat, t <= now, now < t + RateWindow
      PROVE  Cardinality(InWindow(M, a, t)) <= RatePerMinute
  <2> DEFINE P == PostsSince(L, a, t)
             x == Len(L) + 1
  <2>1. InWindow(M, a, t) \subseteq P \cup {x}
    <3> SUFFICES ASSUME NEW j \in InWindow(M, a, t) PROVE j \in P \cup {x}
      OBVIOUS
    <3>1. j \in 1..(Len(L) + 1) /\ M[j].from = a /\ M[j].at \in t..(t + RateWindow - 1)
      BY <1>1 DEF InWindow
    <3>2. CASE j \in 1..Len(L)
      <4>1. M[j] = L[j] /\ L[j].at >= t
        BY <1>1, <3>1, <3>2
      <4> QED BY <1>1, <3>1, <3>2, <4>1 DEF PostsSince
    <3> QED BY <1>1, <3>1, <3>2
  <2>2. Cardinality(P) + 1 <= RatePerMinute
    BY <1>2, WindowLimits, CheckedCount
  <2>3. IsFiniteSet(P) /\ Cardinality(P) \in Nat
    BY SinceFinite
  <2> HIDE DEF P, x
  <2>4. IsFiniteSet(P \cup {x}) /\ Cardinality(P \cup {x}) \in {Cardinality(P), Cardinality(P) + 1}
    BY <2>3, FS_AddElement
  <2>5. /\ Cardinality(InWindow(M, a, t)) <= Cardinality(P \cup {x})
        /\ Cardinality(InWindow(M, a, t)) \in Nat
    BY <2>1, <2>4, FS_Subset, FS_CardinalityType
  <2> QED BY <2>2, <2>3, <2>4, <2>5, WindowLimits
<1>3. ASSUME NEW i \in 1..(Len(L) + 1), M[i].from \in Agents
      PROVE  Cardinality(InWindow(M, M[i].from, M[i].at)) <= RatePerMinute
  <2>1. CASE i = Len(L) + 1
    <3>1. M[i] = post /\ now < now + RateWindow
      BY <1>1, <2>1, WindowLimits
    <3> QED BY <1>2, <3>1
  <2>2. CASE i \in 1..Len(L)
    <3> DEFINE t == L[i].at
               c == L[i].from
    <3>1. M[i] = L[i] /\ t \in Nat /\ t <= now
      BY <1>1, <2>2 DEF LogEntries
    <3>2. CASE c = a /\ now < t + RateWindow
      BY <1>2, <3>1, <3>2
    <3>3. CASE ~(c = a /\ now < t + RateWindow)
      <4>1. ASSUME NEW j \in InWindow(M, c, t) PROVE j \in InWindow(L, c, t)
        <5>1. j \in 1..(Len(L) + 1) /\ M[j].from = c /\ M[j].at \in t..(t + RateWindow - 1)
          BY <1>1 DEF InWindow
        <5>2. j # Len(L) + 1
          <6>1. SUFFICES ASSUME j = Len(L) + 1 PROVE FALSE
            OBVIOUS
          <6>2. M[j] = post
            BY <1>1, <6>1
          <6> HIDE DEF t, c
          <6> QED BY <3>1, <3>3, <5>1, <6>2, WindowLimits
        <5>3. j \in 1..Len(L) /\ M[j] = L[j]
          BY <1>1, <5>1, <5>2
        <5> QED BY <5>1, <5>3 DEF InWindow
      <4>2. ASSUME NEW j \in InWindow(L, c, t) PROVE j \in InWindow(M, c, t)
        <5>1. j \in 1..Len(L) /\ L[j].from = c /\ L[j].at \in t..(t + RateWindow - 1)
          BY DEF InWindow
        <5>2. j \in 1..(Len(L) + 1) /\ M[j] = L[j]
          BY <1>1, <5>1
        <5> QED BY <1>1, <5>1, <5>2 DEF InWindow
      <4>3. InWindow(M, c, t) = InWindow(L, c, t)
        BY <4>1, <4>2
      <4>4. Cardinality(InWindow(L, c, t)) <= RatePerMinute
        BY <1>3, <2>2, <3>1 DEF RateHeld
      <4> QED BY <3>1, <4>3, <4>4
    <3> QED BY <3>2, <3>3
  <2> QED BY <1>1, <2>1, <2>2
<1>4. RateHeld(M)
  BY <1>1, <1>3 DEF RateHeld
<1> QED BY <1>4 DEF M

\* The box an accepted post starts from.
LEMMA Expired ==
  ASSUME Inv, LogInv
  PROVE  LET E == ExpireDedup(Drained)
         IN  Windows(E) /\ Remembers(E, log, now) /\ Counts(E, log, now) /\ E.rate = inbox.rate
<1>1. Windows(inbox) /\ now \in Nat /\ log \in Seq(LogEntries)
  BY InvWindows DEF Inv, LogInv
<1>2. Windows(Drained) /\ Remembers(Drained, log, now) /\ Drained.rate = inbox.rate
  BY <1>1, DrainedSame, SameKeeps DEF LogInv, SameWindows
<1>3. /\ Windows(ExpireDedup(Drained)) /\ Remembers(ExpireDedup(Drained), log, now)
      /\ ExpireDedup(Drained).rate = inbox.rate
  BY <1>1, <1>2, ExpireDedupKeeps
<1> QED BY <1>3 DEF LogInv, Counts

\* Where every accepted post ends.
LEMMA Accepted ==
  ASSUME Inv, LogInv, now' = now, NEW id \in Ids, NEW from \in Agents \cup {Unbound},
         Logged(id, from), id \notin DOMAIN ExpireDedup(Drained).dedup_state,
         SameDedup(RegisterId(ExpireDedup(Drained), id), inbox'),
         IF from \in Agents
         THEN /\ CheckRate(ExpireDedup(Drained), from)
              /\ inbox'.rate = [ExpireDedup(Drained).rate EXCEPT ![from] = Append(@, now)]
         ELSE inbox'.rate = ExpireDedup(Drained).rate
  PROVE  LogInv'
<1> DEFINE E == ExpireDedup(Drained)
           post == [at |-> now, id |-> id, from |-> from]
           M == Append(log, post)
<1>1. now \in Nat /\ log \in Seq(LogEntries) /\ \A i \in 1..Len(log) : log[i].at <= now
  BY DEF Inv, LogInv
<1>2. Windows(E) /\ Remembers(E, log, now) /\ Counts(E, log, now)
  BY Expired
<1>3. post \in LogEntries /\ post.at = now /\ post.id = id /\ post.from = from /\ log' = M
  BY <1>1 DEF LogEntries, Logged
<1>4. DedupHeld(log) /\ RateHeld(log)
  BY <1>1, HeldHolds DEF LogInv
<1>5. SameDedup(RegisterId(E, id), inbox') /\ id \notin DOMAIN E.dedup_state
  OBVIOUS
<1>6. IF from \in Agents
      THEN CheckRate(E, from) /\ inbox'.rate = [E.rate EXCEPT ![from] = Append(@, now)]
      ELSE inbox'.rate = E.rate
  OBVIOUS
<1> HIDE DEF E
<1>7. Remembers(inbox', M, now)
  <2>1. Remembers(RegisterId(E, id), M, now)
    BY <1>1, <1>2, <1>5, RegisterIdKeeps
  <2> QED BY <1>5, <2>1 DEF Remembers, Recalls, SameDedup
<1>8. Counts(inbox', M, now)
  <2>1. CASE from \in Agents
    BY <1>1, <1>2, <1>6, <2>1, RecordKeeps
  <2>2. CASE from \notin Agents
    BY <1>1, <1>2, <1>6, <2>2, DeckKeeps
  <2> QED BY <2>1, <2>2
<1> HIDE DEF post
<1>9. DedupHeld(M)
  BY <1>1, <1>2, <1>3, <1>4, <1>5, DedupStep
<1>10. RateHeld(M)
  BY <1>1, <1>2, <1>3, <1>4, <1>6, AgentStep, DeckStep
<1>11. M \in Seq(LogEntries) /\ \A i \in 1..Len(M) : M[i].at <= now
  <2>1. /\ M \in Seq(LogEntries) /\ Len(log) \in Nat /\ Len(M) = Len(log) + 1
        /\ M[Len(log) + 1] = post
        /\ \A i \in 1..Len(log) : M[i] = log[i]
        /\ \A i \in 1..(Len(log) + 1) : i \in 1..Len(log) \/ i = Len(log) + 1
    BY <1>1, <1>3, Longer
  <2> HIDE DEF M
  <2> QED BY <1>1, <1>3, <2>1
<1> HIDE DEF M
<1>12. DedupHolds' /\ RateHolds'
  <2>1. DOMAIN log' = 1..Len(log')
    BY <1>3, <1>11, ElementsOf
  <2> QED BY <1>3, <1>9, <1>10, <2>1 DEF DedupHolds, DedupHeld, RateHolds, RateHeld, InWindow
<1>13. Remembers(inbox', log', now') /\ Counts(inbox', log', now') /\ log' \in Seq(LogEntries)
       /\ \A i \in 1..Len(log') : log'[i].at <= now'
  BY <1>3, <1>7, <1>8, <1>11
<1> QED BY <1>12, <1>13 DEF LogInv

\* register_id looks at the remembered ids alone, and leaves the quotas.
LEMMA RegisterIdSame ==
  ASSUME NEW b, NEW c, Windows(b), Windows(c), SameDedup(b, c), NEW id \in Ids, now \in Nat
  PROVE  /\ SameDedup(RegisterId(b, id), RegisterId(c, id)) /\ RegisterId(c, id).rate = c.rate
         /\ Windows(RegisterId(c, id))
<1>1. SameDedup(RegisterId(b, id), RegisterId(c, id)) /\ RegisterId(c, id).rate = c.rate
  BY DEF Windows, SameDedup, RegisterId
<1> DEFINE S == [at : Nat, id : Ids]
           longer == Append(c.dedup, [at |-> now, id |-> id])
           over == IF Len(longer) > DedupMaxIds THEN Len(longer) - DedupMaxIds ELSE 0
           dd == SubSeq(longer, over + 1, Len(longer))
<1>2. c.dedup \in Seq(S) /\ [at |-> now, id |-> id] \in S
  BY DEF Windows
<1>3. longer \in Seq(S)
  BY <1>2, AppendProperties
<1> HIDE DEF longer, S
<1>4. over \in Nat
  BY <1>3, ElementsOf, WindowLimits
<1> HIDE DEF over
<1>5. dd \in Seq(S)
  BY <1>3, <1>4, SuffixType
<1>6. RegisterId(c, id).dedup = dd
  BY DEF RegisterId, Windows, dd, over, longer
<1> HIDE DEF dd
<1>7. {"messages", "dedup", "dedup_state", "rate", "reserved_replies", "events"}
        \subseteq DOMAIN RegisterId(c, id)
  BY DEF RegisterId, Windows
<1> QED BY <1>1, <1>5, <1>6, <1>7 DEF Windows, S

LEMMA RecordRateSame ==
  ASSUME NEW b, Windows(b), NEW from \in Agents, now \in Nat
  PROVE  /\ SameDedup(b, RecordRate(b, from)) /\ Windows(RecordRate(b, from))
         /\ RecordRate(b, from).rate = [b.rate EXCEPT ![from] = Append(@, now)]
<1> DEFINE rt == [b.rate EXCEPT ![from] = Append(@, now)]
           c == [b EXCEPT !.rate = rt]
<1>1. rt \in [Agents -> Seq(Nat)]
  <2>1. b.rate \in [Agents -> Seq(Nat)]
    BY DEF Windows
  <2>2. Append(b.rate[from], now) \in Seq(Nat)
    BY <2>1, AppendProperties
  <2> QED BY <2>1, <2>2
<1>2. c = RecordRate(b, from)
  BY DEF RecordRate
<1> HIDE DEF rt
<1>3. SameDedup(b, c) /\ Windows(c) /\ c.rate = rt
  BY <1>1 DEF SameDedup, Windows
<1> HIDE DEF c
<1> QED BY <1>2, <1>3 DEF rt

LEMMA SameDedupTransitive ==
  ASSUME NEW b, NEW c, NEW d, SameDedup(b, c), SameDedup(c, d)
  PROVE  SameDedup(b, d)
BY DEF SameDedup

\* What insert and the trim after it leave of a box.
LEMMA InsertDirectSame ==
  ASSUME NEW b, Windows(b), NEW to, NEW id \in Ids, NEW bytes, now \in Nat
  PROVE  /\ SameDedup(RegisterId(b, id), InsertDirect(b, to, id, bytes))
         /\ InsertDirect(b, to, id, bytes).rate = b.rate
<1> DEFINE m == NewMessage(id, "Direct", "None", to, bytes, 0)
           c == InsertOne(RegisterId(b, id), m)
<1>1. SameDedup(b, b)
  BY DEF SameDedup
<1>2. Windows(RegisterId(b, id)) /\ RegisterId(b, id).rate = b.rate
  BY <1>1, RegisterIdSame
<1>3. Windows(c) /\ SameWindows(RegisterId(b, id), c)
  BY <1>2, InsertSame DEF InsertOne
<1> HIDE DEF c
<1>4. SameWindows(c, TrimHistory(c))
  BY <1>3, TrimSame
<1>5. SameWindows(RegisterId(b, id), TrimHistory(c))
  BY <1>3, <1>4, SameTransitive
<1>6. InsertDirect(b, to, id, bytes) = TrimHistory(c)
  BY DEF InsertDirect, c
<1> QED BY <1>2, <1>5, <1>6 DEF SameWindows

LEMMA DeckAccepted ==
  ASSUME Inv, LogInv, NEW id \in Ids, DeckPost(id), Logged(id, Unbound)
  PROVE  LogInv'
<1> DEFINE E == ExpireDedup(Drained)
<1>1. Windows(E) /\ now \in Nat /\ Unbound \notin Agents
  BY Expired, InboxConstants DEF Inv
<1>2. SameDedup(E, E)
  BY DEF SameDedup
<1>3. PICK to \in Addressees, bytes \in BodySizes :
             PostDirect(to, id, bytes) \/ PostReservedReply(to, id, bytes)
  BY DEF DeckPost
<1>4. id \notin DOMAIN E.dedup_state /\ now' = now
  BY <1>3 DEF PostDirect, PostReservedReply, AdmitDirect, AdmitReply, AdmitReservedReply, CheckId
<1>5. SameDedup(RegisterId(E, id), inbox') /\ inbox'.rate = E.rate
  <2>1. CASE PostDirect(to, id, bytes)
    <3>1. inbox' = InsertDirect(E, to, id, bytes)
      BY <2>1 DEF PostDirect
    <3> HIDE DEF E
    <3> QED BY <1>1, <3>1, InsertDirectSame
  <2>2. CASE PostReservedReply(to, id, bytes)
    <3>1. inbox' = InsertDirect(Released(E), to, id, bytes)
      BY <2>2 DEF PostReservedReply
    <3> HIDE DEF E
    <3>2. Windows(Released(E)) /\ SameWindows(E, Released(E))
      BY <1>1, ReleasedSame
    <3>3. SameDedup(RegisterId(E, id), RegisterId(Released(E), id))
      BY <1>1, <3>2, RegisterIdSame DEF SameWindows
    <3>4. SameDedup(RegisterId(Released(E), id), inbox') /\ inbox'.rate = Released(E).rate
      BY <1>1, <3>1, <3>2, InsertDirectSame
    <3> QED BY <3>2, <3>3, <3>4, SameDedupTransitive DEF SameWindows
  <2> QED BY <1>3, <2>1, <2>2
<1> QED BY <1>1, <1>4, <1>5, Accepted

LEMMA AgentAccepted ==
  ASSUME Inv, LogInv, NEW from \in Agents, NEW id \in Ids, AgentPost(from, id), Logged(id, from)
  PROVE  LogInv'
<1> DEFINE E == ExpireDedup(Drained)
           noted == RecordRate(RegisterId(E, id), from)
<1>1. Windows(E) /\ now \in Nat /\ E.rate = inbox.rate
  BY Expired DEF Inv
<1>2. SameDedup(E, E)
  BY DEF SameDedup
<1>3. PICK bytes \in BodySizes :
        \/ \E to \in Addressees : PostAgentDirect(from, to, id, bytes)
        \/ \E others \in OnePerPane :
             \/ \E topic \in Topics : Publish(from, topic, id, bytes, others)
             \/ \E scope \in Scopes, ttl \in ClaimTtls :
                  Offer(from, scope, id, bytes, ttl, others)
  BY DEF AgentPost
<1>4. /\ Windows(RegisterId(E, id)) /\ RegisterId(E, id).rate = E.rate
  BY <1>1, <1>2, RegisterIdSame
<1>5. /\ Windows(noted) /\ SameDedup(RegisterId(E, id), noted)
      /\ noted.rate = [E.rate EXCEPT ![from] = Append(@, now)]
  BY <1>1, <1>4, RecordRateSame
<1> SUFFICES /\ now' = now /\ id \notin DOMAIN E.dedup_state /\ CheckRate(E, from)
             /\ SameDedup(RegisterId(E, id), inbox')
             /\ inbox'.rate = [E.rate EXCEPT ![from] = Append(@, now)]
  BY Accepted
<1>6. CASE \E to \in Addressees : PostAgentDirect(from, to, id, bytes)
  <2>1. PICK to \in Addressees : PostAgentDirect(from, to, id, bytes)
    BY <1>6
  <2>2. /\ now' = now /\ id \notin DOMAIN E.dedup_state /\ CheckRate(inbox, from)
        /\ inbox' = InsertDirect(RecordRate(E, from), to, id, bytes)
    BY <2>1 DEF PostAgentDirect, AdmitDirect, AdmitReply, CheckId
  <2> HIDE DEF E
  <2>3. CheckRate(E, from)
    BY <1>1, <2>2 DEF CheckRate
  <2>4. /\ SameDedup(E, RecordRate(E, from)) /\ Windows(RecordRate(E, from))
        /\ RecordRate(E, from).rate = [E.rate EXCEPT ![from] = Append(@, now)]
    BY <1>1, RecordRateSame
  <2>5. SameDedup(RegisterId(E, id), RegisterId(RecordRate(E, from), id))
    BY <1>1, <2>4, RegisterIdSame
  <2>6. /\ SameDedup(RegisterId(RecordRate(E, from), id), inbox')
        /\ inbox'.rate = RecordRate(E, from).rate
    BY <1>1, <2>2, <2>4, InsertDirectSame
  <2> QED BY <2>2, <2>3, <2>4, <2>5, <2>6, SameDedupTransitive
<1>7. CASE \E others \in OnePerPane, topic \in Topics : Publish(from, topic, id, bytes, others)
  <2>1. PICK others \in OnePerPane, topic \in Topics : Publish(from, topic, id, bytes, others)
    BY <1>7
  <2>2. /\ now' = now /\ id \notin DOMAIN E.dedup_state /\ CheckRate(E, from)
        /\ \E new : inbox' = TrimHistory(Insert(noted, new))
    BY <2>1 DEF Publish, CheckId
  <2>3. PICK new : inbox' = TrimHistory(Insert(noted, new))
    BY <2>2
  <2> HIDE DEF E, noted
  <2>4. Windows(Insert(noted, new)) /\ SameWindows(noted, Insert(noted, new))
    BY <1>5, InsertSame
  <2>5. SameWindows(Insert(noted, new), inbox')
    BY <2>3, <2>4, TrimSame
  <2> QED BY <1>5, <2>2, <2>4, <2>5, SameDedupTransitive DEF SameWindows
<1>8. CASE \E others \in OnePerPane, scope \in Scopes, ttl \in ClaimTtls :
             Offer(from, scope, id, bytes, ttl, others)
  <2>1. PICK others \in OnePerPane, scope \in Scopes, ttl \in ClaimTtls :
               Offer(from, scope, id, bytes, ttl, others)
    BY <1>8
  <2> DEFINE held == InsertOne(noted, NewMessage(id, "Offer", scope, NoRecipient, bytes, ttl))
  <2>2. /\ now' = now /\ id \notin DOMAIN E.dedup_state /\ CheckRate(E, from)
        /\ inbox' \in Assignments(held, stamp + 1, others)
    BY <2>1 DEF Offer, CheckId
  <2> HIDE DEF E, noted
  <2>3. Windows(held) /\ SameWindows(noted, held)
    BY <1>5, InsertSame DEF InsertOne
  <2> HIDE DEF held
  <2>4. SameWindows(held, inbox')
    BY <2>2, <2>3, AssignmentsSame
  <2> QED BY <1>5, <2>2, <2>3, <2>4, SameDedupTransitive DEF SameWindows
<1> QED BY <1>3, <1>6, <1>7, <1>8

\* A step that accepts nothing and leaves its windows good.
LEMMA NothingAccepted ==
  ASSUME LogInv, UNCHANGED log, now \in Nat, now' \in Nat, now <= now',
         Remembers(inbox', log, now'), Counts(inbox', log, now')
  PROVE  LogInv'
<1>1. log \in Seq(LogEntries) /\ \A i \in 1..Len(log) : log[i].at <= now
  BY DEF LogInv
<1>2. ASSUME NEW i \in 1..Len(log) PROVE log[i].at <= now'
  <2>1. log[i] \in LogEntries
    BY <1>1, ElementsOf
  <2>2. log[i].at \in Nat
    BY <2>1 DEF LogEntries
  <2> QED BY <1>1, <2>2
<1> QED BY <1>1, <1>2 DEF LogInv, DedupHolds, RateHolds

\* An operation that leaves the windows of the box it starts from.
LEMMA SameAccepted ==
  ASSUME Inv, LogInv, UNCHANGED <<log, now>>,
         SameWindows(Drained, inbox') \/ SameWindows(ExpireDedup(Drained), inbox')
  PROVE  LogInv'
<1>1. Windows(inbox) /\ now \in Nat /\ Remembers(inbox, log, now) /\ Counts(inbox, log, now)
  BY InvWindows DEF Inv, LogInv
<1>2. Remembers(Drained, log, now) /\ Counts(Drained, log, now)
  BY <1>1, DrainedSame, SameKeeps
<1>3. Remembers(ExpireDedup(Drained), log, now) /\ Counts(ExpireDedup(Drained), log, now)
  BY Expired
<1>4. Remembers(inbox', log, now) /\ Counts(inbox', log, now)
  BY <1>2, <1>3, SameKeeps
<1> QED BY <1>1, <1>4, NothingAccepted

LEMMA TrimmedSame ==
  ASSUME NEW b, Windows(b), NEW changed
  PROVE  LET c == TrimHistory(Transition(b, changed)) IN Windows(c) /\ SameWindows(b, c)
<1> DEFINE d == Transition(b, changed)
<1>1. Windows(d) /\ SameWindows(b, d)
  BY TransitionSame
<1> HIDE DEF d
<1>2. Windows(TrimHistory(d)) /\ SameWindows(d, TrimHistory(d))
  BY <1>1, TrimSame
<1>3. SameWindows(b, TrimHistory(d))
  BY <1>1, <1>2, SameTransitive
<1> QED BY <1>2, <1>3 DEF d

LEMMA DeliverSame ==
  ASSUME Inv, NEW id \in Ids, Deliver(id)
  PROVE  SameWindows(Drained, inbox') /\ now' = now
<1>1. Windows(Drained)
  BY InvWindows, DrainedSame
<1>2. ASSUME NEW k, NEW m
      PROVE  /\ SameWindows(Drained, Change(Drained, k, m))
             /\ SameWindows(Drained, TrimHistory(Change(Drained, k, m)))
  BY <1>1, ChangeSame, TrimmedSame DEF Change
<1>3. ASSUME NEW k, NEW m PROVE SameWindows(Drained, [Drained EXCEPT !.messages[k] = m])
  BY <1>1 DEF Windows, SameWindows, SameDedup
<1>4. ASSUME NEW a \in Agents, Ack(id, a) PROVE SameWindows(Drained, inbox') /\ now' = now
  BY <1>2, <1>4 DEF Ack
<1>5. ASSUME NEW a \in Agents, TakeReceipt(id, a) PROVE SameWindows(Drained, inbox') /\ now' = now
  BY <1>2, <1>5 DEF TakeReceipt
<1>6. ASSUME NEW a \in Agents, CountReceiptRepeat(id, a)
      PROVE  SameWindows(Drained, inbox') /\ now' = now
  BY <1>3, <1>6 DEF CountReceiptRepeat
<1>7. ASSUME NEW a \in Agents, Complete(id, a) \/ Release(id, a)
      PROVE  SameWindows(Drained, inbox') /\ now' = now
  BY <1>2, <1>7 DEF Complete, Release
<1>8. ASSUME NEW candidates \in OnePerPane, AssignOffer(id, candidates)
      PROVE  SameWindows(Drained, inbox') /\ now' = now
  BY <1>1, <1>8, AssignmentsSame DEF AssignOffer
<1>9. ASSUME NEW p \in Panes, RequeueReceipt(id, p) PROVE SameWindows(Drained, inbox') /\ now' = now
  BY <1>2, <1>9 DEF RequeueReceipt
<1>10. ASSUME NEW p \in Panes, NEW reason \in RetireReasons, Retire(id, p, reason)
       PROVE  SameWindows(Drained, inbox') /\ now' = now
  BY <1>2, <1>10 DEF Retire
<1> QED BY <1>4, <1>5, <1>6, <1>7, <1>8, <1>9, <1>10 DEF Deliver

LEMMA ReserveAccepted ==
  ASSUME Inv, LogInv, Reserve, UNCHANGED log
  PROVE  LogInv'
<1>1. Windows(Drained) /\ Windows(ExpireDedup(Drained))
  BY InvWindows, DrainedSame, Expired
<1>2. CASE ReserveReply \/ ReleaseReply
  <2>1. SameWindows(Drained, inbox') /\ now' = now
    BY <1>1, <1>2, ReleasedSame DEF ReserveReply, ReleaseReply, Windows, SameWindows, SameDedup
  <2> QED BY <2>1, SameAccepted
<1>3. ASSUME NEW p, NEW id, NEW bytes, NEW replacing, ReserveDelegate(p, id, bytes, replacing)
      PROVE  LogInv'
  <2> DEFINE E == ExpireDedup(Drained)
  <2>1. inbox' = [E EXCEPT !.reserved_replies = @ + 1] /\ now' = now
    BY <1>3 DEF ReserveDelegate
  <2> HIDE DEF E
  <2>2. SameWindows(E, inbox')
    BY <1>1, <2>1 DEF Windows, SameWindows, SameDedup, E
  <2> QED BY <2>1, <2>2, SameAccepted DEF E
<1> QED BY <1>2, <1>3 DEF Reserve

LEMMA TickAccepted ==
  ASSUME Inv, LogInv, Tick, UNCHANGED log
  PROVE  LogInv'
<1>1. /\ Windows(Drained) /\ now \in Nat /\ log \in Seq(LogEntries)
      /\ Remembers(Drained, log, now) /\ Counts(Drained, log, now)
  BY InvWindows, DrainedSame, SameKeeps DEF Inv, LogInv
<1>2. PICK changed : inbox' = PruneRate(ExpireDedup(TrimHistory(Transition(Drained, changed))))
  BY DEF Tick
<1> DEFINE b == TrimHistory(Transition(Drained, changed))
           c == ExpireDedup(b)
<1>3. Windows(b) /\ SameWindows(Drained, b)
  BY <1>1, TrimmedSame
<1> HIDE DEF b
<1>4. Remembers(b, log, now) /\ Counts(b, log, now)
  BY <1>1, <1>3, SameKeeps
<1>5. Windows(c) /\ Remembers(c, log, now) /\ c.rate = b.rate
  BY <1>1, <1>3, <1>4, ExpireDedupKeeps
<1> HIDE DEF c
<1>6. Counts(c, log, now)
  BY <1>4, <1>5 DEF Counts
<1>7. inbox' = PruneRate(c)
  BY <1>2 DEF b, c
<1>8. Counts(inbox', log, now) /\ SameDedup(c, inbox')
  BY <1>1, <1>5, <1>6, <1>7, PruneRateKeeps
<1>9. Remembers(inbox', log, now)
  BY <1>5, <1>8 DEF Remembers, Recalls, SameDedup
<1>10. now' = now
  BY DEF Tick
<1> QED BY <1>1, <1>8, <1>9, <1>10, NothingAccepted

LEMMA UpkeepAccepted ==
  ASSUME Inv, LogInv, Upkeep, UNCHANGED log
  PROVE  LogInv'
<1>1. Windows(inbox) /\ Windows(Drained) /\ now \in Nat
  BY InvWindows, DrainedSame DEF Inv
<1>2. CASE Admission
  <2>1. SameWindows(ExpireDedup(Drained), inbox') /\ now' = now
    BY <1>2 DEF Admission, SameWindows, SameDedup
  <2> QED BY <2>1, SameAccepted
<1>3. CASE \E id \in Ids : Deliver(id)
  BY <1>3, DeliverSame, SameAccepted
<1>4. CASE \E a \in Agents : AgentExited(a)
  <2>1. now' = now /\ \E changed : inbox' = TrimHistory(Transition(Drained, changed))
    BY <1>4 DEF AgentExited
  <2>2. SameWindows(Drained, inbox')
    BY <1>1, <2>1, TrimmedSame
  <2> QED BY <2>1, <2>2, SameAccepted
<1>5. CASE \E p \in Panes : ForgetPaneHistory(p)
  <2>1. now' = now /\ \E ms : inbox' = [Drained EXCEPT !.messages = ms]
    BY <1>5 DEF ForgetPaneHistory
  <2>2. SameWindows(Drained, inbox')
    BY <1>1, <2>1 DEF Windows, SameWindows, SameDedup
  <2> QED BY <2>1, <2>2, SameAccepted
<1>6. CASE Advance
  <2>1. now' = now + 1 /\ inbox' = inbox
    BY <1>6 DEF Advance
  <2>2. Remembers(inbox, log, now + 1) /\ Counts(inbox, log, now + 1)
    BY <1>1, LaterKeeps DEF LogInv
  <2>3. now <= now' /\ now' \in Nat
    BY <1>1, <2>1
  <2>4. Remembers(inbox', log, now') /\ Counts(inbox', log, now')
    BY <2>1, <2>2
  <2> QED BY <1>1, <2>3, <2>4, NothingAccepted
<1> QED BY <1>2, <1>3, <1>4, <1>5, <1>6, ReserveAccepted, TickAccepted DEF Upkeep

LEMMA LogStart == LogInit => LogInv
<1> SUFFICES ASSUME LogInit PROVE LogInv
  OBVIOUS
<1>1. log = <<>> /\ inbox.dedup = <<>> /\ inbox.rate = [a \in Agents |-> <<>>]
  BY DEF LogInit, Init
<1>2. Remembers(inbox, log, now)
  BY <1>1, WindowLimits DEF Remembers, Recalls
<1>3. ASSUME NEW a \in Agents, NEW s \in Nat
      PROVE  PostsSince(log, a, s) = {} /\ TimesSince(inbox.rate[a], s) = {}
  BY <1>1 DEF PostsSince, TimesSince
<1>4. Counts(inbox, log, now)
  BY <1>3, FS_EmptySet DEF Counts
<1> QED BY <1>1, <1>2, <1>4 DEF LogInv, DedupHolds, RateHolds

LEMMA LogStep == Inv /\ LogInv /\ [LogNext]_logvars => LogInv' /\ [Next]_vars
<1> SUFFICES ASSUME Inv, LogInv, [LogNext]_logvars PROVE LogInv' /\ [Next]_vars
  OBVIOUS
<1>1. CASE UNCHANGED logvars
  BY <1>1 DEF logvars, vars, LogInv, DedupHolds, RateHolds
<1>2. CASE \E id \in Ids : DeckPost(id) /\ Logged(id, Unbound)
  BY <1>2, DeckAccepted DEF Next
<1>3. CASE \E from \in Agents, id \in Ids : AgentPost(from, id) /\ Logged(id, from)
  BY <1>3, AgentAccepted DEF Next
<1>4. CASE Upkeep /\ UNCHANGED log
  BY <1>4, UpkeepAccepted DEF Next
<1> QED BY <1>1, <1>2, <1>3, <1>4 DEF LogNext

\* The inbox's invariant, and with it that what the dedup and rate windows remember
\* is what the log has of that time (register_id, expire_dedup, record_rate, tick).
THEOREM LogInvariant == LogSpec => [](Inv /\ LogInv)
<1>1. LogInit => Inv /\ LogInv
  BY InitInv, LogStart DEF LogInit
<1>2. Inv /\ LogInv /\ [LogNext]_logvars => (Inv /\ LogInv)'
  BY LogStep, StepKept
<1> QED BY <1>1, <1>2, PTL DEF LogSpec

\* An id is accepted again only after the dedup window or once enough later ids
\* pushed it out (check_id, register_id, expire_dedup).
THEOREM DedupAlwaysHolds == LogSpec => []DedupHolds
<1>1. LogInv => DedupHolds
  BY DEF LogInv
<1> QED BY <1>1, LogInvariant, PTL

\* No window of the sender's quota holds more posts than it allows, wherever it
\* starts (check_rate, record_rate, tick).
THEOREM RateAlwaysHolds == LogSpec => []RateHolds
<1>1. LogInv => RateHolds
  BY DEF LogInv
<1> QED BY <1>1, LogInvariant, PTL

=============================================================================
