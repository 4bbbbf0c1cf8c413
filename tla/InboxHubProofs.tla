--------------------------- MODULE InboxHubProofs ---------------------------
(***************************************************************************)
(* Proofs about the hub, for any number of panes, agents, dispatches and   *)
(* messages.  What one hold of the hub's lock does to the inbox is taken   *)
(* from InboxProofs: Kept(R) says that the box after it is good, that each *)
(* end was told to the hub in it, and that only recipients of R were given *)
(* anything.  What is left is to relate the box to the registry, to the    *)
(* watches and to the rooms that dispatches and answers hold.              *)
(***************************************************************************)
EXTENDS InboxHub, InboxProofs, SetFacts

\* What a dispatch to pane p knows: its task's id, its orchestrator and, once
\* bound, its worker.
Phases == {"Idle", "Reserved", "Superseded", "Bound"}

DispatchRecords ==
  [phase : Phases, id : Ids \cup {"None"}, bytes : Nat, clear : BOOLEAN,
   worker : Agents \cup {Unbound}, orchestrator : Agents \cup {Unbound}]

HubTyped ==
  /\ status \in [Agents -> {"Unborn", "Live", "Gone", "Swept"}]
  /\ delegates \in [DOMAIN delegates -> Agents] /\ DOMAIN delegates \subseteq Ids
  /\ offers \in [DOMAIN offers -> Agents] /\ DOMAIN offers \subseteq Ids
  /\ dispatch \in [Workers -> DispatchRecords]
  /\ replies \in Nat
  /\ assigner \in [ids : SUBSET Ids, members : SUBSET Agents, read : BOOLEAN]

\* A pane has one live generation at a time.
OneLive == LiveAgents \in OnePerPane

\* A dispatch under way has a task and an orchestrator, a bound one a worker.
DispatchOK(d) ==
  /\ d.phase # "Idle" => d.id \in Ids /\ d.orchestrator \in Agents
  /\ d.phase = "Bound" => d.worker \in Agents

Underway == \A p \in Workers : DispatchOK(dispatch[p])

\* A watched task is a live direct message: no watch outlives its message.
Watching ==
  \A id \in DOMAIN delegates :
    \E k \in Live(inbox) : /\ inbox.messages[k].id = id
                           /\ inbox.messages[k].kind = "Direct"

\* The live entries of box that no watch of ids is for.
Unwatched(box, ids) == {k \in Live(box) : box.messages[k].id \notin ids}

\* Room is what the messages that are not watched tasks, and the reservations,
\* leave of max_messages.
Roomy ==
  Cardinality(Unwatched(inbox, DOMAIN delegates)) + inbox.reserved_replies
    <= MaxMessages

\* The dispatches that hold a room.
Busy == {p \in Workers : dispatch[p].phase # "Idle"}

Rooms == IsFiniteSet(Busy) /\ ReservationsExact

\* The inductive invariant.
HubInv ==
  /\ Inv
  /\ HubTyped
  /\ OneLive
  /\ Underway
  /\ Watching
  /\ Roomy
  /\ Rooms
  /\ NoOrphans

USE DEF IsOffer, Terminal, State, Queued, Fetched, Acknowledged

-----------------------------------------------------------------------------
(* From the inbox's step to the hub's.                                     *)

\* Live entries are finitely many.
LEMMA LiveFinite ==
  ASSUME Inv
  PROVE  /\ IsFiniteSet(Live(inbox)) /\ Live(inbox) \subseteq 1..stamp
         /\ Cardinality(Live(inbox)) \in Nat
<1>1. Live(inbox) \subseteq 1..stamp
  BY DEF Inv, GoodBox, IsBox, Live, Held
<1>2. IsFiniteSet(1..stamp)
  BY FS_Interval DEF Inv
<1> QED BY <1>1, <1>2, CountPart

\* New stamps are as many as were given out.
LEMMA NewStamps ==
  ASSUME NEW m \in Nat, NEW n \in Nat, m <= n
  PROVE  /\ IsFiniteSet((m + 1)..n)
         /\ Cardinality((m + 1)..n) = n - m
<1>1. m + 1 \in Int /\ n \in Int
  OBVIOUS
<1>2. /\ IsFiniteSet((m + 1)..n)
      /\ Cardinality((m + 1)..n) = IF m + 1 > n THEN 0 ELSE n - (m + 1) + 1
  BY <1>1, FS_Interval
<1>3. (IF m + 1 > n THEN 0 ELSE n - (m + 1) + 1) = n - m
  OBVIOUS
<1> QED BY <1>2, <1>3

\* Entries with the id of a watched task are that task's.
LEMMA WatchedOne ==
  ASSUME Inv, Watching, NEW id \in DOMAIN delegates, NEW k \in Held(inbox),
         inbox.messages[k].id = id
  PROVE  k \in Live(inbox) /\ \A j \in Held(inbox) : inbox.messages[j].id = id => j = k
<1>1. PICK j \in Live(inbox) : inbox.messages[j].id = id /\ inbox.messages[j].kind = "Direct"
  BY DEF Watching
<1>2. \A i \in Held(inbox) : inbox.messages[i].id = id => i = j
  BY <1>1 DEF Inv, Distinct, Apart, Live
<1> QED BY <1>1, <1>2

\* The watches that end are those of the messages that end.
LEMMA StaysWatched ==
  ASSUME Inv, Watching, NEW R, Kept(R), NEW id \in DOMAIN delegates, id \notin Ended
  PROVE  \E k \in Live(inbox') : /\ inbox'.messages[k].id = id
                                 /\ inbox'.messages[k].kind = "Direct"
<1>1. PICK k \in Live(inbox) : inbox.messages[k].id = id /\ inbox.messages[k].kind = "Direct"
  BY DEF Watching
<1>2. k \in Live(inbox')
  BY <1>1 DEF Kept, Keeps, Accounts, Ended
<1>3. Follows(inbox.messages[k], inbox'.messages[k])
  BY <1>2 DEF Kept, Keeps, FollowsBox, Live
<1> QED BY <1>1, <1>2, <1>3 DEF Follows

\* No live entry loses its watch.
LEMMA StaysUnwatched ==
  ASSUME Inv, Watching, NEW R, Kept(R), NEW ids, DOMAIN delegates \ ids \subseteq Ended
  PROVE  Unwatched(inbox', ids) \subseteq
           Unwatched(inbox, DOMAIN delegates) \cup ((stamp + 1)..stamp')
<1> SUFFICES ASSUME NEW k \in Unwatched(inbox', ids), k \notin (stamp + 1)..stamp'
             PROVE  k \in Unwatched(inbox, DOMAIN delegates)
  OBVIOUS
<1>1. k \in Live(inbox') /\ inbox'.messages[k].id \notin ids
  BY DEF Unwatched
<1>2. k \in Live(inbox)
  BY <1>1 DEF Kept, Keeps, Accounts
<1>3. inbox'.messages[k].id = inbox.messages[k].id
  BY <1>1, <1>2 DEF Kept, Keeps, FollowsBox, Live, Follows
<1>4. ASSUME inbox.messages[k].id \in DOMAIN delegates PROVE FALSE
  <2> DEFINE id == inbox.messages[k].id
  <2>1. id \in Ended
    BY <1>1, <1>3, <1>4
  <2>2. PICK e \in inbox'.events : Terminal(e) /\ e.id = id
    BY <2>1 DEF Ended
  <2>3. PICK j \in Held(inbox) : j \notin Live(inbox') /\ inbox.messages[j].id = id
    BY <2>2 DEF Kept, Keeps, Accounts
  <2>4. k \in Held(inbox)
    BY <1>2 DEF Live
  <2>5. j = k
    BY <1>4, <2>3, <2>4, WatchedOne
  <2> QED BY <1>1, <2>3, <2>5
<1> QED BY <1>2, <1>4 DEF Unwatched

\* Settling a watch leaves a part of the watches.
LEMMA SettleType ==
  ASSUME NEW f, NEW S, f \in [DOMAIN f -> S]
  PROVE  /\ DOMAIN Settle(f) = DOMAIN f \ Ended
         /\ Settle(f) \in [DOMAIN f \ Ended -> S]
         /\ \A i \in DOMAIN f \ Ended : Settle(f)[i] = f[i]
BY DEF Settle, Restrict

\* What the steps that leave the dispatches alone leave.
SameDispatch == dispatch' = dispatch /\ replies' = replies

\* The watches settle with the events, but for new or reported ones.
WatchTypes ==
  /\ delegates' \in [DOMAIN delegates' -> Agents] /\ DOMAIN delegates' \subseteq Ids
  /\ offers' \in [DOMAIN offers' -> Agents] /\ DOMAIN offers' \subseteq Ids

LEMMA DrainSettles ==
  ASSUME HubTyped, Drain
  PROVE  WatchTypes /\ DOMAIN delegates' = DOMAIN delegates \ Ended
BY SettleType DEF HubTyped, Drain, WatchTypes

\* After a step whose watches only settle every watch has its message.
LEMMA WatchingKept ==
  ASSUME Inv, Watching, NEW R, Kept(R), DOMAIN delegates' \subseteq DOMAIN delegates \ Ended
  PROVE  Watching'
<1> SUFFICES ASSUME NEW id \in DOMAIN delegates'
             PROVE  \E k \in Live(inbox') : /\ inbox'.messages[k].id = id
                                            /\ inbox'.messages[k].kind = "Direct"
  BY DEF Watching, Live, Held
<1> QED BY StaysWatched

\* Nothing is owed to an exited generation when what was given in the step went
\* to agents that are there, and none was swept in it.
LEMMA OrphansKept ==
  ASSUME NoOrphans, NEW R, Kept(R),
         \A a \in Agents : Bound(a) \in R => status'[a] \in {"Live", "Gone"},
         \A a \in Agents : status[a] \in {"Live", "Gone"} => status'[a] \in {"Live", "Gone"}
  PROVE  NoOrphans'
<1> SUFFICES ASSUME NEW k \in Live(inbox'), NEW a \in Agents,
                    inbox'.messages[k].recipient = Bound(a)
             PROVE  status'[a] \in {"Live", "Gone"}
  BY DEF NoOrphans, Live, Held, Bound
<1>1. Bound(a) # NoRecipient
  BY BoundType
<1>2. CASE k \in Live(inbox) /\ inbox'.messages[k].recipient = inbox.messages[k].recipient
  BY <1>2 DEF NoOrphans
<1>3. CASE inbox'.messages[k].recipient \in R \cup {NoRecipient}
  BY <1>1, <1>3
<1> QED BY <1>2, <1>3 DEF Kept, Keeps, Accounts

\* The room left by a step: no more live entries that are not watched than
\* stamps given out.
LEMMA RoomKept ==
  ASSUME Inv, Watching, Roomy, NEW R, Kept(R), stamp <= stamp',
         DOMAIN delegates \ DOMAIN delegates' \subseteq Ended,
         inbox'.reserved_replies \in Nat,
         stamp' - stamp + inbox'.reserved_replies <= inbox.reserved_replies
  PROVE  Roomy'
<1> DEFINE S == Unwatched(inbox, DOMAIN delegates)
           N == (stamp + 1)..stamp'
           T == Unwatched(inbox', DOMAIN delegates')
<1>1. IsFiniteSet(S) /\ Cardinality(S) \in Nat
  BY LiveFinite, CountPart DEF Unwatched
<1>2. IsFiniteSet(N) /\ Cardinality(N) = stamp' - stamp
  BY NewStamps DEF Inv, Kept
<1>3. T \subseteq S \cup N
  BY StaysUnwatched
<1> HIDE DEF S, N, T
<1>4. /\ IsFiniteSet(S \cup N) /\ Cardinality(S \cup N) <= Cardinality(S) + Cardinality(N)
      /\ Cardinality(S \cup N) \in Nat
  BY <1>1, <1>2, CountUnion
<1>5. Cardinality(T) <= Cardinality(S \cup N) /\ Cardinality(T) \in Nat
  BY <1>3, <1>4, CountPart
<1>6. Cardinality(S) + inbox.reserved_replies <= MaxMessages /\ inbox.reserved_replies \in Nat
  BY DEF Roomy, S, Inv, GoodBox, IsBox
<1>7. MaxMessages \in Nat /\ stamp \in Nat /\ stamp' \in Nat
  BY InboxLimits DEF Inv, Kept
<1>8. Cardinality(T) + inbox'.reserved_replies <= MaxMessages
  BY <1>1, <1>2, <1>4, <1>5, <1>6, <1>7
<1> QED BY <1>8 DEF Roomy, T, Unwatched, Live, Held

\* The room left by a post that was admitted, or by a reservation.
LEMMA RoomChecked ==
  ASSUME Inv, NEW R, Kept(R), stamp <= stamp', inbox'.reserved_replies \in Nat,
         Cardinality(Live(inbox)) + (stamp' - stamp) + inbox'.reserved_replies <= MaxMessages
  PROVE  Roomy'
<1> DEFINE S == Live(inbox)
           N == (stamp + 1)..stamp'
           T == Unwatched(inbox', DOMAIN delegates')
<1>1. IsFiniteSet(S) /\ Cardinality(S) \in Nat
  BY LiveFinite
<1>2. IsFiniteSet(N) /\ Cardinality(N) = stamp' - stamp
  BY NewStamps DEF Inv, Kept
<1>3. T \subseteq S \cup N
  BY DEF Unwatched, Kept, Keeps, Accounts
<1> HIDE DEF S, N, T
<1>4. /\ IsFiniteSet(S \cup N) /\ Cardinality(S \cup N) <= Cardinality(S) + Cardinality(N)
      /\ Cardinality(S \cup N) \in Nat
  BY <1>1, <1>2, CountUnion
<1>5. Cardinality(T) <= Cardinality(S \cup N) /\ Cardinality(T) \in Nat
  BY <1>3, <1>4, CountPart
<1>6. MaxMessages \in Nat /\ stamp \in Nat /\ stamp' \in Nat
  BY InboxLimits DEF Inv, Kept
<1>7. Cardinality(T) + inbox'.reserved_replies <= MaxMessages
  BY <1>1, <1>2, <1>4, <1>5, <1>6 DEF S
<1> QED BY <1>7 DEF Roomy, T, Unwatched, Live, Held

-----------------------------------------------------------------------------
(* Reservations: what each operation of the inbox does to their count.      *)

\* b has the fields of a box.
Boxed(b) ==
  b \in [messages : {b.messages}, dedup : {b.dedup}, dedup_state : {b.dedup_state},
         rate : {b.rate}, reserved_replies : {b.reserved_replies},
         events : {b.events}]

\* c has those fields too and as many reservations.
SameRooms(b, c) == Boxed(c) /\ c.reserved_replies = b.reserved_replies

LEMMA BoxedField ==
  ASSUME NEW b, Boxed(b), NEW x, NEW y
  PROVE  /\ SameRooms(b, [b EXCEPT !.messages = x])
         /\ SameRooms(b, [b EXCEPT !.rate = x])
         /\ SameRooms(b, [b EXCEPT !.events = x])
         /\ SameRooms(b, [b EXCEPT !.dedup = x, !.dedup_state = y])
         /\ SameRooms(b, [b EXCEPT !.messages = x, !.events = y])
<1>1. SameRooms(b, [b EXCEPT !.messages = x])
  BY DEF Boxed, SameRooms
<1>2. SameRooms(b, [b EXCEPT !.rate = x])
  BY DEF Boxed, SameRooms
<1>3. SameRooms(b, [b EXCEPT !.events = x])
  BY DEF Boxed, SameRooms
<1>4. SameRooms(b, [b EXCEPT !.dedup = x, !.dedup_state = y])
  BY DEF Boxed, SameRooms
<1>5. SameRooms(b, [b EXCEPT !.messages = x, !.events = y])
  BY DEF Boxed, SameRooms
<1> QED BY <1>1, <1>2, <1>3, <1>4, <1>5

\* Only reservations and releases change the count.
LEMMA Uncounted ==
  ASSUME NEW b, Boxed(b)
  PROVE  /\ SameRooms(b, ExpireDedup(b))
         /\ \A id : SameRooms(b, RegisterId(b, id))
         /\ SameRooms(b, PruneRate(b))
         /\ SameRooms(b, TrimHistory(b))
<1>1. SameRooms(b, ExpireDedup(b)) /\ \A id : SameRooms(b, RegisterId(b, id))
  BY BoxedField DEF ExpireDedup, RegisterId
<1>2. SameRooms(b, PruneRate(b))
  BY BoxedField DEF PruneRate
<1>3. SameRooms(b, TrimHistory(b))
  BY BoxedField DEF TrimHistory
<1> QED BY <1>1, <1>2, <1>3

LEMMA UncountedRate ==
  ASSUME NEW b, Boxed(b), NEW from
  PROVE  SameRooms(b, RecordRate(b, from))
<1> DEFINE x == [b.rate EXCEPT ![from] = Append(@, now)]
<1>1. RecordRate(b, from) = [b EXCEPT !.rate = x]
  BY DEF RecordRate
<1> HIDE DEF x
<1> QED BY <1>1 DEF Boxed, SameRooms

LEMMA UncountedInsert ==
  ASSUME NEW b, Boxed(b), NEW new
  PROVE  SameRooms(b, Insert(b, new))
<1> DEFINE x == [k \in DOMAIN b.messages \cup DOMAIN new |->
                   IF k \in DOMAIN new THEN new[k] ELSE b.messages[k]]
           y == b.events \cup {Event(new[k]) : k \in DOMAIN new}
<1>1. Insert(b, new) = [b EXCEPT !.messages = x, !.events = y]
  BY DEF Insert
<1> HIDE DEF x, y
<1> QED BY <1>1 DEF Boxed, SameRooms

LEMMA UncountedTransition ==
  ASSUME NEW b, Boxed(b), NEW changed
  PROVE  SameRooms(b, Transition(b, changed))
<1> DEFINE of(i) == {k \in DOMAIN changed : changed[k].id = i}
           x == [k \in DOMAIN b.messages |->
                   IF k \in DOMAIN changed THEN changed[k] ELSE b.messages[k]]
           y == [i \in DOMAIN b.dedup_state |->
                   IF of(i) = {} THEN b.dedup_state[i]
                   ELSE changed[Min(of(i))].state.name]
           z == b.events \cup {Event(changed[k]) : k \in DOMAIN changed}
<1>1. Transition(b, changed) = [b EXCEPT !.messages = x, !.dedup_state = y, !.events = z]
  BY DEF Transition
<1> HIDE DEF x, y, z
<1> QED BY <1>1 DEF Boxed, SameRooms

LEMMA DrainedRooms == Inv => SameRooms(inbox, Drained) /\ Boxed(inbox)
<1> SUFFICES ASSUME Inv PROVE SameRooms(inbox, Drained) /\ Boxed(inbox)
  OBVIOUS
<1>1. Boxed(inbox)
  BY DEF Inv, GoodBox, IsBox, Boxed
<1> QED BY <1>1, BoxedField DEF Drained

\* Two operations one after the other.
LEMMA SameRoomsTwice ==
  ASSUME NEW b, NEW c, NEW d, SameRooms(b, c), SameRooms(c, d)
  PROVE  SameRooms(b, d)
BY DEF SameRooms

LEMMA UncountedDirect ==
  ASSUME NEW b, Boxed(b), NEW to, NEW id, NEW bytes
  PROVE  SameRooms(b, InsertDirect(b, to, id, bytes))
<1> DEFINE r == RegisterId(b, id)
           i == InsertOne(r, NewMessage(id, "Direct", "None", to, bytes, 0))
<1>1. SameRooms(b, r) /\ Boxed(r)
  BY Uncounted DEF SameRooms
<1> HIDE DEF r
<1>2. SameRooms(r, i) /\ Boxed(i)
  BY <1>1, UncountedInsert DEF InsertOne, SameRooms
<1> HIDE DEF i
<1>3. SameRooms(i, TrimHistory(i))
  BY <1>2, Uncounted
<1> QED BY <1>1, <1>2, <1>3, SameRoomsTwice DEF InsertDirect, i, r

\* One entry changed.
LEMMA UncountedChange ==
  ASSUME NEW b, Boxed(b), NEW k, NEW m
  PROVE  SameRooms(b, Change(b, k, m)) /\ SameRooms(b, TrimHistory(Change(b, k, m)))
<1>1. SameRooms(b, Change(b, k, m)) /\ Boxed(Change(b, k, m))
  BY UncountedTransition DEF Change, SameRooms
<1> QED BY <1>1, Uncounted, SameRoomsTwice

LEMMA ExpiredRooms == Inv => SameRooms(inbox, ExpireDedup(Drained))
BY DrainedRooms, Uncounted, SameRoomsTwice DEF SameRooms

LEMMA PostRooms ==
  ASSUME Inv, NEW to, NEW id, NEW bytes, NEW from,
         PostDirect(to, id, bytes) \/ PostAgentDirect(from, to, id, bytes)
  PROVE  SameRooms(inbox, inbox')
<1> DEFINE b == ExpireDedup(Drained)
           r == RecordRate(b, from)
<1>1. SameRooms(inbox, b) /\ Boxed(b)
  BY ExpiredRooms DEF SameRooms
<1>2. inbox' = InsertDirect(b, to, id, bytes) \/ inbox' = InsertDirect(r, to, id, bytes)
  BY DEF PostDirect, PostAgentDirect
<1> HIDE DEF b
<1>3. SameRooms(inbox, r) /\ Boxed(r)
  BY <1>1, UncountedRate, SameRoomsTwice DEF SameRooms
<1> HIDE DEF r
<1> QED BY <1>1, <1>2, <1>3, UncountedDirect, SameRoomsTwice

\* A publish or an offer registers its id and counts against its sender.
LEMMA NotedRooms ==
  ASSUME Inv, NEW id, NEW from
  PROVE  SameRooms(inbox, RecordRate(RegisterId(ExpireDedup(Drained), id), from))
<1> DEFINE b == ExpireDedup(Drained)
           c == RegisterId(b, id)
<1>1. SameRooms(inbox, b) /\ Boxed(b)
  BY ExpiredRooms DEF SameRooms
<1> HIDE DEF b
<1>2. SameRooms(inbox, c) /\ Boxed(c)
  BY <1>1, Uncounted, SameRoomsTwice DEF SameRooms
<1> HIDE DEF c
<1> QED BY <1>2, UncountedRate, SameRoomsTwice DEF c, b

LEMMA PublishRooms ==
  ASSUME Inv, NEW from, NEW topic, NEW id, NEW bytes, NEW others,
         Publish(from, topic, id, bytes, others)
  PROVE  SameRooms(inbox, inbox')
<1> DEFINE r == RecordRate(RegisterId(ExpireDedup(Drained), id), from)
<1>1. \E new : inbox' = TrimHistory(Insert(r, new))
  BY DEF Publish
<1>2. SameRooms(inbox, r) /\ Boxed(r)
  BY NotedRooms DEF SameRooms
<1> HIDE DEF r
<1>3. PICK new : inbox' = TrimHistory(Insert(r, new))
  BY <1>1
<1>4. SameRooms(r, Insert(r, new)) /\ Boxed(Insert(r, new))
  BY <1>2, UncountedInsert DEF SameRooms
<1> QED BY <1>2, <1>3, <1>4, Uncounted, SameRoomsTwice

\* Handing an offer out changes one entry at most.
LEMMA AssignmentRooms ==
  ASSUME NEW b, Boxed(b), NEW k, NEW candidates, NEW c \in Assignments(b, k, candidates)
  PROVE  SameRooms(b, c)
<1>1. c = b \/ \E a : c = Change(b, k, Assigned(b.messages[k], a))
  BY DEF Assignments
<1> QED BY <1>1, UncountedChange DEF SameRooms

LEMMA OfferRooms ==
  ASSUME Inv, NEW from, NEW scope, NEW id, NEW bytes, NEW ttl, NEW others,
         Offer(from, scope, id, bytes, ttl, others)
  PROVE  SameRooms(inbox, inbox')
<1> DEFINE r == RecordRate(RegisterId(ExpireDedup(Drained), id), from)
           h == InsertOne(r, NewMessage(id, "Offer", scope, NoRecipient, bytes, ttl))
<1>1. inbox' \in Assignments(h, stamp + 1, others)
  BY DEF Offer
<1>2. SameRooms(inbox, r) /\ Boxed(r)
  BY NotedRooms DEF SameRooms
<1> HIDE DEF r
<1>3. SameRooms(inbox, h) /\ Boxed(h)
  BY <1>2, UncountedInsert, SameRoomsTwice DEF SameRooms, InsertOne
<1> HIDE DEF h
<1> QED BY <1>1, <1>3, AssignmentRooms, SameRoomsTwice

\* Deliveries, assignments and verdicts change one entry of the drained box.
LEMMA DeliverRooms ==
  ASSUME Inv, NEW id, NEW a, NEW p, NEW reason, NEW candidates,
         \/ Ack(id, a) \/ TakeReceipt(id, a) \/ CountReceiptRepeat(id, a)
         \/ Complete(id, a) \/ Release(id, a) \/ AssignOffer(id, candidates)
         \/ RequeueReceipt(id, p) \/ Retire(id, p, reason)
  PROVE  SameRooms(inbox, inbox')
<1>1. SameRooms(inbox, Drained) /\ Boxed(Drained)
  BY DrainedRooms DEF SameRooms
<1>2. CASE \E k, m : inbox' \in {Change(Drained, k, m), TrimHistory(Change(Drained, k, m))}
  BY <1>1, <1>2, UncountedChange, SameRoomsTwice
<1>3. CASE AssignOffer(id, candidates)
  BY <1>1, <1>3, AssignmentRooms, SameRoomsTwice DEF AssignOffer
<1>4. CASE CountReceiptRepeat(id, a)
  <2>1. PICK k : inbox' = [Drained EXCEPT !.messages[k] = HandedOut(inbox.messages[k])]
    BY <1>4 DEF CountReceiptRepeat
  <2> DEFINE ms == [Drained.messages EXCEPT ![k] = HandedOut(inbox.messages[k])]
  <2>2. inbox' = [Drained EXCEPT !.messages = ms]
    BY <2>1
  <2> HIDE DEF ms
  <2> QED BY <1>1, <2>2, BoxedField, SameRoomsTwice
<1>5. CASE Ack(id, a)
  BY <1>2, <1>5 DEF Ack
<1>6. CASE TakeReceipt(id, a)
  BY <1>2, <1>6 DEF TakeReceipt
<1>7. CASE Complete(id, a) \/ Release(id, a)
  BY <1>2, <1>7 DEF Complete, Release
<1>8. CASE RequeueReceipt(id, p) \/ Retire(id, p, reason)
  BY <1>2, <1>8 DEF RequeueReceipt, Retire
<1> QED BY <1>3, <1>4, <1>5, <1>6, <1>7, <1>8

\* Sweeps change several.
LEMMA SweepRooms ==
  ASSUME NEW b, Boxed(b), NEW changed
  PROVE  SameRooms(b, TrimHistory(Transition(b, changed)))
BY UncountedTransition, Uncounted, SameRoomsTwice DEF SameRooms

LEMMA UpkeepRooms ==
  ASSUME Inv, NEW a, NEW p, AgentExited(a) \/ ForgetPaneHistory(p) \/ Tick
  PROVE  SameRooms(inbox, inbox')
<1>1. SameRooms(inbox, Drained) /\ Boxed(Drained)
  BY DrainedRooms DEF SameRooms
<1>2. CASE AgentExited(a)
  <2>1. PICK changed : inbox' = TrimHistory(Transition(Drained, changed))
    BY <1>2 DEF AgentExited
  <2> QED BY <1>1, <2>1, SweepRooms, SameRoomsTwice
<1>3. CASE ForgetPaneHistory(p)
  <2>1. PICK ms : inbox' = [Drained EXCEPT !.messages = ms]
    BY <1>3 DEF ForgetPaneHistory
  <2> QED BY <1>1, <2>1, BoxedField, SameRoomsTwice
<1>4. CASE Tick
  <2>1. PICK changed : inbox' = PruneRate(ExpireDedup(TrimHistory(Transition(Drained, changed))))
    BY <1>4 DEF Tick
  <2> DEFINE t == TrimHistory(Transition(Drained, changed))
             e == ExpireDedup(t)
  <2>2. SameRooms(inbox, t) /\ Boxed(t)
    BY <1>1, SweepRooms, SameRoomsTwice DEF SameRooms
  <2>3. inbox' = PruneRate(e)
    BY <2>1
  <2> HIDE DEF t
  <2>4. SameRooms(inbox, e) /\ Boxed(e)
    BY <2>2, Uncounted, SameRoomsTwice DEF SameRooms
  <2> HIDE DEF e
  <2> QED BY <2>3, <2>4, Uncounted, SameRoomsTwice
<1> QED BY <1>2, <1>3, <1>4

\* The operations that do count.
LEMMA Counted ==
  ASSUME NEW b, Boxed(b)
  PROVE  /\ [b EXCEPT !.reserved_replies = @ + 1].reserved_replies = b.reserved_replies + 1
         /\ Boxed(Released(b))
         /\ Released(b).reserved_replies = (IF b.reserved_replies = 0 THEN 0
                                            ELSE b.reserved_replies - 1)
<1> DEFINE x == IF b.reserved_replies = 0 THEN 0 ELSE b.reserved_replies - 1
           y == b.reserved_replies + 1
<1>1. Released(b) = [b EXCEPT !.reserved_replies = x]
  BY DEF Released
<1>2. [b EXCEPT !.reserved_replies = @ + 1] = [b EXCEPT !.reserved_replies = y]
  OBVIOUS
<1> HIDE DEF x, y
<1>3. [b EXCEPT !.reserved_replies = y].reserved_replies = y
  BY DEF Boxed
<1>4. /\ Boxed([b EXCEPT !.reserved_replies = x])
      /\ [b EXCEPT !.reserved_replies = x].reserved_replies = x
  BY DEF Boxed
<1> QED BY <1>1, <1>2, <1>3, <1>4 DEF x, y

\* A post into a reserved room spends it.
LEMMA ReservedRooms ==
  ASSUME Inv, NEW to, NEW id, NEW bytes, PostReservedReply(to, id, bytes)
  PROVE  inbox'.reserved_replies = inbox.reserved_replies - 1 /\ inbox.reserved_replies > 0
<1> DEFINE b == ExpireDedup(Drained)
           r == Released(b)
<1>1. SameRooms(inbox, b) /\ Boxed(b)
  BY ExpiredRooms DEF SameRooms
<1>2. inbox' = InsertDirect(r, to, id, bytes) /\ b.reserved_replies > 0
  BY DEF PostReservedReply
<1>3. inbox.reserved_replies \in Nat
  BY DEF Inv, GoodBox, IsBox
<1> HIDE DEF b
<1>4. Boxed(r) /\ r.reserved_replies = inbox.reserved_replies - 1
  BY <1>1, <1>2, <1>3, Counted DEF SameRooms
<1> HIDE DEF r
<1> QED BY <1>1, <1>2, <1>4, UncountedDirect DEF SameRooms

LEMMA ReserveRooms ==
  ASSUME Inv, NEW p, NEW id, NEW bytes, NEW replacing
  PROVE  /\ ReserveReply \/ ReserveDelegate(p, id, bytes, replacing) =>
              inbox'.reserved_replies = inbox.reserved_replies + 1
         /\ ReleaseReply =>
              inbox'.reserved_replies = (IF inbox.reserved_replies = 0 THEN 0
                                         ELSE inbox.reserved_replies - 1)
<1>1. SameRooms(inbox, Drained) /\ Boxed(Drained)
  BY DrainedRooms DEF SameRooms
<1>2. SameRooms(inbox, ExpireDedup(Drained)) /\ Boxed(ExpireDedup(Drained))
  BY ExpiredRooms DEF SameRooms
<1>3. ReserveReply => inbox'.reserved_replies = inbox.reserved_replies + 1
  BY <1>1, Counted DEF ReserveReply, SameRooms
<1>4. ReserveDelegate(p, id, bytes, replacing) =>
        inbox'.reserved_replies = inbox.reserved_replies + 1
  BY <1>2, Counted DEF ReserveDelegate, SameRooms
<1>5. ReleaseReply =>
        inbox'.reserved_replies = (IF inbox.reserved_replies = 0 THEN 0
                                   ELSE inbox.reserved_replies - 1)
  BY <1>1, Counted DEF ReleaseReply, SameRooms
<1> QED BY <1>3, <1>4, <1>5

-----------------------------------------------------------------------------
(* Holds of the hub's lock.                                                *)

AssignerType == [ids : SUBSET Ids, members : SUBSET Agents, read : BOOLEAN]

\* What any hold of the lock in which no agent comes or goes has to show.
LEMMA HubKept ==
  ASSUME HubInv, NEW R, Kept(R), status' = status,
         \A a \in Agents : Bound(a) \in R => status[a] = "Live",
         WatchTypes, Watching', Roomy', Underway', Rooms',
         dispatch' \in [Workers -> DispatchRecords], replies' \in Nat,
         assigner' \in AssignerType
  PROVE  HubInv'
<1>1. Inv'
  BY KeptTells
<1>2. NoOrphans'
  <2>1. \A a \in Agents : Bound(a) \in R => status'[a] \in {"Live", "Gone"}
    OBVIOUS
  <2>2. \A a \in Agents : status[a] \in {"Live", "Gone"} => status'[a] \in {"Live", "Gone"}
    OBVIOUS
  <2> QED BY <2>1, <2>2, OrphansKept DEF HubInv
<1>3. HubTyped'
  BY DEF HubInv, HubTyped, WatchTypes, AssignerType
<1>4. OneLive'
  BY DEF HubInv, OneLive, LiveAgents
<1> QED BY <1>1, <1>2, <1>3, <1>4 DEF HubInv

\* One that leaves the dispatches and answers alone.
LEMMA QuietKept ==
  ASSUME HubInv, NEW R, Kept(R), SameRooms(inbox, inbox'), status' = status,
         \A a \in Agents : Bound(a) \in R => status[a] = "Live",
         WatchTypes, Watching', Roomy', SameDispatch, assigner' \in AssignerType
  PROVE  HubInv'
<1>1. Underway'
  BY DEF HubInv, Underway, SameDispatch
<1>2. Rooms'
  BY DEF HubInv, Rooms, ReservationsExact, Busy, SameDispatch, SameRooms
<1>3. dispatch' \in [Workers -> DispatchRecords] /\ replies' \in Nat
  BY DEF HubInv, HubTyped, SameDispatch
<1> QED BY <1>1, <1>2, <1>3, HubKept

LEMMA PlainKept ==
  ASSUME HubInv, NEW R, Kept(R), SameRooms(inbox, inbox'), Plain, Roomy',
         \A a \in Agents : Bound(a) \in R => status[a] = "Live"
  PROVE  HubInv'
<1>1. /\ status' = status /\ SameDispatch /\ assigner' \in AssignerType
      /\ WatchTypes /\ DOMAIN delegates' = DOMAIN delegates \ Ended
  BY DrainSettles DEF HubInv, HubTyped, Plain, registry, actors, SameDispatch, AssignerType
<1>2. Watching'
  BY <1>1, WatchingKept DEF HubInv
<1> QED BY <1>1, <1>2, QuietKept

\* Room is not taken by a step that posts nothing and reserves nothing.
LEMMA QuietRoom ==
  ASSUME HubInv, NEW R, Kept(R), stamp' = stamp,
         DOMAIN delegates \ DOMAIN delegates' \subseteq Ended,
         inbox'.reserved_replies <= inbox.reserved_replies,
         inbox'.reserved_replies \in Nat
  PROVE  Roomy'
<1>1. inbox.reserved_replies \in Nat /\ stamp \in Nat
  BY DEF HubInv, Inv, GoodBox, IsBox
<1>2. stamp <= stamp' /\ stamp' - stamp + inbox'.reserved_replies <= inbox.reserved_replies
  BY <1>1
<1> QED BY <1>2, RoomKept DEF HubInv

LEMMA PlainQuiet ==
  ASSUME HubInv, Kept({}), SameRooms(inbox, inbox'), Plain, stamp' = stamp
  PROVE  HubInv'
<1>1. DOMAIN delegates \ DOMAIN delegates' \subseteq Ended
  BY DrainSettles DEF HubInv, Plain
<1>2. inbox'.reserved_replies = inbox.reserved_replies /\ inbox.reserved_replies \in Nat
  BY DEF SameRooms, HubInv, Inv, GoodBox, IsBox
<1>3. Roomy'
  BY <1>1, <1>2, QuietRoom
<1> QED BY <1>3, PlainKept

\* A post that check_room admitted.
LEMMA AdmittedRoom ==
  ASSUME Inv, NEW R, Kept(R), SameRooms(inbox, inbox'), NEW n \in Nat,
         stamp' = stamp + n, CheckRoom(ExpireDedup(Drained), n)
  PROVE  Roomy'
<1> DEFINE b == ExpireDedup(Drained)
<1>1. b.messages = inbox.messages
  BY KeepsExpired
<1>2. b.reserved_replies = inbox.reserved_replies /\ inbox'.reserved_replies = inbox.reserved_replies
  BY ExpiredRooms DEF SameRooms
<1>3. Cardinality(Live(b)) + b.reserved_replies + n <= MaxMessages
  BY DEF CheckRoom
<1> HIDE DEF b
<1>4. Live(b) = Live(inbox)
  BY <1>1 DEF Live, Held
<1>5. inbox.reserved_replies \in Nat /\ stamp \in Nat /\ Cardinality(Live(inbox)) \in Nat
  BY LiveFinite DEF Inv, GoodBox, IsBox
<1>6. MaxMessages \in Nat
  BY InboxLimits
<1>7. /\ stamp <= stamp' /\ inbox'.reserved_replies \in Nat
      /\ Cardinality(Live(inbox)) + (stamp' - stamp) + inbox'.reserved_replies <= MaxMessages
  BY <1>2, <1>3, <1>4, <1>5, <1>6
<1> QED BY <1>7, RoomChecked

LEMMA HubPostKept ==
  ASSUME HubInv, NEW to \in Addressees, NEW id \in Ids, NEW bytes \in BodySizes,
         HubPost(to, id, bytes) \/ \E from \in Senders : HubPostAgent(from, to, id, bytes)
  PROVE  HubInv'
<1>1. PICK from : /\ PostDirect(to, id, bytes) \/
                     (from \in Agents /\ PostAgentDirect(from, to, id, bytes))
                  /\ Holds(to) /\ Plain
  BY HubConstants DEF HubPost, HubPostAgent
<1>2. Kept({to})
  BY <1>1, AddresseeType, PostDirectKept, PostAgentDirectKept DEF HubInv
<1>3. SameRooms(inbox, inbox')
  BY <1>1, PostRooms DEF HubInv
<1>4. stamp' = stamp + 1 /\ CheckRoom(ExpireDedup(Drained), 1)
  BY <1>1 DEF PostDirect, PostAgentDirect, AdmitDirect, AdmitReply
<1>5. Roomy'
  BY <1>2, <1>3, <1>4, AdmittedRoom DEF HubInv
<1>6. \A a \in Agents : Bound(a) \in {to} => status[a] = "Live"
  BY <1>1 DEF Holds, Bound
<1> QED BY <1>1, <1>2, <1>3, <1>5, <1>6, PlainKept

\* Parts of the live agents have one agent of a pane at most.
LEMMA LivePart ==
  ASSUME HubInv, NEW others, others \subseteq LiveAgents
  PROVE  others \in OnePerPane /\ \A a \in others : a \in Agents /\ status[a] = "Live"
BY DEF HubInv, OneLive, OnePerPane, LiveAgents

LEMMA HubPublishKept ==
  ASSUME HubInv, NEW from \in Senders, NEW topic, NEW id \in Ids,
         NEW bytes \in BodySizes, NEW others \in SUBSET LiveAgents,
         HubPublish(from, topic, id, bytes, others)
  PROVE  HubInv'
<1> DEFINE R == {Bound(a) : a \in others}
           room == {a \in others : HasRoomFor(ExpireDedup(Drained), PaneOf[a])}
           n == Cardinality(room)
<1>1. others \in OnePerPane /\ \A a \in others : a \in Agents /\ status[a] = "Live"
  BY LivePart
<1>2. Publish(from, topic, id, bytes, others) /\ Plain /\ from \in Agents
  BY HubConstants DEF HubPublish
<1>3. Kept(R)
  BY <1>1, <1>2, PublishKept DEF HubInv
<1>4. SameRooms(inbox, inbox')
  BY <1>2, PublishRooms DEF HubInv
<1>5. n \in Nat
  BY <1>1, InboxConstants, CountPart
<1>6. stamp' = stamp + n /\ CheckRoom(ExpireDedup(Drained), n)
  BY <1>2 DEF Publish
<1> HIDE DEF n
<1>7. Roomy'
  BY <1>3, <1>4, <1>5, <1>6, AdmittedRoom DEF HubInv
<1>8. \A a \in Agents : Bound(a) \in R => status[a] = "Live"
  BY <1>1 DEF Bound
<1> QED BY <1>2, <1>3, <1>4, <1>7, <1>8, PlainKept

LEMMA HubOfferKept ==
  ASSUME HubInv, NEW from \in Senders, NEW scope \in Scopes, NEW id \in Ids,
         NEW bytes \in BodySizes, NEW ttl \in ClaimTtls,
         NEW others \in SUBSET LiveAgents,
         HubOffer(from, scope, id, bytes, ttl, others)
  PROVE  HubInv'
<1> DEFINE R == {Bound(a) : a \in others}
           f == [i \in DOMAIN offers \cup {id} |-> IF i = id THEN from ELSE offers[i]]
<1>1. others \in OnePerPane /\ \A a \in others : a \in Agents /\ status[a] = "Live"
  BY LivePart
<1>2. /\ Offer(from, scope, id, bytes, ttl, others) /\ from \in Agents
      /\ delegates' = Settle(delegates) /\ offers' = Settle(f)
      /\ UNCHANGED <<registry, actors>>
  BY HubConstants DEF HubOffer
<1>3. Kept(R)
  BY <1>1, <1>2, OfferKept DEF HubInv
<1>4. SameRooms(inbox, inbox')
  BY <1>2, OfferRooms DEF HubInv
<1>5. stamp' = stamp + 1 /\ CheckRoom(ExpireDedup(Drained), 1)
  BY <1>2 DEF Offer
<1>6. Roomy'
  BY <1>3, <1>4, <1>5, AdmittedRoom DEF HubInv
<1>7. \A a \in Agents : Bound(a) \in R => status[a] = "Live"
  BY <1>1 DEF Bound
<1>8. f \in [DOMAIN f -> Agents] /\ DOMAIN f \subseteq Ids
  BY <1>2 DEF HubInv, HubTyped
<1> HIDE DEF f
<1>9. WatchTypes /\ DOMAIN delegates' = DOMAIN delegates \ Ended
  BY <1>2, <1>8, SettleType DEF HubInv, HubTyped, WatchTypes
<1>10. Watching'
  BY <1>3, <1>9, WatchingKept DEF HubInv
<1>11. status' = status /\ SameDispatch /\ assigner' \in AssignerType
  BY <1>2 DEF HubInv, HubTyped, registry, actors, SameDispatch, AssignerType
<1> QED BY <1>3, <1>4, <1>6, <1>7, <1>9, <1>10, <1>11, QuietKept

-----------------------------------------------------------------------------
(* Answers.                                                                 *)

\* The step of a reservation, an answer or a release: its count and its room.
LEMMA AnswerKept ==
  ASSUME HubInv, NEW R, Kept(R), Drain, UNCHANGED <<registry, dispatch, assigner>>,
         \A a \in Agents : Bound(a) \in R => status[a] = "Live",
         Roomy', replies' \in Nat, inbox.reserved_replies \in Nat,
         inbox'.reserved_replies - replies' = inbox.reserved_replies - replies,
         inbox'.reserved_replies \in Nat
  PROVE  HubInv'
<1>1. /\ status' = status /\ dispatch' = dispatch /\ assigner' \in AssignerType
      /\ WatchTypes /\ DOMAIN delegates' = DOMAIN delegates \ Ended
  BY DrainSettles DEF HubInv, HubTyped, registry, AssignerType
<1>2. Watching'
  BY <1>1, WatchingKept DEF HubInv
<1>3. Underway'
  BY <1>1 DEF HubInv, Underway
<1>4. Rooms'
  <2>1. Busy' = Busy
    BY <1>1 DEF Busy
  <2>2. Cardinality(Busy) \in Nat /\ IsFiniteSet(Busy) /\ replies \in Nat
    BY FS_CardinalityType DEF HubInv, Rooms, HubTyped
  <2>3. inbox.reserved_replies = replies + Cardinality(Busy)
    BY DEF HubInv, Rooms, ReservationsExact, Busy
  <2>4. inbox'.reserved_replies = replies' + Cardinality(Busy)
    BY <2>2, <2>3
  <2>5. ReservationsExact'
    BY <2>1, <2>4 DEF ReservationsExact, Busy
  <2> QED BY <2>1, <2>2, <2>5 DEF Rooms
<1>5. dispatch' \in [Workers -> DispatchRecords]
  BY <1>1 DEF HubInv, HubTyped
<1> QED BY <1>1, <1>2, <1>3, <1>4, <1>5, HubKept

\* Counts of rooms are numbers, and those of the answers are among them.
LEMMA RoomTypes ==
  ASSUME HubInv
  PROVE  /\ inbox.reserved_replies \in Nat /\ replies \in Nat /\ stamp \in Nat
         /\ replies <= inbox.reserved_replies
         /\ IsFiniteSet(Busy) /\ Cardinality(Busy) \in Nat
         /\ inbox.reserved_replies = replies + Cardinality(Busy)
<1>1. IsFiniteSet(Busy) /\ Cardinality(Busy) \in Nat
  BY FS_CardinalityType DEF HubInv, Rooms
<1>2. inbox.reserved_replies \in Nat /\ replies \in Nat /\ stamp \in Nat
  BY DEF HubInv, Inv, GoodBox, IsBox, HubTyped
<1>3. inbox.reserved_replies = replies + Cardinality(Busy)
  BY DEF HubInv, Rooms, ReservationsExact, Busy
<1> QED BY <1>1, <1>2, <1>3

LEMMA ReserveReplyKept ==
  ASSUME HubInv, HubReserveReply
  PROVE  HubInv'
<1>1. ReserveReply /\ replies' = replies + 1 /\ Drain
      /\ UNCHANGED <<registry, dispatch, assigner>>
  BY DEF HubReserveReply
<1>2. Kept({})
  BY <1>1, ReserveKept DEF HubInv
<1>3. inbox'.reserved_replies = inbox.reserved_replies + 1
  BY <1>1, ReserveRooms DEF HubInv
<1>4. stamp' = stamp /\ Cardinality(Live(inbox)) + inbox.reserved_replies + 1 <= MaxMessages
  BY <1>1 DEF ReserveReply, CheckRoom
<1>5. Roomy'
  <2>1. Cardinality(Live(inbox)) \in Nat /\ MaxMessages \in Nat
    BY LiveFinite, InboxLimits DEF HubInv
  <2>2. /\ stamp <= stamp' /\ inbox'.reserved_replies \in Nat
        /\ Cardinality(Live(inbox)) + (stamp' - stamp) + inbox'.reserved_replies <= MaxMessages
    BY <1>3, <1>4, <2>1, RoomTypes
  <2> QED BY <1>2, <2>2, RoomChecked DEF HubInv
<1>6. /\ replies' \in Nat /\ inbox'.reserved_replies \in Nat
      /\ inbox'.reserved_replies - replies' = inbox.reserved_replies - replies
  BY <1>1, <1>3, RoomTypes
<1> QED BY <1>1, <1>2, <1>5, <1>6, RoomTypes, AnswerKept

\* The room of a post into a reservation.
LEMMA SpentRoom ==
  ASSUME HubInv, NEW R, Kept(R), Drain, stamp' = stamp + 1, inbox.reserved_replies > 0,
         inbox'.reserved_replies = inbox.reserved_replies - 1
  PROVE  Roomy' /\ inbox'.reserved_replies \in Nat
<1>1. DOMAIN delegates \ DOMAIN delegates' \subseteq Ended
  BY DrainSettles DEF HubInv
<1>2. /\ stamp <= stamp' /\ inbox'.reserved_replies \in Nat
      /\ stamp' - stamp + inbox'.reserved_replies <= inbox.reserved_replies
  BY RoomTypes
<1> QED BY <1>1, <1>2, RoomKept DEF HubInv

LEMMA PostReplyKept ==
  ASSUME HubInv, NEW to \in Addressees, NEW id \in Ids, NEW bytes \in BodySizes,
         HubPostReply(to, id, bytes)
  PROVE  HubInv'
<1>1. /\ PostReservedReply(to, id, bytes) /\ replies > 0 /\ replies' = replies - 1 /\ Drain
      /\ UNCHANGED <<registry, dispatch, assigner>> /\ Holds(to)
  BY DEF HubPostReply
<1>2. Kept({to})
  BY <1>1, AddresseeType, PostReservedReplyKept DEF HubInv
<1>3. /\ inbox'.reserved_replies = inbox.reserved_replies - 1 /\ inbox.reserved_replies > 0
      /\ stamp' = stamp + 1
  BY <1>1, ReservedRooms DEF HubInv, PostReservedReply
<1>4. Roomy' /\ inbox'.reserved_replies \in Nat
  BY <1>1, <1>2, <1>3, SpentRoom
<1>5. /\ replies' \in Nat
      /\ inbox'.reserved_replies - replies' = inbox.reserved_replies - replies
  BY <1>1, <1>3, RoomTypes
<1>6. \A a \in Agents : Bound(a) \in {to} => status[a] = "Live"
  BY <1>1 DEF Holds, Bound
<1> QED BY <1>1, <1>2, <1>4, <1>5, <1>6, RoomTypes, AnswerKept

\* A room given back.
LEMMA ReleasedRoom ==
  ASSUME HubInv, ReleaseReply, Drain, inbox.reserved_replies > 0
  PROVE  /\ Kept({}) /\ Roomy'
         /\ inbox'.reserved_replies = inbox.reserved_replies - 1
         /\ inbox'.reserved_replies \in Nat
<1>1. Kept({}) /\ stamp' = stamp
  BY ReserveKept DEF HubInv, ReleaseReply
<1>2. inbox'.reserved_replies = inbox.reserved_replies - 1 /\ inbox'.reserved_replies \in Nat
  BY ReserveRooms, RoomTypes DEF HubInv
<1>3. DOMAIN delegates \ DOMAIN delegates' \subseteq Ended
  BY DrainSettles DEF HubInv
<1>4. inbox'.reserved_replies <= inbox.reserved_replies
  BY <1>2, RoomTypes
<1> QED BY <1>1, <1>2, <1>3, <1>4, QuietRoom

LEMMA DropReplyKept ==
  ASSUME HubInv, DropReply
  PROVE  HubInv'
<1>1. /\ ReleaseReply /\ replies > 0 /\ replies' = replies - 1 /\ Drain
      /\ UNCHANGED <<registry, dispatch, assigner>>
  BY DEF DropReply
<1>2. inbox.reserved_replies > 0
  BY <1>1, RoomTypes
<1>3. /\ Kept({}) /\ Roomy' /\ inbox'.reserved_replies = inbox.reserved_replies - 1
      /\ inbox'.reserved_replies \in Nat
  BY <1>1, <1>2, ReleasedRoom
<1>4. /\ replies' \in Nat
      /\ inbox'.reserved_replies - replies' = inbox.reserved_replies - replies
  BY <1>1, <1>3, RoomTypes
<1> QED BY <1>1, <1>3, <1>4, RoomTypes, AnswerKept

-----------------------------------------------------------------------------
(* Dispatches.                                                              *)

\* A dispatch that moves on: it holds a room exactly while it is not idle.
LEMMA DispatchMoved ==
  ASSUME HubInv, replies' = replies, NEW p \in Workers, NEW d \in DispatchRecords,
         DispatchOK(d), dispatch' = [dispatch EXCEPT ![p] = d],
         inbox'.reserved_replies =
           inbox.reserved_replies + Gain(dispatch[p].phase # "Idle", d.phase # "Idle")
  PROVE  dispatch' \in [Workers -> DispatchRecords] /\ Underway' /\ Rooms'
<1>1. dispatch' \in [Workers -> DispatchRecords]
  BY DEF HubInv, HubTyped
<1>2. dispatch'[p] = d /\ \A q \in Workers : q # p => dispatch'[q] = dispatch[q]
  BY DEF HubInv, HubTyped
<1>3. Underway'
  BY <1>2 DEF HubInv, Underway
<1>4. Rooms'
  <2>1. \A q : q # p => (q \in Busy <=> q \in Busy')
    BY <1>2 DEF Busy
  <2>2. /\ p \in Busy <=> dispatch[p].phase # "Idle"
        /\ p \in Busy' <=> d.phase # "Idle"
    BY <1>2 DEF Busy
  <2>3. /\ IsFiniteSet(Busy') /\ Cardinality(Busy') \in Nat
        /\ Cardinality(Busy') = Cardinality(Busy) + Gain(p \in Busy, p \in Busy')
    BY <2>1, RoomTypes, CountMove
  <2>4. Gain(p \in Busy, p \in Busy') = Gain(dispatch[p].phase # "Idle", d.phase # "Idle")
    BY <2>2 DEF Gain
  <2>5. Gain(dispatch[p].phase # "Idle", d.phase # "Idle") \in Int
    BY DEF Gain
  <2>6. inbox'.reserved_replies = replies' + Cardinality(Busy')
    BY <2>3, <2>4, <2>5, RoomTypes
  <2>7. ReservationsExact'
    BY <2>6 DEF ReservationsExact, Busy
  <2> QED BY <2>3, <2>7 DEF Rooms
<1> QED BY <1>1, <1>3, <1>4

LEMMA DispatchKept ==
  ASSUME HubInv, NEW R, Kept(R), UNCHANGED <<registry, replies, assigner>>,
         \A a \in Agents : Bound(a) \in R => status[a] = "Live",
         WatchTypes, Watching', Roomy', NEW p \in Workers, NEW d \in DispatchRecords,
         DispatchOK(d), dispatch' = [dispatch EXCEPT ![p] = d],
         inbox'.reserved_replies =
           inbox.reserved_replies + Gain(dispatch[p].phase # "Idle", d.phase # "Idle")
  PROVE  HubInv'
<1>1. status' = status /\ replies' = replies /\ replies' \in Nat /\ assigner' \in AssignerType
  BY DEF HubInv, HubTyped, registry, AssignerType
<1>2. dispatch' \in [Workers -> DispatchRecords] /\ Underway' /\ Rooms'
  BY <1>1, DispatchMoved
<1> QED BY <1>1, <1>2, HubKept

\* A dispatch under way has its room.
LEMMA BusyRoom ==
  ASSUME HubInv, NEW p \in Workers, dispatch[p].phase # "Idle"
  PROVE  inbox.reserved_replies > 0
<1>1. p \in Busy
  BY DEF Busy
<1>2. Cardinality(Busy) # 0
  BY <1>1, RoomTypes, FS_EmptySet
<1> QED BY <1>2, RoomTypes

\* Sets apart in a finite set.
LEMMA CountApart ==
  ASSUME NEW S, IsFiniteSet(S), NEW A, NEW B, A \subseteq S, B \subseteq S, A \cap B = {}
  PROVE  /\ Cardinality(A) + Cardinality(B) <= Cardinality(S)
         /\ Cardinality(A) \in Nat /\ Cardinality(B) \in Nat /\ Cardinality(S) \in Nat
<1>1. /\ IsFiniteSet(A) /\ IsFiniteSet(B) /\ Cardinality(A) \in Nat /\ Cardinality(B) \in Nat
      /\ Cardinality(S) \in Nat
  BY CountPart
<1>2. /\ IsFiniteSet(A \cup B)
      /\ Cardinality(A \cup B) = Cardinality(A) + Cardinality(B) - Cardinality(A \cap B)
  BY <1>1, FS_Union
<1>3. Cardinality(A \cap B) = 0
  BY FS_EmptySet
<1>4. Cardinality(A \cup B) <= Cardinality(S)
  BY CountPart
<1> QED BY <1>1, <1>2, <1>3, <1>4

\* reserve_delegate counts the tasks it will replace as room: they are watched.
LEMMA ReservedRoom ==
  ASSUME HubInv, NEW R, Kept(R), Drain, NEW p, NEW id, NEW bytes,
         ReserveDelegate(p, id, bytes, Cardinality(Watched(inbox, p)))
  PROVE  Roomy' /\ inbox'.reserved_replies = inbox.reserved_replies + 1
<1> DEFINE b == ExpireDedup(Drained)
           W == Watched(inbox, p)
           U == Unwatched(inbox, DOMAIN delegates)
           T == Unwatched(inbox', DOMAIN delegates')
<1>1. inbox'.reserved_replies = inbox.reserved_replies + 1
  BY ReserveRooms DEF HubInv
<1>2. stamp' = stamp /\ Cardinality(Live(b)) + b.reserved_replies + 1 <= MaxMessages + Cardinality(W)
  BY DEF ReserveDelegate
<1>3. b.messages = inbox.messages /\ b.reserved_replies = inbox.reserved_replies
  BY KeepsExpired, ExpiredRooms DEF HubInv, SameRooms
<1> HIDE DEF b
<1>4. Live(b) = Live(inbox)
  BY <1>3 DEF Live, Held
<1>5. W \subseteq Live(inbox) /\ U \subseteq Live(inbox) /\ W \cap U = {}
  BY DEF Watched, Unwatched
<1>6. T \subseteq U
  <2>1. DOMAIN delegates \ DOMAIN delegates' \subseteq Ended
    BY DrainSettles DEF HubInv
  <2>2. T \subseteq U \cup ((stamp + 1)..stamp')
    BY <2>1, StaysUnwatched DEF HubInv
  <2>3. (stamp + 1)..stamp' = {}
    BY <1>2, RoomTypes
  <2> QED BY <2>2, <2>3
<1> HIDE DEF W, U, T
<1>7. /\ Cardinality(W) + Cardinality(U) <= Cardinality(Live(inbox))
      /\ Cardinality(W) \in Nat /\ Cardinality(U) \in Nat /\ Cardinality(Live(inbox)) \in Nat
  BY <1>5, LiveFinite, CountApart DEF HubInv
<1>8. Cardinality(T) <= Cardinality(U) /\ Cardinality(T) \in Nat
  <2>1. IsFiniteSet(U)
    BY <1>5, LiveFinite, CountPart DEF HubInv
  <2> QED BY <1>6, <2>1, CountPart
<1>9. MaxMessages \in Nat
  BY InboxLimits
<1>10. Cardinality(T) + inbox'.reserved_replies <= MaxMessages
  BY <1>1, <1>2, <1>3, <1>4, <1>7, <1>8, <1>9, RoomTypes
<1>11. Roomy'
  BY <1>10 DEF Roomy, T, Unwatched, Live, Held
<1> QED BY <1>1, <1>11

LEMMA DispatchType ==
  ASSUME HubInv, NEW p \in Workers
  PROVE  dispatch[p] \in DispatchRecords /\ DispatchOK(dispatch[p])
BY DEF HubInv, HubTyped, Underway

LEMMA IdleType == Idle \in DispatchRecords /\ DispatchOK(Idle) /\ Idle.phase = "Idle"
BY DEF Idle, DispatchRecords, Phases, DispatchOK

LEMMA BeginKept ==
  ASSUME HubInv, NEW p \in Workers, NEW o \in Senders \cap LiveAgents, NEW id \in Ids,
         NEW bytes \in BodySizes, NEW clear \in BOOLEAN, Begin(p, o, id, bytes, clear)
  PROVE  HubInv'
<1> DEFINE d == [phase |-> "Reserved", id |-> id, bytes |-> bytes,
                 clear |-> clear, worker |-> Unbound, orchestrator |-> o]
<1>1. /\ dispatch[p].phase = "Idle" /\ dispatch' = [dispatch EXCEPT ![p] = d] /\ Drain
      /\ ReserveDelegate(p, id, bytes, Cardinality(Watched(inbox, p)))
      /\ UNCHANGED <<registry, replies, assigner>>
  BY DEF Begin
<1>2. d \in DispatchRecords /\ DispatchOK(d) /\ d.phase = "Reserved"
  BY AddresseeType, HubConstants DEF DispatchRecords, Phases, DispatchOK
<1> HIDE DEF d
<1>3. Kept({})
  BY <1>1, ReserveKept DEF HubInv
<1>4. Roomy' /\ inbox'.reserved_replies = inbox.reserved_replies + 1
  BY <1>1, <1>3, ReservedRoom
<1>5. WatchTypes /\ DOMAIN delegates' = DOMAIN delegates \ Ended
  BY <1>1, DrainSettles DEF HubInv
<1>6. Watching'
  BY <1>3, <1>5, WatchingKept DEF HubInv
<1>7. inbox'.reserved_replies =
        inbox.reserved_replies + Gain(dispatch[p].phase # "Idle", d.phase # "Idle")
  BY <1>1, <1>2, <1>4 DEF Gain
<1> QED BY <1>1, <1>2, <1>3, <1>4, <1>5, <1>6, <1>7, DispatchKept

\* retire_delegates_locked, on a box with the inbox's messages.
LEMMA RetiredKeeps ==
  ASSUME HubInv, NEW R, NEW b, Keeps(b, stamp, R), b.messages = inbox.messages, NEW p
  PROVE  /\ Keeps(Retired(b, p), stamp, R)
         /\ Held(Retired(b, p)) \subseteq Held(inbox)
<1> DEFINE W == Watched(b, p)
           changed == [k \in W |-> Moved(b.messages[k], Undeliverable("Superseded"))]
           t == Transition(b, changed)
<1>1. W \subseteq Held(b) /\ Held(b) = Held(inbox) /\ \A k \in W : ~Terminal(b.messages[k])
  BY DEF Watched, Live, Held
<1>2. ASSUME NEW k \in W
      PROVE  MayBecome(b, k, Moved(b.messages[k], Undeliverable("Superseded")), R)
  <2> DEFINE m == inbox.messages[k]
             x == Moved(m, Undeliverable("Superseded"))
  <2>1. Good(m) /\ ~Terminal(m) /\ k \in Held(inbox)
    BY <1>1 DEF HubInv, Inv, GoodBox
  <2>2. "Superseded" \in Reasons
    BY DEF Reasons
  <2>3. Good(x) /\ Continues(m, x)
    BY <2>1, <2>2, EndedGood DEF HubInv, Inv
  <2> HIDE DEF x
  <2>4. MayBecome(b, k, x, R)
    BY <2>1, <2>3, ContinuesBecome
  <2> QED BY <2>4 DEF x
<1>3. Retired(b, p) = TrimHistory(t)
  BY DEF Retired
<1> HIDE DEF W
<1>4. DOMAIN changed = W /\ \A k \in DOMAIN changed : MayBecome(b, k, changed[k], R)
  BY <1>2
<1> HIDE DEF changed
<1>5. Keeps(t, stamp, R)
  BY <1>1, <1>4, KeepsTransition DEF HubInv, Inv
<1>6. Held(t) = Held(b)
  BY <1>1, <1>4, TransitionGood DEF HubInv, Inv, Keeps, MayBecome
<1> HIDE DEF t
<1>7. Keeps(TrimHistory(t), stamp, R)
  BY <1>5, KeepsTrim DEF HubInv, Inv
<1>8. Held(TrimHistory(t)) \subseteq Held(t)
  BY <1>5, TrimGood DEF HubInv, Inv, Keeps
<1> QED BY <1>1, <1>3, <1>6, <1>7, <1>8

LEMMA RetiredRooms ==
  ASSUME NEW b, Boxed(b), NEW p
  PROVE  SameRooms(b, Retired(b, p))
BY SweepRooms DEF Retired

\* Retiring a pane's tasks, and nothing else.
LEMMA RetiringKept ==
  ASSUME HubInv, NEW p, inbox' = Retired(Drained, p), UNCHANGED <<stamp, now>>, Drain
  PROVE  /\ Kept({}) /\ SameRooms(inbox, inbox') /\ Roomy' /\ WatchTypes /\ Watching'
<1>1. Keeps(Drained, stamp, {}) /\ Drained.messages = inbox.messages
  BY KeepsDrained DEF HubInv
<1>2. Kept({})
  BY <1>1, RetiredKeeps DEF Kept, HubInv, Inv
<1>3. SameRooms(inbox, inbox')
  BY DrainedRooms, RetiredRooms, SameRoomsTwice DEF HubInv, SameRooms
<1>4. WatchTypes /\ DOMAIN delegates' = DOMAIN delegates \ Ended
  BY DrainSettles DEF HubInv
<1>5. Watching'
  BY <1>2, <1>4, WatchingKept DEF HubInv
<1>6. inbox'.reserved_replies <= inbox.reserved_replies /\ inbox'.reserved_replies \in Nat
  BY <1>3, RoomTypes DEF SameRooms
<1>7. Roomy'
  BY <1>2, <1>4, <1>6, QuietRoom
<1> QED BY <1>2, <1>3, <1>4, <1>5, <1>7

LEMMA SupersedeKept ==
  ASSUME HubInv, NEW p \in Workers, Supersede(p) \/ SupersedeForClear(p)
  PROVE  HubInv'
<1>1. Kept({}) /\ SameRooms(inbox, inbox') /\ Roomy' /\ WatchTypes /\ Watching'
  BY RetiringKept DEF Supersede, SupersedeForClear, Plain
<1>2. CASE Supersede(p)
  BY <1>1, <1>2, PlainKept DEF Supersede
<1>3. CASE SupersedeForClear(p)
  <2> DEFINE d == [dispatch[p] EXCEPT !.phase = "Superseded"]
  <2>1. /\ dispatch[p].phase = "Reserved" /\ dispatch' = [dispatch EXCEPT ![p] = d]
        /\ UNCHANGED <<registry, replies, assigner>>
    BY <1>3 DEF SupersedeForClear
  <2>2. d \in DispatchRecords /\ DispatchOK(d) /\ d.phase = "Superseded"
    BY <2>1, DispatchType DEF DispatchRecords, Phases, DispatchOK
  <2> HIDE DEF d
  <2>3. inbox'.reserved_replies =
          inbox.reserved_replies + Gain(dispatch[p].phase # "Idle", d.phase # "Idle")
    BY <1>1, <2>1, <2>2, RoomTypes DEF Gain, SameRooms
  <2> QED BY <1>1, <2>1, <2>2, <2>3, DispatchKept
<1> QED BY <1>2, <1>3

\* A new direct message is there, whatever the history drops.
LEMMA InsertedDirect ==
  ASSUME Inv, NEW R, NEW b, Keeps(b, stamp, R), NEW to \in Recipients, NEW id \in Ids,
         NEW bytes \in Nat
  PROVE  LET c == InsertDirect(b, to, id, bytes)
         IN  /\ stamp + 1 \in Live(c)
             /\ c.messages[stamp + 1].id = id /\ c.messages[stamp + 1].kind = "Direct"
<1> DEFINE m == NewMessage(id, "Direct", "None", to, bytes, 0)
           new == [k \in {stamp + 1} |-> m]
           r == RegisterId(b, id)
           i == Insert(r, new)
<1>1. Good(m) /\ m.id = id /\ m.kind = "Direct" /\ ~Terminal(m)
  BY NewGood DEF Inv, NewMessage
<1>2. GoodBox(r, stamp)
  BY RegisterIdGood DEF Keeps, Inv
<1>3. InsertDirect(b, to, id, bytes) = TrimHistory(i)
  BY DEF InsertDirect, InsertOne
<1> HIDE DEF m, r
<1>4. /\ DOMAIN new = {stamp + 1} /\ new[stamp + 1] = m /\ \A k \in DOMAIN new : Good(new[k])
      /\ stamp + 1 \in Nat /\ stamp \in Nat /\ stamp <= stamp + 1
      /\ DOMAIN new \subseteq (stamp + 1)..(stamp + 1)
  BY <1>1 DEF Inv
<1> HIDE DEF new
<1>5. GoodBox(i, stamp + 1) /\ stamp + 1 \in Held(i) /\ i.messages[stamp + 1] = m
  BY <1>2, <1>4, InsertGood
<1>6. stamp + 1 \in Live(i)
  BY <1>1, <1>5 DEF Live
<1> HIDE DEF i
<1>7. Live(TrimHistory(i)) = Live(i) /\ TrimHistory(i).messages[stamp + 1] = i.messages[stamp + 1]
  BY <1>4, <1>5, <1>6, TrimGood
<1> QED BY <1>1, <1>3, <1>5, <1>6, <1>7

LEMMA PostDelegateKept ==
  ASSUME HubInv, NEW p \in Workers, PostDelegate(p)
  PROVE  HubInv'
<1>1. dispatch[p].phase = "Bound" /\ status[dispatch[p].worker] = "Live"
  BY DEF PostDelegate
<1>2. /\ dispatch[p].worker \in Agents /\ dispatch[p].id \in Ids /\ dispatch[p].bytes \in Nat
      /\ dispatch[p].phase # "Idle"
  BY <1>1, DispatchType DEF DispatchOK, DispatchRecords
<1>3. PICK w \in Agents, id \in Ids, bytes \in Nat :
        w = dispatch[p].worker /\ id = dispatch[p].id /\ bytes = dispatch[p].bytes
  BY <1>2
<1> DEFINE R == {Bound(w)}
           b == ExpireDedup(Drained)
           t == Retired(b, p)
           r == Released(t)
<1>4. /\ AdmitReservedReply(b, id, bytes)
      /\ inbox' = InsertDirect(r, Bound(w), id, bytes)
      /\ stamp' = stamp + 1 /\ now' = now
      /\ delegates' = [i \in DOMAIN Settle(delegates) \cup {id} |->
                         IF i = id THEN w ELSE delegates[i]]
      /\ offers' = Settle(offers)
      /\ dispatch' = [dispatch EXCEPT ![p] = Idle]
      /\ UNCHANGED <<registry, replies, assigner>>
  BY <1>3 DEF PostDelegate
<1>5. Keeps(b, stamp, R) /\ b.messages = inbox.messages
  BY KeepsExpired DEF HubInv
<1>6. SameRooms(inbox, b) /\ Boxed(b)
  BY ExpiredRooms DEF HubInv, SameRooms
<1>7. \A k \in Held(inbox) : inbox.messages[k].id # id
  BY <1>4, <1>5 DEF AdmitReservedReply, CheckId, Held
<1> HIDE DEF b
<1>8. Keeps(t, stamp, R) /\ Held(t) \subseteq Held(inbox)
  BY <1>5, RetiredKeeps
<1>9. SameRooms(inbox, t) /\ Boxed(t)
  BY <1>6, RetiredRooms, SameRoomsTwice DEF SameRooms
<1> HIDE DEF t
<1>10. Keeps(r, stamp, R) /\ r.messages = t.messages
  BY <1>8, KeepsReserved, RoomTypes
<1>11. Boxed(r) /\ r.reserved_replies = inbox.reserved_replies - 1
  BY <1>2, <1>9, BusyRoom, RoomTypes, Counted DEF SameRooms
<1> HIDE DEF r
<1>12. \A k \in Held(r) : r.messages[k].id # id
  <2>1. Held(r) \subseteq Held(inbox)
    BY <1>8, <1>10 DEF Held
  <2>2. \A k \in Held(r) : r.messages[k].id = inbox.messages[k].id
    BY <1>10, <2>1 DEF Keeps, FollowsBox, Follows
  <2> QED BY <1>7, <2>1, <2>2
<1>13. Bound(w) \in Recipients /\ Bound(w) \in R
  BY BoundType
<1>14. Kept(R)
  <2>1. Keeps(InsertDirect(r, Bound(w), id, bytes), stamp + 1, R)
    BY <1>10, <1>12, <1>13, KeepsInsertDirect DEF HubInv
  <2> QED BY <1>4, <2>1, RoomTypes DEF Kept, HubInv, Inv
<1>15. inbox'.reserved_replies = inbox.reserved_replies - 1
  BY <1>4, <1>11, UncountedDirect DEF SameRooms
<1>16. /\ stamp + 1 \in Live(inbox')
       /\ inbox'.messages[stamp + 1].id = id /\ inbox'.messages[stamp + 1].kind = "Direct"
  BY <1>4, <1>10, <1>13, InsertedDirect DEF HubInv
<1>17. /\ WatchTypes /\ DOMAIN delegates' = (DOMAIN delegates \ Ended) \cup {id}
  <2>1. /\ DOMAIN Settle(delegates) = DOMAIN delegates \ Ended
        /\ Settle(offers) \in [DOMAIN offers \ Ended -> Agents]
    BY SettleType DEF HubInv, HubTyped
  <2>2. \A i \in DOMAIN delegates \ Ended : delegates[i] \in Agents /\ i \in Ids
    BY DEF HubInv, HubTyped
  <2>3. DOMAIN offers \subseteq Ids
    BY DEF HubInv, HubTyped
  <2> QED BY <1>4, <2>1, <2>2, <2>3 DEF WatchTypes
<1>18. Watching'
  <2> SUFFICES ASSUME NEW i \in DOMAIN delegates'
               PROVE  \E k \in Live(inbox') : /\ inbox'.messages[k].id = i
                                              /\ inbox'.messages[k].kind = "Direct"
    BY DEF Watching, Live, Held
  <2>1. CASE i = id
    BY <1>16, <2>1
  <2>2. CASE i \in DOMAIN delegates \ Ended
    BY <1>14, <2>2, StaysWatched DEF HubInv
  <2> QED BY <1>17, <2>1, <2>2
<1>19. Roomy'
  <2>1. /\ stamp <= stamp' /\ inbox'.reserved_replies \in Nat
        /\ stamp' - stamp + inbox'.reserved_replies <= inbox.reserved_replies
    BY <1>2, <1>4, <1>15, BusyRoom, RoomTypes
  <2>2. DOMAIN delegates \ DOMAIN delegates' \subseteq Ended
    BY <1>17
  <2> QED BY <1>14, <2>1, <2>2, RoomKept DEF HubInv
<1>20. \A a \in Agents : Bound(a) \in R => status[a] = "Live"
  BY <1>1, <1>3 DEF Bound
<1>21. inbox'.reserved_replies =
         inbox.reserved_replies + Gain(dispatch[p].phase # "Idle", Idle.phase # "Idle")
  BY <1>2, <1>15, IdleType, RoomTypes DEF Gain
<1> QED BY <1>4, <1>14, <1>17, <1>18, <1>19, <1>20, <1>21, IdleType, DispatchKept

\* A dispatch that posts no task, and tells so in the task's room or gives it back.
LEMMA FailedKept ==
  ASSUME HubInv, NEW p \in Workers,
         Abandon(p) \/ \E id \in Ids, bytes \in BodySizes : Refuse(p, id, bytes)
  PROVE  HubInv'
<1>1. /\ MayFail(p) /\ dispatch' = [dispatch EXCEPT ![p] = Idle] /\ Drain
      /\ UNCHANGED <<registry, replies, assigner>>
  BY DEF Refuse, Abandon
<1>2. dispatch[p].phase # "Idle"
  BY <1>1 DEF MayFail
<1>3. PICK to \in Agents : to = dispatch[p].orchestrator
  BY <1>2, DispatchType DEF DispatchOK
<1>4. WatchTypes /\ DOMAIN delegates' = DOMAIN delegates \ Ended
  BY <1>1, DrainSettles DEF HubInv
<1>5. \E R : /\ Kept(R) /\ \A a \in Agents : Bound(a) \in R => status[a] = "Live"
             /\ Roomy' /\ inbox'.reserved_replies = inbox.reserved_replies - 1
  <2>1. CASE \E id \in Ids, bytes \in BodySizes : Refuse(p, id, bytes)
    <3> PICK id \in Ids, bytes \in BodySizes : Refuse(p, id, bytes)
      BY <2>1
    <3>1. status[to] = "Live" /\ PostReservedReply(Bound(to), id, bytes)
      BY <1>3, <2>1 DEF Refuse
    <3>2. Kept({Bound(to)})
      BY <3>1, BoundType, AddresseeType, PostReservedReplyKept DEF HubInv
    <3>3. /\ inbox'.reserved_replies = inbox.reserved_replies - 1 /\ inbox.reserved_replies > 0
          /\ stamp' = stamp + 1
      BY <3>1, ReservedRooms DEF HubInv, PostReservedReply
    <3>4. Roomy'
      BY <1>1, <3>2, <3>3, SpentRoom
    <3>5. \A a \in Agents : Bound(a) \in {Bound(to)} => status[a] = "Live"
      BY <3>1 DEF Bound
    <3> QED BY <3>2, <3>3, <3>4, <3>5
  <2>2. CASE Abandon(p)
    <3>1. ReleaseReply
      BY <2>2 DEF Abandon
    <3>2. /\ Kept({}) /\ Roomy' /\ inbox'.reserved_replies = inbox.reserved_replies - 1
      BY <1>1, <1>2, <3>1, BusyRoom, ReleasedRoom
    <3>3. \A a \in Agents : Bound(a) \in {} => status[a] = "Live"
      OBVIOUS
    <3> QED BY <3>2, <3>3
  <2> QED BY <2>1, <2>2
<1>6. PICK R : /\ Kept(R) /\ \A a \in Agents : Bound(a) \in R => status[a] = "Live"
               /\ Roomy' /\ inbox'.reserved_replies = inbox.reserved_replies - 1
  BY <1>5
<1>7. Watching'
  BY <1>4, <1>6, WatchingKept DEF HubInv
<1>8. inbox'.reserved_replies =
        inbox.reserved_replies + Gain(dispatch[p].phase # "Idle", Idle.phase # "Idle")
  BY <1>2, <1>6, IdleType, RoomTypes DEF Gain
<1> QED BY <1>1, <1>4, <1>6, <1>7, <1>8, IdleType, DispatchKept


-----------------------------------------------------------------------------
(* Steps between two holds of the lock, which leave the inbox alone.       *)

\* What such a step has to show, agents that come or leave included.
LEMMA StillKept ==
  ASSUME HubInv, Inv', inbox' = inbox, UNCHANGED watches,
         status' \in [Agents -> {"Unborn", "Live", "Gone", "Swept"}], OneLive',
         \A a \in Agents : status[a] \in {"Live", "Gone"} => status'[a] \in {"Live", "Gone"},
         dispatch' \in [Workers -> DispatchRecords], Underway', Rooms',
         replies' \in Nat, assigner' \in AssignerType
  PROVE  HubInv'
<1>1. delegates' = delegates /\ offers' = offers
  BY DEF watches
<1>2. HubTyped'
  BY <1>1 DEF HubInv, HubTyped, AssignerType
<1>3. Live(inbox)' = Live(inbox)
  BY DEF Live, Held
<1>4. Watching'
  BY <1>1, <1>3 DEF HubInv, Watching
<1>5. Roomy'
  BY <1>1, <1>3 DEF HubInv, Roomy, Unwatched
<1>6. NoOrphans'
  BY <1>3 DEF HubInv, NoOrphans, Bound
<1> QED BY <1>2, <1>4, <1>5, <1>6 DEF HubInv

\* The clock or the inbox's time alone does not change the good box.
LEMMA StillInv ==
  ASSUME HubInv, UNCHANGED <<inbox, stamp, now>>
  PROVE  Inv' /\ inbox' = inbox
BY DEF HubInv, Inv, GoodBox, IsBox, Held, Good, HolderOK, HandOversOK, Distinct, Apart

\* What stays of the dispatches.
LEMMA SameDispatches ==
  ASSUME HubInv, inbox' = inbox, UNCHANGED <<dispatch, replies>>
  PROVE  /\ dispatch' \in [Workers -> DispatchRecords] /\ Underway' /\ Rooms'
         /\ replies' \in Nat
BY DEF HubInv, HubTyped, Underway, Rooms, ReservationsExact, Busy

\* An agent that starts finds its pane free.
LEMMA SpawnKept ==
  ASSUME HubInv, NEW a \in Agents, Spawn(a) \/ Leave(a)
  PROVE  HubInv'
<1>1. /\ UNCHANGED <<inbox, stamp, now, watches, actors>>
      /\ status \in [Agents -> {"Unborn", "Live", "Gone", "Swept"}]
  BY DEF Spawn, Leave, HubInv, HubTyped
<1>2. Inv' /\ inbox' = inbox
  BY <1>1, StillInv
<1>3. /\ dispatch' \in [Workers -> DispatchRecords] /\ Underway' /\ Rooms'
      /\ replies' \in Nat /\ assigner' \in AssignerType
  BY <1>1, SameDispatches DEF actors, HubInv, HubTyped, AssignerType
<1>4. OneLive'
  <2>1. \A b, c \in LiveAgents : PaneOf[b] = PaneOf[c] => b = c
    BY DEF HubInv, OneLive, OnePerPane
  <2>2. CASE Spawn(a)
    <3>1. \A b \in Agents : b # a => status'[b] = status[b]
      BY <1>1, <2>2 DEF Spawn
    <3>2. \A b \in LiveAgents : PaneOf[b] # PaneOf[a]
      BY <2>2 DEF Spawn, Current
    <3>3. \A b \in Agents : status'[b] = "Live" => b = a \/ b \in LiveAgents
      BY <3>1 DEF LiveAgents
    <3>4. \A b, c \in Agents :
            status'[b] = "Live" /\ status'[c] = "Live" /\ PaneOf[b] = PaneOf[c] => b = c
      BY <2>1, <3>2, <3>3
    <3> QED BY <3>4 DEF OneLive, OnePerPane, LiveAgents
  <2>3. CASE Leave(a)
    <3>1. \A b \in Agents : status'[b] = "Live" => b \in LiveAgents
      BY <1>1, <2>3 DEF Leave, LiveAgents
    <3> QED BY <2>1, <3>1 DEF OneLive, OnePerPane, LiveAgents
  <2> QED BY <2>2, <2>3
<1>5. /\ status' \in [Agents -> {"Unborn", "Live", "Gone", "Swept"}]
      /\ \A b \in Agents : status[b] \in {"Live", "Gone"} => status'[b] \in {"Live", "Gone"}
  BY <1>1 DEF Spawn, Leave
<1> QED BY <1>1, <1>2, <1>3, <1>4, <1>5, StillKept

\* A dispatch is bound to a worker, which a restart may have started for it.
LEMMA BoundDispatch ==
  ASSUME HubInv, NEW p \in Workers, dispatch[p].phase # "Idle", NEW a \in Agents,
         dispatch' = [dispatch EXCEPT ![p].phase = "Bound", ![p].worker = a],
         replies' = replies, inbox' = inbox
  PROVE  dispatch' \in [Workers -> DispatchRecords] /\ Underway' /\ Rooms'
<1> DEFINE d == [dispatch[p] EXCEPT !.phase = "Bound", !.worker = a]
<1>1. dispatch[p] \in DispatchRecords /\ DispatchOK(dispatch[p])
  BY DispatchType
<1>2. d \in DispatchRecords /\ DispatchOK(d) /\ d.phase = "Bound"
  BY <1>1 DEF DispatchRecords, Phases, DispatchOK
<1>3. dispatch' = [dispatch EXCEPT ![p] = d]
  BY <1>1 DEF HubInv, HubTyped, DispatchRecords
<1> HIDE DEF d
<1>4. inbox'.reserved_replies =
        inbox.reserved_replies + Gain(dispatch[p].phase # "Idle", d.phase # "Idle")
  BY <1>2, RoomTypes DEF Gain
<1> QED BY <1>2, <1>3, <1>4, DispatchMoved

LEMMA RespawnKept ==
  ASSUME HubInv, NEW p \in Workers, NEW a \in Agents, Respawn(p, a)
  PROVE  HubInv'
<1>1. /\ dispatch[p].phase # "Idle" /\ PaneOf[a] = p /\ status[a] = "Unborn"
      /\ status' = [b \in Agents |-> IF b = a THEN "Live"
                                     ELSE IF b \in Current(p) THEN "Gone" ELSE status[b]]
      /\ dispatch' = [dispatch EXCEPT ![p].phase = "Bound", ![p].worker = a]
      /\ UNCHANGED <<inbox, stamp, now, watches, replies, assigner>>
      /\ status \in [Agents -> {"Unborn", "Live", "Gone", "Swept"}]
  BY DEF Respawn, HubInv, HubTyped
<1>2. Inv' /\ inbox' = inbox
  BY <1>1, StillInv
<1>3. dispatch' \in [Workers -> DispatchRecords] /\ Underway' /\ Rooms'
  BY <1>1, BoundDispatch
<1>4. replies' \in Nat /\ assigner' \in AssignerType
  BY <1>1 DEF HubInv, HubTyped, AssignerType
<1>5. OneLive'
  <2>1. \A b, c \in LiveAgents : PaneOf[b] = PaneOf[c] => b = c
    BY DEF HubInv, OneLive, OnePerPane
  <2>2. \A b \in Agents : status'[b] = "Live" => b = a \/ (b \in LiveAgents /\ PaneOf[b] # p)
    BY <1>1 DEF Current, LiveAgents
  <2>3. \A b, c \in Agents :
          status'[b] = "Live" /\ status'[c] = "Live" /\ PaneOf[b] = PaneOf[c] => b = c
    BY <1>1, <2>1, <2>2
  <2> QED BY <2>3 DEF OneLive, OnePerPane, LiveAgents
<1>6. /\ status' \in [Agents -> {"Unborn", "Live", "Gone", "Swept"}]
      /\ \A b \in Agents : status[b] \in {"Live", "Gone"} => status'[b] \in {"Live", "Gone"}
  BY <1>1
<1> QED BY <1>1, <1>2, <1>3, <1>4, <1>5, <1>6, StillKept

\* A step that leaves the agents alone too.
LEMMA StillerKept ==
  ASSUME HubInv, Inv', inbox' = inbox, UNCHANGED <<registry, watches, replies>>,
         dispatch' \in [Workers -> DispatchRecords], Underway', Rooms',
         assigner' \in AssignerType
  PROVE  HubInv'
<1>1. /\ status' \in [Agents -> {"Unborn", "Live", "Gone", "Swept"}] /\ status' = status
      /\ replies' \in Nat
  BY DEF HubInv, HubTyped, registry
<1>2. OneLive'
  BY <1>1 DEF HubInv, OneLive, LiveAgents
<1> QED BY <1>1, <1>2, StillKept

LEMMA BindKept ==
  ASSUME HubInv, NEW p \in Workers, Bind(p)
  PROVE  HubInv'
<1>1. PICK a \in Current(p) :
        dispatch' = [dispatch EXCEPT ![p].phase = "Bound", ![p].worker = a]
  BY DEF Bind
<1>2. /\ a \in Agents /\ dispatch[p].phase # "Idle"
      /\ UNCHANGED <<inbox, stamp, now, registry, watches, replies, assigner>>
  BY DEF Bind, Current, LiveAgents
<1>3. Inv' /\ inbox' = inbox
  BY <1>2, StillInv
<1>4. dispatch' \in [Workers -> DispatchRecords] /\ Underway' /\ Rooms'
  BY <1>1, <1>2, BoundDispatch
<1>5. assigner' \in AssignerType
  BY <1>2 DEF HubInv, HubTyped, AssignerType
<1> QED BY <1>2, <1>3, <1>4, <1>5, StillerKept

\* The assigner's reads, and time passing.
LEMMA ReadKept ==
  ASSUME HubInv, Gather \/ ReadScope \/ HubAdvance \/ UNCHANGED hubVars
  PROVE  HubInv'
<1>1. UNCHANGED <<registry, watches, dispatch, replies>>
  BY DEF Gather, ReadScope, HubAdvance, hubVars, registry, watches, actors
<1>2. Inv' /\ inbox' = inbox
  BY StillInv, AdvanceKept DEF Gather, ReadScope, HubAdvance, hubVars, HubInv
<1>3. /\ dispatch' \in [Workers -> DispatchRecords] /\ Underway' /\ Rooms'
  BY <1>1, <1>2, SameDispatches
<1>4. assigner' \in AssignerType
  <2>1. assigner \in AssignerType
    BY DEF HubInv, HubTyped, AssignerType
  <2>2. DOMAIN offers \subseteq Ids
    BY DEF HubInv, HubTyped
  <2>3. CASE Gather
    BY <2>1, <2>2, <2>3 DEF Gather, AssignerType
  <2>4. CASE ReadScope
    BY <2>1, <2>4 DEF ReadScope, AssignerType, LiveAgents
  <2>5. CASE HubAdvance \/ UNCHANGED hubVars
    BY <2>1, <2>5 DEF HubAdvance, hubVars, actors
  <2> QED BY <2>3, <2>4, <2>5
<1> QED BY <1>1, <1>2, <1>3, <1>4, StillerKept

-----------------------------------------------------------------------------
(* Offers handed out, and what agents, the receipt engine and the ticker do. *)

LEMMA AssignKept ==
  ASSUME HubInv, NEW id \in Ids, Assign(id)
  PROVE  HubInv'
<1> DEFINE C == {a \in assigner.members \cap LiveAgents : PaneOf[a] # PaneOf[offers[id]]}
           R == {Bound(a) : a \in C}
<1>1. /\ AssignOffer(id, C) \/ (inbox' = Drained /\ UNCHANGED <<stamp, now>>)
      /\ assigner' = [assigner EXCEPT !.ids = @ \ {id}] /\ Drain
      /\ UNCHANGED <<registry, dispatch, replies>>
  BY DEF Assign
<1>2. C \in OnePerPane /\ \A a \in C : a \in Agents /\ status[a] = "Live"
  BY LivePart
<1>3. assigner' \in AssignerType
  BY <1>1 DEF HubInv, HubTyped, AssignerType
<1>4. status' = status /\ SameDispatch
  BY <1>1 DEF registry, SameDispatch
<1>5. WatchTypes /\ DOMAIN delegates' = DOMAIN delegates \ Ended
  BY <1>1, DrainSettles DEF HubInv
<1>6. \A a \in C : Bound(a) \in R
  OBVIOUS
<1>7. \A a \in Agents : Bound(a) \in R => status[a] = "Live"
  BY <1>2 DEF Bound
<1> HIDE DEF C, R
<1>8. Kept(R) /\ SameRooms(inbox, inbox') /\ stamp' = stamp
  <2>1. CASE AssignOffer(id, C)
    <3>1. Kept(R)
      BY <1>2, <1>6, <2>1, AssignOfferKept DEF HubInv
    <3>2. SameRooms(inbox, inbox')
      BY <2>1, DeliverRooms DEF HubInv
    <3> QED BY <2>1, <3>1, <3>2 DEF AssignOffer
  <2>2. CASE inbox' = Drained /\ UNCHANGED <<stamp, now>>
    <3>1. Keeps(Drained, stamp, R) /\ SameRooms(inbox, Drained)
      BY KeepsDrained, DrainedRooms DEF HubInv
    <3> QED BY <2>2, <3>1 DEF Kept, HubInv, Inv
  <2> QED BY <1>1, <2>1, <2>2
<1>9. Watching'
  BY <1>5, <1>8, WatchingKept DEF HubInv
<1>10. inbox'.reserved_replies <= inbox.reserved_replies /\ inbox'.reserved_replies \in Nat
  BY <1>8, RoomTypes DEF SameRooms
<1>11. Roomy'
  BY <1>5, <1>8, <1>10, QuietRoom
<1> QED BY <1>3, <1>4, <1>5, <1>7, <1>8, <1>9, <1>11, QuietKept

LEMMA DeliverKept ==
  ASSUME HubInv, NEW id, HubDeliver(id) \/ \E a \in Agents : HubAck(id, a)
  PROVE  HubInv'
<1>1. PICK a, p, reason :
        /\ \/ Ack(id, a) \/ TakeReceipt(id, a) \/ CountReceiptRepeat(id, a)
           \/ Complete(id, a) \/ Release(id, a)
           \/ RequeueReceipt(id, p) \/ (reason \in RetireReasons /\ Retire(id, p, reason))
        /\ Plain
  BY DEF HubDeliver, HubAck
<1>2. Kept({})
  BY <1>1, AckKept, TakeReceiptKept, CountReceiptRepeatKept, ClaimKept,
     RequeueReceiptKept, RetireKept DEF HubInv
<1>3. SameRooms(inbox, inbox')
  BY <1>1, DeliverRooms DEF HubInv
<1>4. stamp' = stamp
  BY <1>1 DEF Ack, TakeReceipt, CountReceiptRepeat, Complete, Release, RequeueReceipt, Retire
<1> QED BY <1>1, <1>2, <1>3, <1>4, PlainQuiet

LEMMA UpkeepKept ==
  ASSUME HubInv, HubTick \/ \E p \in Panes : Close(p)
  PROVE  HubInv'
<1>1. PICK p : (Tick \/ ForgetPaneHistory(p)) /\ Plain
  BY DEF HubTick, Close
<1>2. Kept({})
  BY <1>1, TickKept, ForgetPaneHistoryKept DEF HubInv
<1>3. SameRooms(inbox, inbox') /\ stamp' = stamp
  BY <1>1, UpkeepRooms DEF HubInv, Tick, ForgetPaneHistory
<1> QED BY <1>1, <1>2, <1>3, PlainQuiet

\* What a sweep of entries tells: each entry it changed is in the box as changed,
\* unless it ended, and its event tells which.
LEMMA SweepTells ==
  ASSUME Inv, NEW changed, DOMAIN changed \subseteq Held(inbox),
         \A k \in DOMAIN changed : Good(changed[k])
  PROVE  LET c == TrimHistory(Transition(Drained, changed))
         IN  /\ \A k \in DOMAIN changed : Event(changed[k]) \in c.events
             /\ \A k \in DOMAIN changed \cap Live(c) :
                  c.messages[k] = changed[k] /\ ~Terminal(changed[k])
<1> DEFINE t == Transition(Drained, changed)
<1>1. GoodBox(Drained, stamp) /\ Held(Drained) = Held(inbox)
  BY KeepsDrained DEF Keeps, Held
<1>2. /\ GoodBox(t, stamp) /\ Held(t) = Held(inbox)
      /\ \A k \in DOMAIN changed : t.messages[k] = changed[k]
      /\ \A k \in DOMAIN changed : Event(changed[k]) \in t.events
  BY <1>1, TransitionGood DEF Inv
<1> HIDE DEF t
<1>3. /\ Live(TrimHistory(t)) = Live(t) /\ TrimHistory(t).events = t.events
      /\ \A k \in Live(t) : TrimHistory(t).messages[k] = t.messages[k]
  BY <1>2, TrimGood DEF Inv
<1> QED BY <1>2, <1>3 DEF Live, t

\* A report ends the message of its task, if nothing else did.
LEMMA ReportKept ==
  ASSUME HubInv, NEW id \in Ids, Report(id)
  PROVE  HubInv'
<1> DEFINE own == {k \in Live(inbox) : inbox.messages[k].id = id}
           over(k) == Moved(inbox.messages[k], Undeliverable("Superseded"))
           changed == [k \in own |-> over(k)]
<1>1. /\ id \in DOMAIN delegates
      /\ inbox' = TrimHistory(Transition(Drained, changed))
      /\ delegates' = Restrict(Settle(delegates), DOMAIN Settle(delegates) \ {id})
      /\ offers' = Settle(offers)
      /\ UNCHANGED <<stamp, now, registry, actors>>
  BY DEF Report
<1>2. ASSUME NEW k \in own
      PROVE  /\ Good(over(k)) /\ Continues(inbox.messages[k], over(k))
             /\ Terminal(Event(over(k))) /\ Event(over(k)).id = id
  <2> DEFINE m == inbox.messages[k]
  <2>1. Good(m) /\ ~Terminal(m) /\ m.id = id
    BY DEF Live, HubInv, Inv, GoodBox
  <2>2. "Superseded" \in Reasons
    BY DEF Reasons
  <2>3. Good(Moved(m, Undeliverable("Superseded")))
        /\ Continues(m, Moved(m, Undeliverable("Superseded")))
    BY <2>1, <2>2, EndedGood DEF HubInv, Inv
  <2>4. /\ Moved(m, Undeliverable("Superseded")).id = id
        /\ Moved(m, Undeliverable("Superseded")).state.name = "Undeliverable"
    BY <2>1 DEF Moved, Undeliverable, Good, Messages
  <2> QED BY <2>3, <2>4 DEF Event
<1> HIDE DEF over
<1>3. own \subseteq Held(inbox)
  BY DEF Live
<1>4. /\ DOMAIN changed = own /\ \A k \in own : changed[k] = over(k)
  OBVIOUS
<1> HIDE DEF changed
<1>5. Kept({})
  <2>1. Keeps(inbox', stamp, {})
    BY <1>1, <1>2, <1>3, <1>4, KeepsSweep DEF HubInv
  <2> QED BY <1>1, <2>1 DEF Kept, HubInv, Inv
<1>6. SameRooms(inbox, inbox')
  <2>1. SameRooms(inbox, Drained) /\ Boxed(Drained)
    BY DrainedRooms DEF HubInv, SameRooms
  <2> QED BY <1>1, <2>1, SweepRooms, SameRoomsTwice
<1>7. id \in Ended
  <2>1. PICK k \in own : TRUE
    BY <1>1 DEF HubInv, Watching
  <2>2. Event(over(k)) \in inbox'.events
    BY <1>1, <1>2, <1>3, <1>4, <2>1, SweepTells DEF HubInv
  <2> QED BY <1>2, <2>1, <2>2 DEF Ended
<1>8. /\ Settle(delegates) \in [DOMAIN delegates \ Ended -> Agents]
      /\ DOMAIN Settle(delegates) = DOMAIN delegates \ Ended
      /\ Settle(offers) \in [DOMAIN offers \ Ended -> Agents]
      /\ DOMAIN delegates \subseteq Ids /\ DOMAIN offers \subseteq Ids
  BY SettleType DEF HubInv, HubTyped
<1>9. WatchTypes /\ DOMAIN delegates' = DOMAIN delegates \ Ended
  <2>1. DOMAIN delegates' = DOMAIN delegates \ Ended
    BY <1>1, <1>7, <1>8 DEF Restrict
  <2>2. delegates' \in [DOMAIN delegates' -> Agents]
    BY <1>1, <1>7, <1>8 DEF Restrict
  <2> QED BY <1>1, <1>8, <2>1, <2>2 DEF WatchTypes
<1>10. Watching'
  BY <1>5, <1>9, WatchingKept DEF HubInv
<1>11. inbox'.reserved_replies <= inbox.reserved_replies /\ inbox'.reserved_replies \in Nat
  BY <1>6, RoomTypes DEF SameRooms
<1>12. Roomy'
  BY <1>1, <1>5, <1>9, <1>11, QuietRoom
<1>13. status' = status /\ SameDispatch /\ assigner' \in AssignerType
  BY <1>1 DEF HubInv, HubTyped, registry, actors, SameDispatch, AssignerType
<1> QED BY <1>5, <1>6, <1>9, <1>10, <1>12, <1>13, QuietKept

\* An exit leaves nothing owed to the generation that exited.
LEMMA ExitClears ==
  ASSUME Inv, NEW a \in Agents, AgentExited(a), Kept({}),
         NEW k \in Live(inbox')
  PROVE  inbox'.messages[k].recipient # Bound(a)
<1> DEFINE owed == {j \in Live(inbox) : inbox.messages[j].recipient = Bound(a)}
           after(m) == IF IsOffer(m) THEN Returned(m)
                       ELSE Moved(m, Undeliverable("AgentExited"))
           changed == [j \in owed |-> after(inbox.messages[j])]
<1>1. inbox' = TrimHistory(Transition(Drained, changed))
  BY DEF AgentExited
<1>2. ASSUME NEW j \in owed
      PROVE  /\ Good(after(inbox.messages[j]))
             /\ ~Terminal(after(inbox.messages[j])) =>
                  after(inbox.messages[j]).recipient = NoRecipient
  <2> DEFINE m == inbox.messages[j]
  <2>1. Good(m) /\ ~Terminal(m)
    BY DEF Live, Inv, GoodBox
  <2>2. CASE IsOffer(m)
    <3>1. Good(Returned(m))
      BY <2>1, <2>2, ReturnedGood DEF Inv
    <3>2. Returned(m).recipient = NoRecipient
      BY <2>1 DEF Returned, Moved, Good, Messages
    <3> QED BY <2>2, <3>1, <3>2
  <2>3. CASE ~IsOffer(m)
    <3>1. Good(Moved(m, Undeliverable("AgentExited")))
      BY <2>1, EndedGood DEF Inv, Reasons
    <3>2. Moved(m, Undeliverable("AgentExited")).state.name = "Undeliverable"
      BY <2>1 DEF Moved, Undeliverable, Good, Messages
    <3> QED BY <2>3, <3>1, <3>2
  <2> QED BY <2>2, <2>3
<1> HIDE DEF after
<1>3. /\ DOMAIN changed = owed /\ \A j \in owed : changed[j] = after(inbox.messages[j])
      /\ owed \subseteq Held(inbox)
  BY DEF Live
<1> HIDE DEF changed
<1>4. Bound(a) # NoRecipient
  BY BoundType
<1>5. CASE k \in owed
  <2>1. inbox'.messages[k] = changed[k] /\ ~Terminal(changed[k])
    BY <1>1, <1>2, <1>3, <1>5, SweepTells
  <2> QED BY <1>2, <1>3, <1>4, <1>5, <2>1
<1>6. CASE k \notin owed
  BY <1>4, <1>6 DEF Kept, Keeps, Accounts
<1> QED BY <1>5, <1>6

LEMMA SweepKept ==
  ASSUME HubInv, NEW a \in Agents, Sweep(a)
  PROVE  HubInv'
<1>1. /\ status[a] = "Gone" /\ status' = [status EXCEPT ![a] = "Swept"]
      /\ AgentExited(a) /\ Drain /\ UNCHANGED actors
      /\ status \in [Agents -> {"Unborn", "Live", "Gone", "Swept"}]
  BY DEF Sweep, HubInv, HubTyped
<1>2. Kept({}) /\ SameRooms(inbox, inbox') /\ stamp' = stamp
  BY <1>1, AgentExitedKept, UpkeepRooms DEF HubInv, AgentExited
<1>3. WatchTypes /\ DOMAIN delegates' = DOMAIN delegates \ Ended
  BY <1>1, DrainSettles DEF HubInv
<1>4. Watching'
  BY <1>2, <1>3, WatchingKept DEF HubInv
<1>5. inbox'.reserved_replies = inbox.reserved_replies /\ inbox'.reserved_replies \in Nat
      /\ inbox'.reserved_replies <= inbox.reserved_replies
  BY <1>2, RoomTypes DEF SameRooms
<1>6. Roomy'
  BY <1>2, <1>3, <1>5, QuietRoom
<1>7. Underway' /\ Rooms'
  BY <1>1, <1>5 DEF HubInv, Underway, Rooms, ReservationsExact, Busy, actors
<1>8. /\ status' \in [Agents -> {"Unborn", "Live", "Gone", "Swept"}]
      /\ \A b \in Agents : status'[b] = status[b] \/ (b = a /\ status'[b] = "Swept")
  BY <1>1
<1>9. HubTyped'
  BY <1>1, <1>3, <1>8 DEF HubInv, HubTyped, WatchTypes, actors
<1>10. OneLive'
  <2>1. LiveAgents' \subseteq LiveAgents
    BY <1>8 DEF LiveAgents
  <2> QED BY <2>1 DEF HubInv, OneLive, OnePerPane, LiveAgents
<1>11. NoOrphans'
  <2> SUFFICES ASSUME NEW k \in Live(inbox'), NEW b \in Agents,
                      inbox'.messages[k].recipient = Bound(b)
               PROVE  status'[b] \in {"Live", "Gone"}
    BY DEF NoOrphans, Live, Held, Bound
  <2>1. b # a
    BY <1>1, <1>2, ExitClears DEF HubInv
  <2>2. k \in Live(inbox) /\ inbox.messages[k].recipient = Bound(b)
    BY <1>2, BoundType DEF Kept, Keeps, Accounts
  <2> QED BY <1>8, <2>1, <2>2 DEF HubInv, NoOrphans
<1>12. Inv'
  BY <1>2, KeptTells
<1> QED BY <1>4, <1>6, <1>7, <1>9, <1>10, <1>11, <1>12 DEF HubInv

-----------------------------------------------------------------------------
(* The invariant.                                                          *)

LEMMA HubStarts == HubInit => HubInv
<1> SUFFICES ASSUME HubInit PROVE HubInv
  OBVIOUS
<1>1. Inv
  BY InitInv DEF HubInit
<1>2. Live(inbox) = {} /\ inbox.reserved_replies = 0
  BY DEF HubInit, Init, Live, Held
<1>3. HubTyped
  BY IdleType DEF HubInit, HubTyped
<1>4. LiveAgents = {} /\ Busy = {} /\ replies = 0
  BY IdleType DEF HubInit, LiveAgents, Busy
<1>5. OneLive
  BY <1>4 DEF OneLive, OnePerPane
<1>6. Underway
  BY IdleType DEF HubInit, Underway
<1>7. Watching /\ NoOrphans
  BY <1>2 DEF HubInit, Watching, NoOrphans
<1>8. Cardinality({}) = 0 /\ IsFiniteSet({})
  BY FS_EmptySet
<1>9. Roomy
  <2>1. Unwatched(inbox, DOMAIN delegates) = {}
    BY <1>2 DEF Unwatched
  <2> QED BY <1>2, <1>8, <2>1, InboxLimits DEF Roomy
<1>10. Rooms
  BY <1>2, <1>4, <1>8 DEF Rooms, ReservationsExact, Busy
<1> QED BY <1>1, <1>3, <1>5, <1>6, <1>7, <1>9, <1>10 DEF HubInv

LEMMA HubStep == HubInv /\ [HubNext]_hubVars => HubInv'
<1> SUFFICES ASSUME HubInv, [HubNext]_hubVars PROVE HubInv'
  OBVIOUS
<1>1. CASE Lifecycle
  BY <1>1, SpawnKept, SweepKept DEF Lifecycle
<1>2. CASE Posts
  <2>1. CASE \E to \in Addressees, id \in Ids, bytes \in BodySizes :
               \/ HubPost(to, id, bytes)
               \/ HubPostReply(to, id, bytes)
               \/ \E from \in Senders : HubPostAgent(from, to, id, bytes)
    BY <2>1, HubPostKept, PostReplyKept
  <2>2. CASE \E from \in Senders, id \in Ids, bytes \in BodySizes :
               \E others \in SUBSET LiveAgents :
                 \/ \E topic \in Topics : HubPublish(from, topic, id, bytes, others)
                 \/ \E scope \in Scopes, ttl \in ClaimTtls :
                      HubOffer(from, scope, id, bytes, ttl, others)
    BY <2>2, HubPublishKept, HubOfferKept
  <2>3. CASE HubReserveReply \/ DropReply
    BY <2>3, ReserveReplyKept, DropReplyKept
  <2> QED BY <1>2, <2>1, <2>2, <2>3 DEF Posts
<1>3. CASE Dispatches
  <2>1. PICK p \in Workers :
          \/ \E o \in Senders \cap LiveAgents, id \in Ids, bytes \in BodySizes,
                clear \in BOOLEAN : Begin(p, o, id, bytes, clear)
          \/ SupersedeForClear(p)
          \/ \E a \in Agents : Respawn(p, a)
          \/ Bind(p)
          \/ PostDelegate(p)
          \/ \E id \in Ids, bytes \in BodySizes : Refuse(p, id, bytes)
          \/ Abandon(p)
          \/ Supersede(p)
    BY <1>3 DEF Dispatches
  <2>2. CASE \E o \in Senders \cap LiveAgents, id \in Ids, bytes \in BodySizes,
                clear \in BOOLEAN : Begin(p, o, id, bytes, clear)
    BY <2>2, BeginKept
  <2>3. CASE SupersedeForClear(p) \/ Supersede(p)
    BY <2>3, SupersedeKept
  <2>4. CASE (\E a \in Agents : Respawn(p, a)) \/ Bind(p)
    BY <2>4, RespawnKept, BindKept
  <2>5. CASE PostDelegate(p)
    BY <2>5, PostDelegateKept
  <2>6. CASE Abandon(p) \/ \E id \in Ids, bytes \in BodySizes : Refuse(p, id, bytes)
    BY <2>6, FailedKept
  <2> QED BY <2>1, <2>2, <2>3, <2>4, <2>5, <2>6
<1>4. CASE Assigner
  BY <1>4, ReadKept, AssignKept DEF Assigner
<1>5. CASE \E id \in Ids : Report(id) \/ HubDeliver(id) \/ \E a \in Agents : HubAck(id, a)
  BY <1>5, ReportKept, DeliverKept
<1>6. CASE HubTick \/ \E p \in Panes : Close(p)
  BY <1>6, UpkeepKept
<1>7. CASE HubAdvance \/ UNCHANGED hubVars
  BY <1>7, ReadKept
<1> QED BY <1>1, <1>2, <1>3, <1>4, <1>5, <1>6, <1>7 DEF HubNext

\* The hub's invariant holds in every reachable state: the box is good, the
\* watches are of live tasks, the rooms are held and nothing is owed to an
\* exited generation that was swept.
THEOREM HubInvariant == HubSpec => []HubInv
<1>1. HubInit => HubInv
  BY HubStarts
<1>2. HubInv /\ [HubNext]_hubVars => HubInv'
  BY HubStep
<1> QED BY <1>1, <1>2, PTL DEF HubSpec

\* Once an exit was swept nothing is owed to that generation again, however the
\* posts, the hand-outs of offers and the sweep raced.
THEOREM NoOrphansHold == HubSpec => []NoOrphans
<1>1. HubInv => NoOrphans
  BY DEF HubInv
<1> QED BY <1>1, HubInvariant, PTL

\* The reservations the inbox counts are those that answers and dispatches hold.
THEOREM ReservationsHold == HubSpec => []ReservationsExact
<1>1. HubInv => ReservationsExact
  BY DEF HubInv, Rooms
<1> QED BY <1>1, HubInvariant, PTL

\* Watches are finitely many, and a live entry is watched or not.
LEMMA RoomBound == HubInv => DeckRoom
<1> SUFFICES ASSUME HubInv PROVE DeckRoom
  OBVIOUS
<1> DEFINE D == DOMAIN delegates
           L == Live(inbox)
           U == Unwatched(inbox, D)
           W == {k \in L : inbox.messages[k].id \in D}
           g == [id \in D |-> CHOOSE k \in L : inbox.messages[k].id = id]
           f == [k \in W |-> inbox.messages[k].id]
<1>1. IsFiniteSet(L) /\ Cardinality(L) \in Nat
  BY LiveFinite DEF HubInv
<1>2. \A id \in D : \E k \in L : inbox.messages[k].id = id
  BY DEF HubInv, Watching
<1>3. IsFiniteSet(D) /\ Cardinality(D) \in Nat
  <2>1. \A id \in D : g[id] \in L /\ inbox.messages[g[id]].id = id
    BY <1>2
  <2>2. g \in [D -> L]
    BY <2>1
  <2> HIDE DEF g
  <2>3. \A x, y \in D : g[x] = g[y] => x = y
    BY <2>1
  <2> QED BY <1>1, <2>2, <2>3, CountKeys, FS_CardinalityType
<1>4. Cardinality(W) <= Cardinality(D) /\ IsFiniteSet(W) /\ Cardinality(W) \in Nat
  <2>1. f \in [W -> D]
    OBVIOUS
  <2>2. ASSUME NEW j \in W, NEW k \in W, f[j] = f[k] PROVE j = k
    <3>1. /\ inbox.messages[j].id \in D /\ inbox.messages[k].id = inbox.messages[j].id
          /\ j \in Held(inbox) /\ k \in Held(inbox)
      BY <2>2 DEF Live
    <3> QED BY <3>1, WatchedOne DEF HubInv
  <2> HIDE DEF f
  <2>3. Cardinality(W) <= Cardinality(D) /\ IsFiniteSet(W)
    BY <1>3, <2>1, <2>2, CountKeys
  <2> QED BY <2>3, FS_CardinalityType
<1>5. L = U \cup W
  BY DEF Unwatched
<1>6. IsFiniteSet(U)
  BY <1>1, CountPart DEF Unwatched
<1>7. Cardinality(U) + inbox.reserved_replies <= MaxMessages
  BY DEF HubInv, Roomy
<1> HIDE DEF L, U, W, D
<1>8. Cardinality(L) <= Cardinality(U) + Cardinality(W) /\ Cardinality(U) \in Nat
  BY <1>4, <1>5, <1>6, CountUnion
<1>9. Cardinality(L) + inbox.reserved_replies <= MaxMessages + Cardinality(D)
  BY <1>1, <1>3, <1>4, <1>7, <1>8, RoomTypes, InboxLimits
<1> QED BY <1>9 DEF DeckRoom, L, D

\* The deck is over max_messages by no more than its watched tasks, whatever
\* reservations were refused, spent or given back.
THEOREM DeckRoomHolds == HubSpec => []DeckRoom
<1> QED BY RoomBound, HubInvariant, PTL

\* Every variable of the hub has its type.
THEOREM HubTypeCorrect == HubSpec => []HubTypeOK
<1>1. HubInv => HubTypeOK
  <2> SUFFICES ASSUME HubInv PROVE HubTypeOK
    OBVIOUS
  <2>1. TypeOK
    BY DEF HubInv, Inv, GoodBox, TypeOK
  <2>2. Range(delegates) \subseteq Agents /\ Range(offers) \subseteq Agents
    BY DEF HubInv, HubTyped, Range
  <2> QED BY <2>1, <2>2 DEF HubInv, HubTyped, HubTypeOK, DispatchRecords, Phases
<1> QED BY <1>1, HubInvariant, PTL

-----------------------------------------------------------------------------
(* What ends a pane's older task.                                           *)

\* A new direct message is the only thing its step tells of.
LEMMA InsertTells ==
  ASSUME Inv, NEW R, NEW b, Keeps(b, stamp, R), b.events = {}, NEW to \in Recipients,
         NEW id \in Ids, NEW bytes \in Nat
  PROVE  \A e \in InsertDirect(b, to, id, bytes).events : ~Terminal(e)
<1> DEFINE m == NewMessage(id, "Direct", "None", to, bytes, 0)
           new == [k \in {stamp + 1} |-> m]
           r == RegisterId(b, id)
           i == Insert(r, new)
<1>1. Good(m) /\ ~Terminal(Event(m))
  BY NewGood DEF Inv, NewMessage, Event
<1>2. GoodBox(r, stamp) /\ r.events = {}
  BY RegisterIdGood DEF Keeps, Inv
<1>3. InsertDirect(b, to, id, bytes) = TrimHistory(i)
  BY DEF InsertDirect, InsertOne
<1> HIDE DEF m, r
<1>4. /\ DOMAIN new = {stamp + 1} /\ new[stamp + 1] = m /\ \A k \in DOMAIN new : Good(new[k])
      /\ stamp + 1 \in Nat /\ stamp \in Nat /\ stamp <= stamp + 1
      /\ DOMAIN new \subseteq (stamp + 1)..(stamp + 1)
  BY <1>1 DEF Inv
<1> HIDE DEF new
<1>5. GoodBox(i, stamp + 1) /\ i.events = r.events \cup {Event(new[k]) : k \in DOMAIN new}
  BY <1>2, <1>4, InsertGood
<1>6. \A e \in i.events : ~Terminal(e)
  BY <1>1, <1>2, <1>4, <1>5
<1> HIDE DEF i
<1>7. TrimHistory(i).events = i.events
  BY <1>4, <1>5, TrimGood
<1> QED BY <1>3, <1>6, <1>7

\* Reservations, releases and answers end no message.
LEMMA RoomsEndNothing ==
  ASSUME Inv,
         \/ ReleaseReply
         \/ \E p, id, bytes, n : ReserveDelegate(p, id, bytes, n)
         \/ \E to \in Recipients, id \in Ids, bytes \in Nat : PostReservedReply(to, id, bytes)
  PROVE  Ended = {}
<1>1. Keeps(Drained, stamp, Recipients) /\ Drained.events = {} /\ stamp \in Nat
  BY KeepsDrained DEF Inv
<1>2. Keeps(ExpireDedup(Drained), stamp, Recipients) /\ ExpireDedup(Drained).events = {}
  BY KeepsExpired
<1>3. CASE ReleaseReply
  BY <1>1, <1>3, KeepsReserved DEF ReleaseReply, Ended
<1>4. CASE \E p, id, bytes, n : ReserveDelegate(p, id, bytes, n)
  <2> DEFINE b == ExpireDedup(Drained)
  <2>1. inbox' = [b EXCEPT !.reserved_replies = @ + 1]
    BY <1>4 DEF ReserveDelegate
  <2> HIDE DEF b
  <2>2. inbox'.events = b.events
    BY <1>2, <2>1 DEF b, Keeps, GoodBox, IsBox
  <2> QED BY <1>2, <2>2 DEF b, Ended
<1>5. CASE \E to \in Recipients, id \in Ids, bytes \in Nat : PostReservedReply(to, id, bytes)
  <2> PICK to \in Recipients, id \in Ids, bytes \in Nat : PostReservedReply(to, id, bytes)
    BY <1>5
  <2> DEFINE r == Released(ExpireDedup(Drained))
  <2>1. inbox' = InsertDirect(r, to, id, bytes)
    BY DEF PostReservedReply
  <2>2. Keeps(r, stamp, Recipients) /\ r.events = {}
    BY <1>1, <1>2, KeepsReserved
  <2> HIDE DEF r
  <2>3. \A e \in inbox'.events : ~Terminal(e)
    BY <2>1, <2>2, InsertTells
  <2> QED BY <2>3 DEF Ended
<1> QED BY <1>3, <1>4, <1>5

\* A dispatch that fails, or only begins, leaves every watch.
LEMMA FailureSpares ==
  ASSUME HubInv, NEW p \in Workers,
         \/ Abandon(p)
         \/ \E id \in Ids, bytes \in BodySizes : Refuse(p, id, bytes)
         \/ \E o, id, bytes, clear : Begin(p, o, id, bytes, clear)
  PROVE  DOMAIN delegates' = DOMAIN delegates
<1>1. Ended = {}
  <2>1. CASE Abandon(p)
    BY <2>1, RoomsEndNothing DEF Abandon, HubInv
  <2>2. CASE \E id \in Ids, bytes \in BodySizes : Refuse(p, id, bytes)
    <3> PICK id \in Ids, bytes \in BodySizes : Refuse(p, id, bytes)
      BY <2>2
    <3>1. dispatch[p].phase # "Idle"
      BY DEF Refuse, MayFail
    <3>2. PICK to \in Agents : to = dispatch[p].orchestrator
      BY <3>1, DispatchType DEF DispatchOK
    <3>3. PostReservedReply(Bound(to), id, bytes)
      BY <3>2 DEF Refuse
    <3> QED BY <3>3, BoundType, AddresseeType, RoomsEndNothing DEF HubInv
  <2>3. CASE \E o, id, bytes, clear : Begin(p, o, id, bytes, clear)
    BY <2>3, RoomsEndNothing DEF Begin, HubInv
  <2> QED BY <2>1, <2>2, <2>3
<1>2. Drain
  BY DEF Abandon, Refuse, Begin
<1> QED BY <1>1, <1>2, DrainSettles DEF HubInv

\* The watched tasks to pane p stay, or the dispatch's own is watched now.
Spared(p) ==
  \/ {id \in DOMAIN delegates : PaneOf[delegates[id]] = p} \subseteq DOMAIN delegates'
  \/ dispatch[p].id \in DOMAIN delegates'

\* What one step does to the older task of the pane of a dispatch it moves.
LEMMA DispatchSpares ==
  ASSUME HubInv, [HubNext]_hubVars, NEW p \in Workers,
         dispatch'[p] # dispatch[p], ~dispatch[p].clear
  PROVE  Spared(p)
<1>1. CASE Dispatches
  <2>1. PICK q \in Workers :
          \/ \E o \in Senders \cap LiveAgents, id \in Ids, bytes \in BodySizes,
                clear \in BOOLEAN : Begin(q, o, id, bytes, clear)
          \/ SupersedeForClear(q)
          \/ \E a \in Agents : Respawn(q, a)
          \/ Bind(q)
          \/ PostDelegate(q)
          \/ \E id \in Ids, bytes \in BodySizes : Refuse(q, id, bytes)
          \/ Abandon(q)
          \/ Supersede(q)
    BY <1>1 DEF Dispatches
  <2>2. q = p
    <3>1. dispatch \in [Workers -> DispatchRecords]
      BY DEF HubInv, HubTyped
    <3>2. \A d : [dispatch EXCEPT ![q] = d][p] = dispatch[p] \/ q = p
      BY <3>1
    <3>3. \A a : [dispatch EXCEPT ![q].phase = "Bound", ![q].worker = a][p] = dispatch[p] \/ q = p
      BY <3>1
    <3> QED BY <2>1, <3>2, <3>3
            DEF Begin, SupersedeForClear, Respawn, Bind, PostDelegate, Refuse, Abandon,
                Supersede, Plain, actors
  <2>3. CASE \E o \in Senders \cap LiveAgents, id \in Ids, bytes \in BodySizes,
                clear \in BOOLEAN : Begin(p, o, id, bytes, clear)
    BY <2>3, FailureSpares DEF Spared
  <2>4. CASE SupersedeForClear(p)
    BY <2>4 DEF SupersedeForClear
  <2>5. CASE (\E a \in Agents : Respawn(p, a)) \/ Bind(p)
    BY <2>5 DEF Respawn, Bind, watches, Spared
  <2>6. CASE PostDelegate(p)
    <3>1. dispatch[p].id \in DOMAIN delegates'
      BY <2>6 DEF PostDelegate
    <3> QED BY <3>1 DEF Spared
  <2>7. CASE Abandon(p) \/ \E id \in Ids, bytes \in BodySizes : Refuse(p, id, bytes)
    BY <2>7, FailureSpares DEF Spared
  <2>8. CASE Supersede(p)
    BY <2>8 DEF Supersede, Plain, actors
  <2> QED BY <2>1, <2>2, <2>3, <2>4, <2>5, <2>6, <2>7, <2>8
<1>2. CASE ~Dispatches
  <2>1. dispatch' = dispatch
    BY <1>2 DEF HubNext, hubVars, Lifecycle, Posts, Assigner, Spawn, Leave, Sweep, HubPost,
       HubPostReply, HubPostAgent, HubPublish, HubOffer, HubReserveReply, DropReply, Gather,
       ReadScope, Assign, Report, HubDeliver, HubAck, Close, HubTick, HubAdvance, Plain, actors
  <2> QED BY <2>1
<1> QED BY <1>1, <1>2

\* A dispatch that does not restart its worker ends the pane's older task only
\* by posting the newer one, whatever fails on its way.
THEOREM RefusalsSpare == HubSpec => RefusedSupersedesNothing
<1>1. HubInv /\ [HubNext]_hubVars =>
        [\A p \in Workers :
           dispatch'[p] # dispatch[p] /\ ~dispatch[p].clear =>
             \/ {id \in DOMAIN delegates : PaneOf[delegates[id]] = p}
                  \subseteq DOMAIN delegates'
             \/ dispatch[p].id \in DOMAIN delegates']_hubVars
  BY DispatchSpares DEF Spared
<1> QED BY <1>1, HubInvariant, PTL DEF HubSpec, RefusedSupersedesNothing
=============================================================================
