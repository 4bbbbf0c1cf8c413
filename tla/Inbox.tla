------------------------------- MODULE Inbox -------------------------------
(***************************************************************************)
(* The daemon's per-agent inbox (src/inbox.rs): pure in-memory data that   *)
(* the hub changes under its lock, one operation at a time, passing the    *)
(* current instant into every call.                                        *)
(*                                                                         *)
(* The struct `Inbox` is the record variable `inbox`; a Rust method that   *)
(* takes &mut self is an operator from a box (a value of `inbox`) to a     *)
(* box, so the code's sequences of calls are compositions of operators,    *)
(* and an operation is the action that applies them.  The message list is  *)
(* a function from arrival stamps to messages: a smaller stamp is an older *)
(* message, which is all the code uses of the list's order.                *)
(*                                                                         *)
(* Bodies are their sizes; subjects, prefaces and provenance are left out. *)
(* `events` is what the last operation left for the hub, which drains it   *)
(* before it gives up the lock: the operations start from a drained box.   *)
(***************************************************************************)
EXTENDS Integers, Sequences, FiniteSets, FiniteSetsExt, Functions

CONSTANTS
  Panes,              \* terminal panes
  Agents,             \* agent generations: a respawn in a pane is a new one
  PaneOf,             \* the pane each generation runs in
  Ids,                \* message ids, sender-chosen or generated
  Addressees,         \* recipients direct messages are sent to
  Topics,             \* topics agents publish on
  Scopes,             \* orchestrations and dispatch trees offers are made in
  BodySizes,          \* body sizes senders use
  ClaimTtls,          \* claim times offers ask for
  RetireReasons,      \* reasons the hub and the engine retire messages for
  Unbound,            \* the agent of a recipient that names only its pane
  NoRecipient,        \* the recipient of an offer waiting in its pool
  NoTime              \* no deadline

CONSTANTS             \* InboxLimits
  MaxDeliver, MaxPerRecipient, MaxMessages, MaxBodyBytes,
  HistoryPerPane, MaxHistoryMessages, MaxHistoryBytes, HistoryBodyTtl,
  DedupWindow, DedupMaxIds, RatePerMinute, RateWindow,
  MaxOffersPerScope, MinClaimTtl, MaxClaimTtl, OfferAssignWait

CONSTANTS             \* bounds of a finite instance
  MaxPosts,           \* entries ever inserted
  MaxTime,            \* the clock's last instant
  MaxReserved,        \* reservations held at once
  MaxHandOvers        \* deliveries of one direct message or copy

ASSUME InboxConstants ==
  /\ PaneOf \in [Agents -> Panes]
  /\ IsFiniteSet(Agents)
  /\ Unbound \notin Agents
  /\ NoTime \notin Nat
  /\ Addressees \subseteq [pane : Panes, agent : Agents \cup {Unbound}]
  /\ \A r \in Addressees : r.agent \in Agents => r.pane = PaneOf[r.agent]
  /\ RetireReasons \subseteq {"MaxDeliver", "Superseded", "Cancelled"}
  /\ BodySizes \subseteq Nat /\ ClaimTtls \subseteq Nat
  /\ NoRecipient \notin [pane : Panes, agent : Agents \cup {Unbound}]

\* from_lookup ignores an override that is not positive, so no limit is 0.
ASSUME InboxLimits ==
  /\ {MaxDeliver, MaxPerRecipient, MaxMessages, MaxBodyBytes, HistoryPerPane,
      MaxHistoryMessages, MaxHistoryBytes, HistoryBodyTtl, DedupWindow,
      DedupMaxIds, RatePerMinute, RateWindow, MaxOffersPerScope, MinClaimTtl,
      MaxClaimTtl, OfferAssignWait} \subseteq Nat \ {0}
  /\ {MaxPosts, MaxTime, MaxReserved, MaxHandOvers} \subseteq Nat

VARIABLES
  inbox,    \* the struct Inbox
  stamp,    \* how many entries were ever inserted
  now       \* the instant the hub reads before each call

vars == <<inbox, stamp, now>>

-----------------------------------------------------------------------------
(* Recipients, message states and messages.                                *)

Recipients ==
  {r \in [pane : Panes, agent : Agents \cup {Unbound}] :
     r.agent \in Agents => r.pane = PaneOf[r.agent]}

\* Sets of live agents: a pane has one at a time.
OnePerPane ==
  {S \in SUBSET Agents : \A a, b \in S : PaneOf[a] = PaneOf[b] => a = b}

Bound(a) == [pane |-> PaneOf[a], agent |-> a]

\* Agent a, in its own pane, is this recipient.
Admits(r, a) ==
  /\ r # NoRecipient
  /\ r.pane = PaneOf[a]
  /\ r.agent \in {a, Unbound}

SameHolder(r, s) ==
  /\ r.pane = s.pane
  /\ r.agent = s.agent \/ Unbound \in {r.agent, s.agent}

Reasons == {"AgentExited", "MaxDeliver", "Superseded", "Cancelled"}

Names == {"Queued", "Fetched", "Claimed", "Acknowledged", "Undeliverable"}

State(name) ==
  [name |-> name, by |-> NoRecipient, expires |-> NoTime, reason |-> "None"]

Queued == State("Queued")
Fetched == State("Fetched")
Acknowledged == State("Acknowledged")
Claimed(by, expires) ==
  [State("Claimed") EXCEPT !.by = by, !.expires = expires]
Undeliverable(reason) == [State("Undeliverable") EXCEPT !.reason = reason]

Terminal(m) == m.state.name \in {"Acknowledged", "Undeliverable"}

IsOffer(m) == m.kind = "Offer"

\* The pane a message is listed under; offers in their pool share one more.
HolderPane(m) == IF m.recipient = NoRecipient THEN NoRecipient
                 ELSE m.recipient.pane

Times == Nat \cup {NoTime}

States == [name : Names, by : Recipients \cup {NoRecipient},
           expires : Times, reason : Reasons \cup {"None"}]

Messages ==
  [id : Ids, kind : {"Direct", "Publish", "Offer"},
   scope : Scopes \cup {"None"},
   recipient : Recipients \cup {NoRecipient}, bytes : Nat, claim_ttl : Nat,
   state : States, ended : Nat, deliveries : Nat,
   excluded : SUBSET Recipients, assign_deadline : Times]

Events == [id : Ids, recipient : Recipients \cup {NoRecipient}, state : States]

\* box is an inbox after n insertions.
IsBox(box, n) ==
  /\ box \in [messages : {box.messages}, dedup : Seq([at : Nat, id : Ids]),
              dedup_state : {box.dedup_state}, rate : [Agents -> Seq(Nat)],
              reserved_replies : Nat, events : SUBSET Events]
  /\ box.messages \in [DOMAIN box.messages -> Messages]
  /\ DOMAIN box.messages \subseteq 1..n
  /\ box.dedup_state \in [DOMAIN box.dedup_state -> Names]
  /\ DOMAIN box.dedup_state \subseteq Ids

\* A message as insert stores it; `ended` is its last history entry's time.
NewMessage(id, kind, scope, recipient, bytes, ttl) ==
  [id |-> id, kind |-> kind, scope |-> scope, recipient |-> recipient,
   bytes |-> bytes, claim_ttl |-> ttl, state |-> Queued, ended |-> now,
   deliveries |-> 0, excluded |-> {}, assign_deadline |-> NoTime]

-----------------------------------------------------------------------------
(* What the checks read.                                                   *)

Held(box) == DOMAIN box.messages

Live(box) == {k \in Held(box) : ~Terminal(box.messages[k])}

LiveForPane(box, p) ==
  {k \in Held(box) :
     /\ box.messages[k].state.name \in {"Queued", "Fetched"}
     /\ HolderPane(box.messages[k]) = p}

HasRoomFor(box, p) == Cardinality(LiveForPane(box, p)) < MaxPerRecipient

CheckRoom(box, needed) ==
  Cardinality(Live(box)) + box.reserved_replies + needed <= MaxMessages

CheckBody(bytes) == bytes <= MaxBodyBytes

\* Mutant: ids still held are not looked for.
CheckIdRememberedOnly(box, id) == id \notin DOMAIN box.dedup_state

CheckId(box, id) ==
  /\ \A k \in Held(box) : box.messages[k].id # id
  /\ id \notin DOMAIN box.dedup_state

\* Mutant: one post too many.
CheckRateInclusive(box, from) ==
  Cardinality({i \in DOMAIN box.rate[from] :
                 now - box.rate[from][i] < RateWindow}) <= RatePerMinute

CheckRate(box, from) ==
  Cardinality({i \in DOMAIN box.rate[from] :
                 now - box.rate[from][i] < RateWindow}) < RatePerMinute

OpenOffers(box, scope) ==
  {k \in Live(box) : IsOffer(box.messages[k]) /\ box.messages[k].scope = scope}

\* The entry of id that agent a may act on (at most one: EntriesDistinct).
FindFor(box, id, a) ==
  {k \in Held(box) : /\ box.messages[k].id = id
                     /\ Admits(box.messages[k].recipient, a)}

-----------------------------------------------------------------------------
(* What the operations do to the box.                                      *)

\* Mutant: the window ends an instant early.
ExpireDedupEarly(box) ==
  LET young == {i \in DOMAIN box.dedup : now - box.dedup[i].at + 1 < DedupWindow}
      first == IF young = {} THEN Len(box.dedup) + 1 ELSE Min(young)
      gone  == {box.dedup[i].id : i \in 1..(first - 1)}
  IN  [box EXCEPT
        !.dedup = SubSeq(box.dedup, first, Len(box.dedup)),
        !.dedup_state = [i \in DOMAIN box.dedup_state \ gone |->
                           box.dedup_state[i]]]

\* expire_dedup: forget the ids at the front older than the window.
ExpireDedup(box) ==
  LET young == {i \in DOMAIN box.dedup : now - box.dedup[i].at < DedupWindow}
      first == IF young = {} THEN Len(box.dedup) + 1 ELSE Min(young)
      gone  == {box.dedup[i].id : i \in 1..(first - 1)}
  IN  [box EXCEPT
        !.dedup = SubSeq(box.dedup, first, Len(box.dedup)),
        !.dedup_state = [i \in DOMAIN box.dedup_state \ gone |->
                           box.dedup_state[i]]]

\* register_id: remember an accepted id, pushing out the oldest over the cap.
RegisterId(box, id) ==
  LET longer == Append(box.dedup, [at |-> now, id |-> id])
      over   == IF Len(longer) > DedupMaxIds THEN Len(longer) - DedupMaxIds
                ELSE 0
      gone   == {longer[i].id : i \in 1..over}
  IN  [box EXCEPT
        !.dedup = SubSeq(longer, over + 1, Len(longer)),
        !.dedup_state = [i \in (DOMAIN box.dedup_state \cup {id}) \ gone |->
                           IF i = id THEN "Queued" ELSE box.dedup_state[i]]]

RecordRate(box, from) == [box EXCEPT !.rate[from] = Append(@, now)]

\* What transition tells the hub of message m.
Event(m) == [id |-> m.id, recipient |-> m.recipient, state |-> m.state]

\* insert, once per message of new (a function from fresh stamps).
Insert(box, new) ==
  [box EXCEPT
   !.messages =
     [k \in DOMAIN box.messages \cup DOMAIN new |->
        IF k \in DOMAIN new THEN new[k] ELSE box.messages[k]],
   !.events = @ \cup {Event(new[k]) : k \in DOMAIN new}]

\* transition, once per entry of changed.  The loops that change several
\* entries run from the newest to the oldest, so the oldest entry of an id is
\* the one the dedup state keeps.
Transition(box, changed) ==
  LET of(i) == {k \in DOMAIN changed : changed[k].id = i}
  IN  [box EXCEPT
        !.messages = [k \in DOMAIN box.messages |->
                        IF k \in DOMAIN changed THEN changed[k]
                        ELSE box.messages[k]],
        !.dedup_state = [i \in DOMAIN box.dedup_state |->
                           IF of(i) = {} THEN box.dedup_state[i]
                           ELSE changed[Min(of(i))].state.name],
        !.events = @ \cup {Event(changed[k]) : k \in DOMAIN changed}]

\* A message moved to state s.
Moved(m, s) ==
  [m EXCEPT !.state = s, !.ended = now,
            !.assign_deadline = IF s.name = "Queued" THEN @ ELSE NoTime]

\* Mutants: one hand-over too many; the holder may have the offer back.
ReturnedLate(m) ==
  Moved([m EXCEPT !.assign_deadline = NoTime, !.recipient = NoRecipient,
                  !.excluded = IF m.recipient = NoRecipient THEN @
                               ELSE @ \cup {m.recipient}],
        IF m.deliveries > MaxDeliver THEN Undeliverable("MaxDeliver")
        ELSE Queued)

ReturnedForgetful(m) ==
  Moved([m EXCEPT !.assign_deadline = NoTime, !.recipient = NoRecipient],
        IF m.deliveries >= MaxDeliver THEN Undeliverable("MaxDeliver")
        ELSE Queued)

\* return_offer: the offer leaves its holder for its pool, or ends.
Returned(m) ==
  LET back == [m EXCEPT
                 !.assign_deadline = NoTime,
                 !.recipient = NoRecipient,
                 !.excluded = IF m.recipient = NoRecipient THEN @
                              ELSE @ \cup {m.recipient}]
  IN  Moved(back, IF m.deliveries >= MaxDeliver THEN Undeliverable("MaxDeliver")
                  ELSE Queued)

Change(box, k, m) == Transition(box, [j \in {k} |-> m])

\* The bytes of a terminal message's body that its age leaves.
AgedBody(m) ==
  IF Terminal(m) /\ now - m.ended >= HistoryBodyTtl THEN [m EXCEPT !.bytes = 0]
  ELSE m

\* Of the messages ms, the terminal ones a pane's history limit drops: those
\* with HistoryPerPane newer ones under the same pane.
OverPaneHistory(ms) ==
  LET ended == {k \in DOMAIN ms : Terminal(ms[k])}
  IN  {k \in ended :
         Cardinality({j \in ended : /\ j > k
                                    /\ HolderPane(ms[j]) = HolderPane(ms[k])})
           >= HistoryPerPane}

\* Mutant: live messages count and go too.
OverDeckAny(ms) ==
  {k \in DOMAIN ms :
     Cardinality({j \in DOMAIN ms : j >= k}) > MaxHistoryMessages}

\* Those the deck-wide limits drop: oldest first, while what is left, this one
\* included, is over the count or over the bytes.
OverDeckHistory(ms) ==
  LET ended == {k \in DOMAIN ms : Terminal(ms[k])}
      from(k) == {j \in ended : j >= k}
  IN  {k \in ended :
         \/ Cardinality(from(k)) > MaxHistoryMessages
         \/ MapThenSumSet(LAMBDA j : ms[j].bytes, from(k)) > MaxHistoryBytes}

Without(ms, gone) == [k \in DOMAIN ms \ gone |-> ms[k]]

TrimHistory(box) ==
  LET aged  == [k \in Held(box) |-> AgedBody(box.messages[k])]
      paned == Without(aged, OverPaneHistory(aged))
  IN  [box EXCEPT !.messages = Without(paned, OverDeckHistory(paned))]

\* The rate windows tick prunes: what is left of an agent's times is what is
\* still inside its window (times are pushed in order, so it is a suffix).
PruneRate(box) ==
  [box EXCEPT !.rate =
     [a \in Agents |->
        LET times == box.rate[a]
            young == {i \in DOMAIN times : now - times[i] < RateWindow}
        IN  IF young = {} THEN <<>>
            ELSE SubSeq(times, Min(young), Len(times))]]

\* drain_events, with which every operation of the hub ends.
Drained == [inbox EXCEPT !.events = {}]

InsertOne(box, m) == Insert(box, [k \in {stamp + 1} |-> m])

-----------------------------------------------------------------------------
(* Posting.  A generated id is one that passes CheckId, as an accepted      *)
(* sender-chosen one is, so one choice of id stands for both.               *)

Init ==
  /\ inbox = [messages |-> [k \in {} |-> 0], dedup |-> <<>>,
              dedup_state |-> [i \in {} |-> "Queued"],
              rate |-> [a \in Agents |-> <<>>], reserved_replies |-> 0,
              events |-> {}]
  /\ stamp = 0
  /\ now = 0

AdmitReply(box, id, bytes) ==
  CheckBody(bytes) /\ CheckId(box, id) /\ CheckRoom(box, 1)

AdmitDirect(box, to, id, bytes) ==
  AdmitReply(box, id, bytes) /\ HasRoomFor(box, to.pane)

AdmitReservedReply(box, id, bytes) == CheckBody(bytes) /\ CheckId(box, id)

InsertDirect(box, to, id, bytes) ==
  TrimHistory(InsertOne(RegisterId(box, id),
                        NewMessage(id, "Direct", "None", to, bytes, 0)))

\* An admission check (admit_*) or a refused post leaves only the dedup window
\* moved on.
Admission ==
  /\ inbox' = ExpireDedup(Drained)
  /\ UNCHANGED <<stamp, now>>

PostDirect(to, id, bytes) ==
  LET box == ExpireDedup(Drained)
  IN  /\ stamp < MaxPosts
      /\ AdmitDirect(box, to, id, bytes)
      /\ inbox' = InsertDirect(box, to, id, bytes)
      /\ stamp' = stamp + 1
      /\ UNCHANGED now

\* A message one agent sends another counts against the sender's quota.
PostAgentDirect(from, to, id, bytes) ==
  LET box == ExpireDedup(Drained)
  IN  /\ stamp < MaxPosts
      /\ CheckRate(inbox, from)
      /\ AdmitDirect(box, to, id, bytes)
      /\ inbox' = InsertDirect(RecordRate(box, from), to, id, bytes)
      /\ stamp' = stamp + 1
      /\ UNCHANGED now

ReserveReply ==
  /\ inbox.reserved_replies < MaxReserved
  /\ CheckRoom(inbox, 1)
  /\ inbox' = [Drained EXCEPT !.reserved_replies = @ + 1]
  /\ UNCHANGED <<stamp, now>>

\* Room for a delegated task to pane p that replaces `replacing` older ones.
ReserveDelegate(p, id, bytes, replacing) ==
  LET box == ExpireDedup(Drained)
  IN  /\ inbox.reserved_replies < MaxReserved
      /\ AdmitReservedReply(box, id, bytes)
      /\ Cardinality(Live(box)) + box.reserved_replies + 1
           <= MaxMessages + replacing
      /\ Cardinality(LiveForPane(box, p)) < MaxPerRecipient + replacing
      /\ inbox' = [box EXCEPT !.reserved_replies = @ + 1]
      /\ UNCHANGED <<stamp, now>>

\* Mutant: the count wraps below zero.
ReleasedUnchecked(box) == [box EXCEPT !.reserved_replies = @ - 1]

\* saturating_sub: giving back a reservation nobody holds changes nothing.
Released(box) ==
  [box EXCEPT !.reserved_replies = IF @ = 0 THEN 0 ELSE @ - 1]

ReleaseReply ==
  /\ inbox' = Released(Drained)
  /\ UNCHANGED <<stamp, now>>

\* Called with a reservation held; neither bound of room applies.
PostReservedReply(to, id, bytes) ==
  LET box == ExpireDedup(Drained)
  IN  /\ stamp < MaxPosts
      /\ box.reserved_replies > 0
      /\ AdmitReservedReply(box, id, bytes)
      /\ inbox' = InsertDirect(Released(box), to, id, bytes)
      /\ stamp' = stamp + 1
      /\ UNCHANGED now

\* One copy under the one id for every recipient with room; the rest are named
\* to the sender.  Recipients are the live agents of distinct panes.
Publish(from, topic, id, bytes, recipients) ==
  LET box   == ExpireDedup(Drained)
      room  == {a \in recipients : HasRoomFor(box, PaneOf[a])}
      n     == Cardinality(room)
      noted == RecordRate(RegisterId(box, id), from)
  IN  /\ stamp + n <= MaxPosts
      /\ CheckBody(bytes)
      /\ CheckRate(box, from)
      /\ CheckId(box, id)
      /\ CheckRoom(box, n)
      /\ \E order \in Injection(1..n, room) :
           inbox' = TrimHistory(Insert(noted,
             [k \in (stamp + 1)..(stamp + n) |->
                NewMessage(id, "Publish", "None", Bound(order[k - stamp]),
                           bytes, 0)]))
      /\ stamp' = stamp + n
      /\ UNCHANGED now

-----------------------------------------------------------------------------
(* Offers.                                                                  *)

\* Whom assign_offer may hand offer m to.
Eligible(box, m, candidates) ==
  {a \in candidates :
     /\ \A e \in m.excluded : ~SameHolder(e, Bound(a))
     /\ HasRoomFor(box, PaneOf[a])}

Assigned(m, a) ==
  Moved([m EXCEPT !.recipient = Bound(a), !.deliveries = @ + 1,
                  !.assign_deadline = now + OfferAssignWait], Queued)

\* The outcomes of handing offer k to one of candidates.
Assignments(box, k, candidates) ==
  LET m == box.messages[k]
      eligible == Eligible(box, m, candidates)
  IN  IF eligible = {} THEN {box}
      ELSE {Change(box, k, Assigned(m, a)) : a \in eligible}

Offer(from, scope, id, bytes, ttl, candidates) ==
  LET box  == ExpireDedup(Drained)
      held == InsertOne(RecordRate(RegisterId(box, id), from),
                        NewMessage(id, "Offer", scope, NoRecipient, bytes, ttl))
  IN  /\ stamp < MaxPosts
      /\ CheckBody(bytes)
      /\ ttl \in MinClaimTtl..MaxClaimTtl
      /\ CheckRate(box, from)
      /\ Cardinality(OpenOffers(box, scope)) < MaxOffersPerScope
      /\ CheckId(box, id)
      /\ CheckRoom(box, 1)
      /\ inbox' \in Assignments(held, stamp + 1, candidates)
      /\ stamp' = stamp + 1
      /\ UNCHANGED now

Unassigned(box) ==
  {k \in Held(box) : LET m == box.messages[k]
                     IN  /\ IsOffer(m)
                         /\ m.recipient = NoRecipient
                         /\ m.state = Queued}

AssignOffer(id, candidates) ==
  \E k \in Unassigned(inbox) :
    /\ inbox.messages[k].id = id
    /\ inbox' \in Assignments(Drained, k, candidates)
    /\ UNCHANGED <<stamp, now>>

\* The open offer id, claimed by a recipient that admits agent a.
ClaimedBy(box, id, a) ==
  {k \in Live(box) : LET m == box.messages[k]
                     IN  /\ m.id = id
                         /\ IsOffer(m)
                         /\ m.state.name = "Claimed"
                         /\ Admits(m.state.by, a)}

\* expire_claim_if_due: a claim is honoured only until it expires, whichever of
\* the claimant and the ticker gets to the inbox first.
Settled(m, s) ==
  IF m.state.expires <= now THEN Returned(m) ELSE Moved(m, s)

Complete(id, a) ==
  \E k \in ClaimedBy(inbox, id, a) :
    /\ inbox' = TrimHistory(Change(Drained, k,
                                   Settled(inbox.messages[k], Acknowledged)))
    /\ UNCHANGED <<stamp, now>>

Release(id, a) ==
  \E k \in ClaimedBy(inbox, id, a) :
    /\ inbox' = TrimHistory(Change(Drained, k, Returned(inbox.messages[k])))
    /\ UNCHANGED <<stamp, now>>

-----------------------------------------------------------------------------
(* Delivery.                                                                *)

\* Mutant: whatever ended a message, a late ack is recorded.
AckOfAnyEnded(m) ==
  CASE m.state.name \in {"Queued", "Fetched"} /\ IsOffer(m) ->
         {Moved(m, Claimed(m.recipient, now + m.claim_ttl))}
    [] m.state.name \in {"Queued", "Fetched"} /\ ~IsOffer(m) ->
         {Moved(m, Acknowledged)}
    [] m.state.name = "Undeliverable" /\ ~IsOffer(m) ->
         {Moved(m, Acknowledged)}
    [] OTHER -> {}

\* What an ack of message m by agent a makes of it: a claim of an offer, the
\* end of any other, the correction of one that ran out of hand-overs; every
\* other state answers without changing.
AckOf(m) ==
  CASE m.state.name \in {"Queued", "Fetched"} /\ IsOffer(m) ->
         {Moved(m, Claimed(m.recipient, now + m.claim_ttl))}
    [] m.state.name \in {"Queued", "Fetched"} /\ ~IsOffer(m) ->
         {Moved(m, Acknowledged)}
    [] m.state = Undeliverable("MaxDeliver") /\ ~IsOffer(m) ->
         {Moved(m, Acknowledged)}
    [] OTHER -> {}

\* Claiming an offer ends nothing, so it alone does not trim the history.
Ack(id, a) ==
  \E k \in FindFor(inbox, id, a) :
    \E m \in AckOf(inbox.messages[k]) :
      /\ inbox' = IF IsOffer(m) THEN Change(Drained, k, m)
                  ELSE TrimHistory(Change(Drained, k, m))
      /\ UNCHANGED <<stamp, now>>

\* An offer counts its assignments, any other message its hand-outs.
HandedOut(m) == IF IsOffer(m) THEN m ELSE [m EXCEPT !.deliveries = @ + 1]

TakeReceipt(id, a) ==
  \E k \in FindFor(inbox, id, a) :
    LET m == inbox.messages[k]
    IN  /\ m.state = Queued
        /\ IsOffer(m) \/ m.deliveries < MaxHandOvers
        /\ inbox' = Change(Drained, k, Moved(HandedOut(m), Fetched))
        /\ UNCHANGED <<stamp, now>>

CountReceiptRepeat(id, a) ==
  \E k \in FindFor(inbox, id, a) :
    LET m == inbox.messages[k]
    IN  /\ m.state = Fetched
        /\ ~IsOffer(m)
        /\ m.deliveries < MaxHandOvers
        /\ inbox' = [Drained EXCEPT !.messages[k] = HandedOut(m)]
        /\ UNCHANGED <<stamp, now>>

\* The entry of id held for pane p.
FindAt(box, id, p) ==
  {k \in Held(box) : /\ box.messages[k].id = id
                     /\ box.messages[k].recipient # NoRecipient
                     /\ HolderPane(box.messages[k]) = p}

RequeueReceipt(id, p) ==
  \E k \in FindAt(inbox, id, p) :
    LET m == inbox.messages[k]
    IN  /\ m.state = Fetched
        /\ inbox' = TrimHistory(Change(Drained, k, IF IsOffer(m) THEN Returned(m)
                                                 ELSE Moved(m, Queued)))
        /\ UNCHANGED <<stamp, now>>

Retire(id, p, reason) ==
  \E k \in FindAt(inbox, id, p) \cap Live(inbox) :
    /\ inbox' = TrimHistory(Change(Drained, k, Moved(inbox.messages[k],
                                                   Undeliverable(reason))))
    /\ UNCHANGED <<stamp, now>>

\* Messages bound to agent a that are still owed end; offers it held return.
AgentExited(a) ==
  LET owed == {k \in Live(inbox) : inbox.messages[k].recipient = Bound(a)}
      after(m) == IF IsOffer(m) THEN Returned(m)
                  ELSE Moved(m, Undeliverable("AgentExited"))
  IN  /\ inbox' = TrimHistory(Transition(Drained,
                    [k \in owed |-> after(inbox.messages[k])]))
      /\ UNCHANGED <<stamp, now>>

ForgetPaneHistory(p) ==
  /\ inbox' = [Drained EXCEPT !.messages =
                 Without(@, {k \in Held(inbox) :
                               /\ Terminal(inbox.messages[k])
                               /\ inbox.messages[k].recipient # NoRecipient
                               /\ HolderPane(inbox.messages[k]) = p})]
  /\ UNCHANGED <<stamp, now>>

-----------------------------------------------------------------------------
(* Time.                                                                    *)

Due(m) ==
  \/ m.state.name = "Claimed" /\ m.state.expires <= now
  \/ m.state = Queued /\ m.assign_deadline # NoTime /\ m.assign_deadline <= now

\* Every deadline that has passed; the dedup and rate windows move on.
Tick ==
  LET due == {k \in Held(inbox) : Due(inbox.messages[k])}
  IN  /\ inbox' = PruneRate(ExpireDedup(TrimHistory(Transition(Drained,
                    [k \in due |-> Returned(inbox.messages[k])]))))
      /\ UNCHANGED <<stamp, now>>

\* External: the clock the hub reads.
Advance ==
  /\ now < MaxTime
  /\ now' = now + 1
  /\ UNCHANGED <<inbox, stamp>>

-----------------------------------------------------------------------------

\* A message the deck itself sends: a notice, a seed, a report, an answer.
DeckPost(id) ==
  \E to \in Addressees, bytes \in BodySizes :
    PostDirect(to, id, bytes) \/ PostReservedReply(to, id, bytes)

\* A message agent `from` sends, which counts against its quota.  Publishes and
\* offers go to other panes than the sender's.
AgentPost(from, id) ==
  \E bytes \in BodySizes :
    \/ \E to \in Addressees : PostAgentDirect(from, to, id, bytes)
    \/ \E others \in OnePerPane :
         /\ \A a \in others : PaneOf[a] # PaneOf[from]
         /\ \/ \E topic \in Topics : Publish(from, topic, id, bytes, others)
            \/ \E scope \in Scopes, ttl \in ClaimTtls :
                 Offer(from, scope, id, bytes, ttl, others)

Reserve ==
  \/ ReserveReply
  \/ \E p \in {r.pane : r \in Addressees}, id \in Ids, bytes \in BodySizes :
       \E replacing \in 0..Cardinality(LiveForPane(inbox, p)) :
         ReserveDelegate(p, id, bytes, replacing)
  \/ ReleaseReply

Deliver(id) ==
  \/ \E a \in Agents : \/ Ack(id, a)
                       \/ TakeReceipt(id, a)
                       \/ CountReceiptRepeat(id, a)
                       \/ Complete(id, a)
                       \/ Release(id, a)
  \/ \E candidates \in OnePerPane : AssignOffer(id, candidates)
  \/ \E p \in Panes : \/ RequeueReceipt(id, p)
                      \/ \E reason \in RetireReasons :
                           Retire(id, p, reason)

Upkeep ==
  \/ Admission
  \/ Reserve
  \/ \E id \in Ids : Deliver(id)
  \/ \E a \in Agents : AgentExited(a)
  \/ \E p \in Panes : ForgetPaneHistory(p)
  \/ Tick
  \/ Advance

Next ==
  \/ \E id \in Ids : DeckPost(id)
  \/ \E from \in Agents, id \in Ids : AgentPost(from, id)
  \/ Upkeep

Spec == Init /\ [][Next]_vars

-----------------------------------------------------------------------------
(* Properties.                                                              *)

\* The type of every field; entries have only stamps that were given out.
TypeOK ==
  /\ IsBox(inbox, stamp)
  /\ stamp \in Nat
  /\ now \in Nat

\* Two entries of one inbox.
Apart(m, n) ==
  m.id = n.id => /\ m.kind = "Publish" /\ n.kind = "Publish"
                 /\ HolderPane(m) # HolderPane(n)

Distinct(box) ==
  \A j, k \in Held(box) : j # k => Apart(box.messages[j], box.messages[k])

\* "An entry is identified by its id plus its recipient pane": entries share an
\* id only as copies of one publish, each for another pane.  Every lookup of
\* the code takes the first match, so two matches would hide one.
EntriesDistinct == Distinct(inbox)

HolderOK(m) ==
  /\ ~IsOffer(m) => m.recipient # NoRecipient /\ m.excluded = {}
  /\ m.state.name = "Claimed" =>
       /\ IsOffer(m)
       /\ m.state.by = m.recipient
       /\ m.recipient # NoRecipient
       /\ m.state.expires \in Nat
  /\ m.state.name = "Fetched" => m.recipient # NoRecipient
  /\ m.state.name = "Queued" => m.state = Queued
  /\ m.assign_deadline # NoTime
       <=> IsOffer(m) /\ m.state = Queued /\ m.recipient # NoRecipient
  /\ m.recipient # NoRecipient =>
       \A e \in m.excluded : ~SameHolder(e, m.recipient)

\* Who holds an offer: only an offer waits in a pool; a claim is held by the
\* agent it was handed to; an assignment deadline runs exactly while an offer
\* waits for its holder to fetch it, so no offer is stuck with one; and the
\* holder never held the offer before.
OneHolder == \A k \in Held(inbox) : HolderOK(inbox.messages[k])

HandOversOK(m) ==
  IsOffer(m) =>
    /\ m.deliveries <= MaxDeliver
    /\ m.recipient = NoRecipient /\ ~Terminal(m) => m.deliveries < MaxDeliver

\* max_deliver bounds how often an offer changes hands, and an offer that used
\* its last hand-over is not left waiting in its pool.
OfferHandOversBounded == \A k \in Held(inbox) : HandOversOK(inbox.messages[k])

\* Nothing owed is ever dropped to make room, and nothing ends in silence: a
\* message that leaves the inbox, or ends in it, ends with an event to the hub,
\* in the operation that ends it.  (The history keeps the newest arrivals, so an
\* old message can be dropped from it in that very operation.)
EndsAreTold ==
  [][\A k \in Live(inbox) :
       k \in Live(inbox)' \/
       \E e \in inbox'.events :
         /\ e.id = inbox.messages[k].id
         /\ e.recipient \in {inbox.messages[k].recipient, NoRecipient}
         /\ Terminal(e)]_vars

\* Nothing more happens to an ended message, but that the ack of a direct
\* message or copy that ran out of hand-overs is recorded.
EndedStays ==
  [][\A k \in Held(inbox) \cap Held(inbox)' :
       LET m == inbox.messages[k]
           n == inbox'.messages[k]
       IN  Terminal(m) /\ n.state # m.state =>
             /\ ~IsOffer(m)
             /\ m.state = Undeliverable("MaxDeliver")
             /\ n.state = Acknowledged]_vars

\* An offer that leaves its holder alive excludes that holder for good, and a
\* message in fetched or claimed is never handed to a second consumer.
HoldersExcluded ==
  [][\A k \in Held(inbox) \cap Held(inbox)' :
       LET m == inbox.messages[k]
           n == inbox'.messages[k]
       IN  /\ m.excluded \subseteq n.excluded
           /\ m.recipient \notin {NoRecipient, n.recipient} =>
                /\ m.recipient \in n.excluded
                /\ n.recipient = NoRecipient]_vars

=============================================================================
