------------------------------ MODULE InboxHub ------------------------------
(***************************************************************************)
(* The hub that owns the inbox (src/inbox_hub.rs) together with the actors *)
(* that race on it: agents that come and go in their panes, the exit       *)
(* threads that sweep what they left, the dispatches that delegate tasks   *)
(* (dispatch_one_owned in src/state.rs) and the assigner of pooled offers  *)
(* (src/inbox_pubsub.rs).                                                  *)
(*                                                                         *)
(* One action is one hold of the hub's lock, or a step of the registry     *)
(* between two of them.  A hub operation is an operation of Inbox, guarded *)
(* by what the hub asks the registry under the lock, and followed by       *)
(* drain_events, which settles the hub's watches from the box's events.    *)
(*                                                                         *)
(* Left out: the notices the hub owes, the task ledger and the receipt     *)
(* engine, of which only the hand-outs, requeues and verdicts it applies   *)
(* to the inbox are here.                                                  *)
(***************************************************************************)
EXTENDS Inbox

CONSTANTS
  Senders,        \* agents that delegate, publish and offer
  Workers         \* panes tasks are delegated to

ASSUME HubConstants ==
  /\ Workers \subseteq Panes
  /\ Senders \subseteq Agents

VARIABLES
  status,     \* of each generation: Unborn, Live, Gone or Swept
  delegates,  \* HubState::delegates: a watched task's id, to its worker
  offers,     \* HubState::offers: an open offer's id, to its offerer
  dispatch,   \* the dispatch under way to each pane, which locks it
  replies,    \* reservations held for answers the deck owes
  assigner    \* the offers and the scope's members the assigner last read

registry == <<status>>
watches == <<delegates, offers>>
actors == <<dispatch, replies, assigner>>
hubVars == <<inbox, stamp, now, status, delegates, offers, dispatch, replies,
             assigner>>

-----------------------------------------------------------------------------
(* Agents.  pane_current_agent_id names a generation until its reader sees  *)
(* the end of its output or a close or respawn removes its record; its exit *)
(* is swept later, by the reader's thread, whoever holds the pane by then.  *)

LiveAgents == {a \in Agents : status[a] = "Live"}

\* The generation that holds pane p, if any.
Current(p) == {a \in LiveAgents : PaneOf[a] = p}

\* An agent's processes can still call the deck until its exit is swept.
Calling(a) == status[a] \in {"Live", "Gone"}

\* Mutant: the check is made before the lock is taken, so it may be stale.
HoldsStale(r) == r.agent \in Agents => status[r.agent] # "Unborn"

\* The installed live_agent check, and the checks posts bring with them: a
\* message bound to a generation goes in only while that one holds its pane.
Holds(r) == r.agent \in Agents => status[r.agent] = "Live"

Spawn(a) ==
  /\ status[a] = "Unborn"
  /\ Current(PaneOf[a]) = {}
  /\ status' = [status EXCEPT ![a] = "Live"]
  /\ UNCHANGED <<inbox, stamp, now, watches, actors>>

\* It exited, or a close or a respawn took its record away.
Leave(a) ==
  /\ status[a] = "Live"
  /\ status' = [status EXCEPT ![a] = "Gone"]
  /\ UNCHANGED <<inbox, stamp, now, watches, actors>>

-----------------------------------------------------------------------------
(* drain_events: what the events of this hold of the lock settle.           *)

Ended == {e.id : e \in {e \in inbox'.events : Terminal(e)}}

\* settle_delegate, settle_offer: a watch ends with its message.
Settle(f) == Restrict(f, DOMAIN f \ Ended)

Drain ==
  /\ delegates' = Settle(delegates)
  /\ offers' = Settle(offers)

\* A hub operation that touches nothing but the inbox and its watches.
Plain == Drain /\ UNCHANGED <<registry, actors>>

-----------------------------------------------------------------------------
(* Posts.                                                                   *)

\* post_with: the deck's own messages.
HubPost(to, id, bytes) == Holds(to) /\ PostDirect(to, id, bytes) /\ Plain

\* post_agent_direct_where: the sender must hold its pane too.
HubPostAgent(from, to, id, bytes) ==
  /\ status[from] = "Live"
  /\ Holds(to)
  /\ PostAgentDirect(from, to, id, bytes)
  /\ Plain

HubReserveReply ==
  /\ ReserveReply
  /\ replies' = replies + 1
  /\ Drain
  /\ UNCHANGED <<registry, dispatch, assigner>>

\* post_reserved_reply_with: the answer spends its reservation.
HubPostReply(to, id, bytes) ==
  /\ replies > 0
  /\ Holds(to)
  /\ PostReservedReply(to, id, bytes)
  /\ replies' = replies - 1
  /\ Drain
  /\ UNCHANGED <<registry, dispatch, assigner>>

\* A reservation that drops unused, a refused answer's included.
DropReply ==
  /\ replies > 0
  /\ ReleaseReply
  /\ replies' = replies - 1
  /\ Drain
  /\ UNCHANGED <<registry, dispatch, assigner>>

\* revalidate: the sender and every member of its scope hold their panes, so
\* the recipients are live agents of other panes.
Revalidated(from, others) ==
  /\ status[from] = "Live"
  /\ \A a \in others : status[a] = "Live" /\ PaneOf[a] # PaneOf[from]

HubPublish(from, topic, id, bytes, others) ==
  Revalidated(from, others) /\ Publish(from, topic, id, bytes, others) /\ Plain

HubOffer(from, scope, id, bytes, ttl, others) ==
  /\ Revalidated(from, others)
  /\ Offer(from, scope, id, bytes, ttl, others)
  /\ delegates' = Settle(delegates)
  /\ offers' = Settle([i \in DOMAIN offers \cup {id} |->
                         IF i = id THEN from ELSE offers[i]])
  /\ UNCHANGED <<registry, actors>>

-----------------------------------------------------------------------------
(* Delegated tasks.  A dispatch holds the pane's dispatch lock from its     *)
(* reservation to its post, across awaits in which anything else happens.   *)

Idle == [phase |-> "Idle", id |-> "None", bytes |-> 0, clear |-> FALSE,
         worker |-> Unbound, orchestrator |-> Unbound]

\* The entries of live watched tasks to pane p.
Watched(box, p) ==
  {k \in Live(box) : LET id == box.messages[k].id
                     IN  /\ id \in DOMAIN delegates
                         /\ PaneOf[delegates[id]] = p
                         /\ HolderPane(box.messages[k]) = p}

\* Mutant: the new task counts as one it replaces.
BeginCountingItself(p, o, id, bytes, clear) ==
  /\ dispatch[p].phase = "Idle"
  /\ ReserveDelegate(p, id, bytes, 1 + Cardinality(Watched(inbox, p)))
  /\ dispatch' = [dispatch EXCEPT
       ![p] = [phase |-> "Reserved", id |-> id, bytes |-> bytes,
               clear |-> clear, worker |-> Unbound, orchestrator |-> o]]
  /\ Drain
  /\ UNCHANGED <<registry, replies, assigner>>

\* reserve_delegate, before anything is saved, retired or restarted.  The role's
\* clear = true, read from the project's file for this dispatch, restarts the
\* worker for the task.
Begin(p, o, id, bytes, clear) ==
  /\ dispatch[p].phase = "Idle"
  /\ ReserveDelegate(p, id, bytes, Cardinality(Watched(inbox, p)))
  /\ dispatch' = [dispatch EXCEPT
       ![p] = [phase |-> "Reserved", id |-> id, bytes |-> bytes,
               clear |-> clear, worker |-> Unbound, orchestrator |-> o]]
  /\ Drain
  /\ UNCHANGED <<registry, replies, assigner>>

\* retire_delegates_locked: every watched task to the pane ends, superseded.
Retired(box, p) ==
  TrimHistory(Transition(box,
    [k \in Watched(box, p) |-> Moved(box.messages[k],
                                     Undeliverable("Superseded"))]))

\* supersede_delegates_to, before a restart of pane p that a client asked for,
\* which waits for the pane's dispatch lock.
Supersede(p) ==
  /\ dispatch[p].phase = "Idle"
  /\ inbox' = Retired(Drained, p)
  /\ UNCHANGED <<stamp, now>>
  /\ Plain

\* The same before the restart of a clear = true role's worker ...
SupersedeForClear(p) ==
  /\ dispatch[p].phase = "Reserved"
  /\ dispatch[p].clear
  /\ inbox' = Retired(Drained, p)
  /\ dispatch' = [dispatch EXCEPT ![p].phase = "Superseded"]
  /\ Drain
  /\ UNCHANGED <<stamp, now, registry, replies, assigner>>

\* ... and its restart: the pane's generation, if any, gives way to a new one.
Respawn(p, a) ==
  /\ dispatch[p].phase = "Superseded"
  /\ PaneOf[a] = p
  /\ status[a] = "Unborn"
  /\ status' = [b \in Agents |-> IF b = a THEN "Live"
                                 ELSE IF b \in Current(p) THEN "Gone"
                                 ELSE status[b]]
  /\ dispatch' = [dispatch EXCEPT ![p].phase = "Bound", ![p].worker = a]
  /\ UNCHANGED <<inbox, stamp, now, watches, replies, assigner>>

\* Mutant: the older tasks go before the new one is in.
BindRetiring(p) ==
  /\ dispatch[p].phase = "Reserved"
  /\ ~dispatch[p].clear
  /\ inbox' = Retired(Drained, p)
  /\ \E a \in Current(p) :
       dispatch' = [dispatch EXCEPT ![p].phase = "Bound", ![p].worker = a]
  /\ Drain
  /\ UNCHANGED <<stamp, now, registry, replies, assigner>>

\* Without a restart the task is for whoever holds the pane.
Bind(p) ==
  /\ dispatch[p].phase = "Reserved"
  /\ ~dispatch[p].clear
  /\ \E a \in Current(p) :
       dispatch' = [dispatch EXCEPT ![p].phase = "Bound", ![p].worker = a]
  /\ UNCHANGED <<inbox, stamp, now, registry, watches, replies, assigner>>

\* post_delegate_with: refused if the worker no longer holds the pane or the
\* id was taken; else the older tasks to the pane are superseded and the task
\* goes into the reserved room, watched.
PostDelegate(p) ==
  LET d   == dispatch[p]
      box == ExpireDedup(Drained)
  IN  /\ d.phase = "Bound"
      /\ stamp < MaxPosts
      /\ status[d.worker] = "Live"
      /\ AdmitReservedReply(box, d.id, d.bytes)
      /\ inbox' = InsertDirect(Released(Retired(box, p)), Bound(d.worker),
                               d.id, d.bytes)
      /\ stamp' = stamp + 1
      /\ delegates' = [i \in DOMAIN Settle(delegates) \cup {d.id} |->
                         IF i = d.id THEN d.worker ELSE delegates[i]]
      /\ offers' = Settle(offers)
      /\ dispatch' = [dispatch EXCEPT ![p] = Idle]
      /\ UNCHANGED <<now, registry, replies, assigner>>

\* Its body could not be saved, the restart failed, the pane has no live agent
\* or the post is refused.
MayFail(p) ==
  LET d == dispatch[p]
  IN  \/ d.phase \in {"Reserved", "Superseded"}
      \/ /\ d.phase = "Bound"
         /\ \/ status[d.worker] # "Live"
            \/ ~AdmitReservedReply(ExpireDedup(Drained), d.id, d.bytes)

\* A dispatch that posts no task tells its orchestrator in the task's own room
\* (post_orchestrator_notice_in) ...
Refuse(p, id, bytes) ==
  LET to == dispatch[p].orchestrator
  IN  /\ MayFail(p)
      /\ status[to] = "Live"
      /\ PostReservedReply(Bound(to), id, bytes)
      /\ dispatch' = [dispatch EXCEPT ![p] = Idle]
      /\ Drain
      /\ UNCHANGED <<registry, replies, assigner>>

\* Mutant: the room is not given back.
AbandonLeaking(p) ==
  /\ MayFail(p)
  /\ inbox' = Drained
  /\ dispatch' = [dispatch EXCEPT ![p] = Idle]
  /\ Drain
  /\ UNCHANGED <<stamp, now, registry, replies, assigner>>

\* ... or gives the room back: no orchestrator is known or holds its pane any
\* more, or the notice could not be saved.
Abandon(p) ==
  /\ MayFail(p)
  /\ ReleaseReply
  /\ dispatch' = [dispatch EXCEPT ![p] = Idle]
  /\ Drain
  /\ UNCHANGED <<registry, replies, assigner>>

\* retire_reported_task: a report ends its task's watch, and its message if the
\* worker never took it.
Report(id) ==
  /\ id \in DOMAIN delegates
  /\ LET own == {k \in Live(inbox) : inbox.messages[k].id = id}
     IN  inbox' = TrimHistory(Transition(Drained,
           [k \in own |-> Moved(inbox.messages[k],
                                Undeliverable("Superseded"))]))
  /\ delegates' = Restrict(Settle(delegates), DOMAIN Settle(delegates) \ {id})
  /\ offers' = Settle(offers)
  /\ UNCHANGED <<stamp, now, registry, actors>>

-----------------------------------------------------------------------------
(* Offers.                                                                  *)

\* pooled_offers, at the start of a round of the assigner's loop.
Gather ==
  /\ assigner.ids = {}
  /\ assigner' = [assigner EXCEPT
       !.ids = {inbox.messages[k].id : k \in Unassigned(inbox)} \cap DOMAIN offers,
       !.read = FALSE]
  /\ assigner'.ids # {}
  /\ UNCHANGED <<inbox, stamp, now, registry, watches, dispatch, replies>>

\* Mutant: the scope's members are read in the first round only.
ReadScopeOnce ==
  /\ assigner.ids # {}
  /\ ~assigner.read
  /\ assigner' = [assigner EXCEPT
       !.members = IF @ = {} THEN LiveAgents ELSE @, !.read = TRUE]
  /\ UNCHANGED <<inbox, stamp, now, registry, watches, dispatch, replies>>

\* ScopeView::gather, awaited, before the offers of the round are handed out one
\* hold of the lock at a time.
ReadScope ==
  /\ assigner.ids # {}
  /\ ~assigner.read
  /\ assigner' = [assigner EXCEPT !.members = LiveAgents, !.read = TRUE]
  /\ UNCHANGED <<inbox, stamp, now, registry, watches, dispatch, replies>>

\* assign_pooled, hand_out and assign_offer: nothing while the offerer is gone;
\* members that left since are skipped.
Assign(id) ==
  /\ assigner.read
  /\ id \in assigner.ids
  /\ assigner' = [assigner EXCEPT !.ids = @ \ {id}]
  /\ \/ /\ id \in DOMAIN offers
        /\ status[offers[id]] = "Live"
        /\ AssignOffer(id, {a \in assigner.members \cap LiveAgents :
                              PaneOf[a] # PaneOf[offers[id]]})
     \/ /\ ~ \E k \in Unassigned(inbox) :
               /\ inbox.messages[k].id = id
               /\ id \in DOMAIN offers
               /\ status[offers[id]] = "Live"
        /\ inbox' = Drained
        /\ UNCHANGED <<stamp, now>>
  /\ Drain
  /\ UNCHANGED <<registry, dispatch, replies>>

-----------------------------------------------------------------------------
(* What agents, the receipt engine and the ticker do.                       *)

\* ack: only what was handed to the agent can be acknowledged.
HubAck(id, a) ==
  /\ Calling(a)
  /\ \E k \in FindFor(inbox, id, a) :
       LET m == inbox.messages[k]
       IN  m.state # Queued \/ (~IsOffer(m) /\ m.deliveries > 0)
  /\ Ack(id, a)
  /\ Plain

HubDeliver(id) ==
  \/ \E a \in Agents :
       /\ Calling(a)
       /\ \/ TakeReceipt(id, a)
          \/ CountReceiptRepeat(id, a)
          \/ Complete(id, a)
          \/ Release(id, a)
       /\ Plain
  \/ \E p \in Panes : RequeueReceipt(id, p) /\ Plain
  \/ \E p \in Panes, reason \in RetireReasons :
       Retire(id, p, reason) /\ Plain

\* Mutant: an exit is not swept once another generation has the pane.
SweepUnlessReplaced(a) ==
  /\ status[a] = "Gone"
  /\ Current(PaneOf[a]) = {}
  /\ status' = [status EXCEPT ![a] = "Swept"]
  /\ AgentExited(a)
  /\ Drain
  /\ UNCHANGED actors

\* agent_exited_as, on the exited generation's reader thread.
Sweep(a) ==
  /\ status[a] = "Gone"
  /\ status' = [status EXCEPT ![a] = "Swept"]
  /\ AgentExited(a)
  /\ Drain
  /\ UNCHANGED actors

\* A close that leaves no record on the pane.
Close(p) == Current(p) = {} /\ ForgetPaneHistory(p) /\ Plain

HubTick == Tick /\ Plain

HubAdvance == Advance /\ UNCHANGED <<registry, watches, actors>>

-----------------------------------------------------------------------------

HubInit ==
  /\ Init
  /\ status = [a \in Agents |-> "Unborn"]
  /\ delegates = [i \in {} |-> Unbound]
  /\ offers = [i \in {} |-> Unbound]
  /\ dispatch = [p \in Workers |-> Idle]
  /\ replies = 0
  /\ assigner = [ids |-> {}, members |-> {}, read |-> FALSE]

Lifecycle == \E a \in Agents : Spawn(a) \/ Leave(a) \/ Sweep(a)

Posts ==
  \/ \E to \in Addressees, id \in Ids, bytes \in BodySizes :
       \/ HubPost(to, id, bytes)
       \/ HubPostReply(to, id, bytes)
       \/ \E from \in Senders : HubPostAgent(from, to, id, bytes)
  \/ \E from \in Senders, id \in Ids, bytes \in BodySizes :
       \E others \in SUBSET LiveAgents :
         \/ \E topic \in Topics : HubPublish(from, topic, id, bytes, others)
         \/ \E scope \in Scopes, ttl \in ClaimTtls :
              HubOffer(from, scope, id, bytes, ttl, others)
  \/ HubReserveReply
  \/ DropReply

Dispatches ==
  \E p \in Workers :
    \/ \E o \in Senders \cap LiveAgents, id \in Ids, bytes \in BodySizes,
          clear \in BOOLEAN : Begin(p, o, id, bytes, clear)
    \/ SupersedeForClear(p)
    \/ \E a \in Agents : Respawn(p, a)
    \/ Bind(p)
    \/ PostDelegate(p)
    \/ \E id \in Ids, bytes \in BodySizes : Refuse(p, id, bytes)
    \/ Abandon(p)
    \/ Supersede(p)

Assigner == Gather \/ ReadScope \/ \E id \in Ids : Assign(id)

HubNext ==
  \/ Lifecycle
  \/ Posts
  \/ Dispatches
  \/ Assigner
  \/ \E id \in Ids : Report(id) \/ HubDeliver(id) \/ \E a \in Agents : HubAck(id, a)
  \/ \E p \in Panes : Close(p)
  \/ HubTick
  \/ HubAdvance

HubSpec == HubInit /\ [][HubNext]_hubVars

\* The reader thread of an exited generation runs to its sweep, and the
\* assigner's loop runs at least every ASSIGNER_SWEEP.
FairHubSpec ==
  /\ HubSpec
  /\ \A a \in Agents : WF_hubVars(Sweep(a))
  /\ WF_hubVars(Gather)
  /\ WF_hubVars(ReadScope)
  /\ \A id \in Ids : WF_hubVars(Assign(id))

-----------------------------------------------------------------------------
(* Properties.                                                              *)

HubTypeOK ==
  /\ TypeOK
  /\ status \in [Agents -> {"Unborn", "Live", "Gone", "Swept"}]
  /\ DOMAIN delegates \subseteq Ids /\ Range(delegates) \subseteq Agents
  /\ DOMAIN offers \subseteq Ids /\ Range(offers) \subseteq Agents
  /\ dispatch \in
       [Workers -> [phase : {"Idle", "Reserved", "Superseded", "Bound"},
                    id : Ids \cup {"None"}, bytes : Nat, clear : BOOLEAN,
                    worker : Agents \cup {Unbound},
                    orchestrator : Agents \cup {Unbound}]]
  /\ replies \in Nat
  /\ assigner \in [ids : SUBSET Ids, members : SUBSET Agents, read : BOOLEAN]

\* "A worker swept before the post would hold it forever": once an exit was
\* swept nothing is owed to that generation again, however the posts, the
\* hand-outs of offers and the sweep raced.
NoOrphans ==
  \A k \in Live(inbox), a \in Agents :
    inbox.messages[k].recipient = Bound(a) => status[a] \in {"Live", "Gone"}

\* Rooms reserved are rooms somebody holds: none leaks, none is given back
\* twice, through every way a dispatch or an answer ends.
ReservationsExact ==
  inbox.reserved_replies =
    replies + Cardinality({p \in Workers : dispatch[p].phase # "Idle"})

\* How far the deck can be over max_messages: a reservation counts the tasks it
\* will retire as room, and the notice of a task that was not posted takes that
\* room with those tasks still live; each watched task is counted only once.
DeckRoom ==
  Cardinality(Live(inbox)) + inbox.reserved_replies
    <= MaxMessages + Cardinality(DOMAIN delegates)

\* A task refused, unsaved or without a worker leaves the pane's older task as
\* it was: a dispatch that does not restart its worker ends the older task only
\* by posting the newer one.
RefusedSupersedesNothing ==
  [][\A p \in Workers :
       dispatch'[p] # dispatch[p] /\ ~dispatch[p].clear =>
         \/ {id \in DOMAIN delegates : PaneOf[delegates[id]] = p}
              \subseteq DOMAIN delegates'
         \/ dispatch[p].id \in DOMAIN delegates']_hubVars

\* An exited generation is in the end owed nothing, for good, whatever was
\* posted to it or handed out to it while its exit was on its way.
ExitsSettle ==
  \A a \in Agents :
    status[a] = "Gone" ~>
      [](\A k \in Live(inbox) : inbox.messages[k].recipient # Bound(a))

\* Offer id waits in its pool although an agent that may take it is there.
Takable(id) ==
  \E k \in Unassigned(inbox) :
    /\ inbox.messages[k].id = id
    /\ id \in DOMAIN offers
    /\ status[offers[id]] = "Live"
    /\ Eligible(inbox, inbox.messages[k],
                {a \in LiveAgents : PaneOf[a] # PaneOf[offers[id]]}) # {}

\* No offer waits for ever while a live agent may take it: what the assigner
\* read may be stale every time, but agents that leave do not come back.
OffersMove == \A id \in Ids : []<>~Takable(id)

=============================================================================
