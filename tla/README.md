# TLA+ models of dot-agent-deck

dot-agent-deck runs many AI coding agents at once. A background daemon owns the
agents' terminals; the terminal UI and the desktop application attach to it.
Agents send one another messages, hand out tasks and jobs, and report back, all
through the daemon. This project models the part of the daemon in which a
mistake loses somebody's work, does it twice, or tells somebody the wrong thing
about it: agent messaging, the order in which agents' hook events are applied, and
the files in which reports outlive the daemon. Paths below are relative to the
crate's `src/`.

## Inventory

| Component | State it keeps | Operations | Hard behaviour |
| --- | --- | --- | --- |
| Inbox (`inbox.rs`) | messages and their states, dedup memory, rate windows, reserved rooms, bounded history | post, publish, offer, reserve, hand out, ack, complete, release, requeue, retire, exit, tick | expiry against completion, limits, ids reused |
| Hub (`inbox_hub.rs`) | the inbox, delivery watches, offer contexts, owed notices, memories of ended tasks, waiters, rings, spilled bodies | every operation of the inbox under one lock, with liveness checks and the settlement of events | posts racing exits; notices posted outside the lock |
| Publish, offer, assigner (`inbox_pubsub.rs`) | what the assigner's loop last read | publish, offer, claim, assign | stale reads across an await |
| Attempt model and engine (`inbox_attempts.rs`, `inbox_engine.rs`) | attempts of a message, their stages and evidence, repeat tokens, the Cancel latch | issue, possess, commit, lapse, retry, cancel, mark received, exit, finalize | a late commit dominates; repeats must not double work |
| Receivers (`inbox_receipt.rs`, `inbox_oneshot.rs`, `inbox_prompt.rs`, `inbox_watcher.rs`) | waiters, spool receipts | arm, hand, witness, close | lost and late receipts |
| Task ledger and claims (`report_recovery.rs`, `inbox_claims.rs`) | open tasks, tombstones, claims, outcome rows, units | bind, claim, commit, fail, settle, evict | a report racing an exit and a newer task |
| Delegate dispatch and restart (`state.rs`) | one dispatch per pane lock | reserve, save, supersede, restart, post, refuse | every await in between |
| Agent registry (`agent_pty.rs`) | which generation holds a pane | spawn, exit, respawn, close | exits are swept later, on another thread |
| Reports and retained files (`inbox_reports.rs`, `inbox_spills.rs`, `retained_store.rs`) | report files, inventories, quotas | reserve, write, take over, expire | crash between two files |
| Dispatched units (`dispatched_units.rs`, `dispatch_return.rs`, `worktree_*.rs`) | units, return routes, worktrees | commission, return, reclaim | replacement during a return |
| Doorbell (`doorbell*.rs`, `evidence_state.rs`, `ingress_ledger.rs`, `lifetime_tag.rs`) | a transaction per generation, input evidence | admit, type, confirm, hold | the user's typing races the deck's |
| Hook event order (`hook_event_order.rs`) | tickets of connections | admit, take turn, give up | bounded wait for silent predecessors |
| Scheduler, issue dispatch | due times, runs | fire, skip, record | overlap of runs |
| The rest: protocol and clients, UI, configuration, hook installers, remote decks, upgrade, telemetry, desktop, Pi extension | | | I/O, presentation, parsing |

How they interact. An orchestrator's `delegate` becomes a dispatch, which
reserves room in the hub, perhaps restarts the worker, and posts the task to the
worker's generation. The engine hands the task to the worker and decides, from
attempts and receipts, what became of it; each verdict is mirrored into the inbox
copy, whose event the hub settles: the watch ends, the ledger notes it, a notice
is owed to the orchestrator. The worker's `work-done` claims the task in the
ledger, saves the report and closes the task. An agent that exits stops holding
its pane at once and is swept later. The hub's lock makes each of these steps
atomic; everything between two holds of it can interleave.

What makes each part correct: an inbox message is held by one consumer, ends
once and is told; a pane's exit leaves nothing waiting; room that is reserved is
used or returned; an orchestrator hears of every end once, and of no false one
without a correction; a task admits exactly one report and never stays open for
a worker that is gone; the deck never repeats by itself what an agent may have,
and never forgets a message nobody else can move; one session's hook events are
applied in the order they were sent; a report the daemon accepted is on disk, once,
for as long as was promised, whichever run dies when.

## Modules

| Module | Models | Checked in | Proofs |
| --- | --- | --- | --- |
| `Inbox` | all of `Inbox` in `inbox.rs` | `MCInbox` | `InboxProofs` |
| `InboxLog` (extends `Inbox`) | the inbox with a history of accepted posts | `MCInbox` | `InboxProofs` |
| `InboxHub` (extends `Inbox`) | the hub's lock-holds with registry, dispatches, assigner | `MCInboxHub` | `InboxHubProofs` |
| `TaskNotices` | watches, copies, ledger, claims and owed notices of delegated tasks | `MCTaskNotices` | `TaskNoticesProofs` |
| `Delivery` | abstract: what the receipt engine promises of a message | by refinement | `AttemptsProofs` |
| `Attempts` (implements `Delivery`) | the attempt model and the engine that drives it, for one agent generation | `MCAttempts` | `AttemptsProofs` |
| `HookEventOrder` | tickets, slots, turns and wake-ups of hook connections, with the hook loop's permits | `MCHookEventOrder` | `HookEventOrderProofs` |
| `RetainedStore` | the retained-report store over several daemon runs and crashes | `MCRetainedStore` | `RetainedStoreProofs`, `RetainedBytesProofs` |
| `SetFacts` | nothing: facts about minima, finite sets and sums that several proofs cite | | itself |

### Inbox

The record `inbox` is the Rust struct: `messages` is a function from an insertion
stamp to the message (the vector's order is the order of stamps), `dedup_order`
and `dedup_state` the memory of ids, `rate` the accepted posts of each agent in
the window, `reserved_replies` the counter, `events` what the last operation
emitted. `drain_events` is called by the hub within every hold of the lock, so an
action starts from `Drained`. Each public method that changes the struct is one
action; `transition`, `return_offer`, `trim_history`, `register_id` and the
admission checks are operators with the same names and are part of every action
that calls them. A body is its size. The clock is an integer that `Advance`
moves; expiry is lazy as in the code (`expire_claim_if_due` inside the operation,
`expire_dedup` inside posts) as well as by `Tick`. Which agents belong to a scope
or subscribe to a topic is an input: any set of agents in different panes.
`InboxLog` adds the history of accepted posts that `DedupHolds` and `RateHolds` are
about: the code keeps no such list, only the windows it remembers of it.

### InboxHub

`status` is the registry's view of a generation: unborn, live (it is what
`pane_current_agent_id` answers), gone, swept. `delegates` and `offers` are the
hub's watches, `dispatch` the dispatch that holds a pane's dispatch lock,
`replies` the reservations held for answers, `assigner` what the assigner's loop
has read. One action is one hold of the hub's lock or one step of the registry.
The liveness checks are evaluated where the code evaluates them, under the lock.
A dispatch is `Begin` (reserve), `SupersedeForClear`, `Respawn` or `Bind`,
`PostDelegate`, or at any of these points `Refuse` (its notice spends the
reserved room) or `Abandon` (the room is given back). The assigner's round is
`Gather` (pooled_offers), `ReadScope` (an await later), then one `Assign` for each
offer. The engine appears only as the hand-outs, requeues and verdicts it applies
to the inbox. The two holds of `supersede_delegates_to` are one action here
because the second touches only the ledger; `TaskNotices` separates them.

### TaskNotices

For each delegated task: `model` is the attempt model's verdict (its attempts are
abstracted), `copy` the state of the inbox copy, `watches`, `notified` and `told`
the delivery watch, `cancelled` and `late` the two bounded memories, `ledger`,
`delivery`, `walked` and `claims` the report side. `owed` is the list of owed
notices as a bag; `batch` and `kept` are a posting thread's local lists; `said` is
a history variable, every notice ever owed. The rules of `finalize` are the
actions `Commit` (rule 1), `Cancel` and `CancelDone` (2), `Requeue` and
`OutOfAttempts` (3), `Regain` (4) and `Lapse` (5). An exit is one hold of the lock
and one action: the walk, the engine's exit, the inbox's exit and the settlement
of its events. Messages of sibling generations are told apart as in the code, by
pane and generation.

### Attempts and Delivery

`msgs` is `AttemptModel::messages`: a message's state, its attempts (a sequence, so
that the attempt number is the index), the Cancel latch, the counters, the repeat
token and the wait that rule 5 measures. `rxs` is the receivers with the engine's
link to each. One action is one hold of the hub's lock by the engine: `issue`
(`issue_to`, `dispatch` and the fetches of doorbell and hook), `stage` and `commit`
(controls, explicit acks and the prompt hook's commit), `release`,
`expire_staging` and `deck_not_handed` (the withheld hand-overs of once-waiters and
the deck's own witness), `register`, `snapshot`, `resume_answer`, the two ways of
closing, `turn`, `retry`, `cancel`, `exit`, `forget`. Every action ends in
`finalize`, whose five rules are five operators in the code's order, and in
`reclaim`. The clock is two actions, as in `tick_receipts_with`: `lapse_checks`
collects candidates and reads the spool, `tick` applies what was found; any other
action may come between them. `publish` is the agent's side of the spool.

What is abstracted: a duration is a flag that time may clear at any moment (issue
grace, the freshness of a snapshot, a hook's hold, an approval in use) or a choice
of the step that reads it (which closed streams, withheld attempts and owed answers
are past their deadline at this tick), so every order of deadlines is explored,
those that configured durations exclude too. A possession mark is kept as whether
the check under way still counts; a revision as whether a token is still at it; an
action of the user at an old revision changes nothing. A reclaimed attempt keeps
only what is read again. Held-long and not-started attention change nothing but
what the user may do, so whether one stands is a choice in `retry`; resent revokes
change no state here. The spool is readable: the policy for a generation whose
spool cannot be read at all, which clears every candidate unread, is left out.

`Delivery` says what the hub may rely on: a message is open until one verdict is
given of it; every hand-out of an open message has a name of its own; who was told
that a message is uncertain, cancelled or out of attempts is corrected when the
agent turns out to have it, once, and nobody else is. `DeliverySpec` is the
refinement: the verdict of a message is read off its state, the names off the
history of hand-outs.

### HookEventOrder

`slot` is `Open::connections`, `pc` where a connection's task is. Each connection is
a task of its own; the loop admits in accept order and needs a permit. `look` is
one hold of the lock; enabling the wake-up, looking, and going to sleep are three
steps, and a change of a slot and the wake-up that follows it are two, so a wake-up
may come at any point between. Time is whether `PREDECESSOR_WAIT` has passed since a
connection was accepted, which happens in accept order. What a line is (an announce,
an event with its keys and standing, anything else) is an input.

### RetainedStore

The disk is `lock`, `dir`, `files` and `inventory` for each run and survives a
crash; everything else belongs to a process. A step is what happens between two
points at which another thread, another run or a crash can come in: a write is
`reserve`, `write_temp`, `write_link`, then `write_saved` or `write_failed`; a sweep
is `sweep_nominate` (the snapshot), `sweep_claim` (under the lock), `sweep_unlink`,
`sweep_drop`; a takeover is `take_over` (the lock tried), one `transfer_file` for each
name, then the four steps that retire the source. Each call that can fail may fail,
and a filesystem without a no-replace rename is one of the initial states. A
dispatch's result that cannot be saved is held in memory and retried (`save_held`,
`retry_held`, `end_held`). `promise` is history: until when a report must be kept.
At a crash it becomes what the next takeover is bound to give the file: not less
than the recovery retention counted from the moment the earliest takeover under way
read its clock, since a starting run reads it once.

What is abstracted: the state letter of an adopted name, which nothing decides by;
one clock stands for wall and monotonic time; the snapshot of an inventory and its
write are one step, since nobody reads the inventory of a run that lives; opening
and trying a dead run's lock are one step, and so are the removals of a failed write
and their accounting; the sweep's recount is the identity, since nobody else deletes
files here. Panics that unwind through a write, files deleted from outside and
unreadable files other than an inventory are left out.

## Runs

Clocks, posts, hand-overs and reservations are capped by named bounds (`MaxTime`,
`MaxPosts`, `MaxHandOvers`, `MaxReserved`) in the guards, and tasks and
generations are finite sets, so every instance comes to a state with nothing left
to do; that is the instance's end and not the system's, and deadlock is not
checked. Symmetry is used over message ids, runs and reports, never with liveness.

| Run | Instance | Shows |
| --- | --- | --- |
| `inbox_posts` | two ids, two panes, direct and published, history of one message, windows of two ticks, memory of one id | entries stay distinct, no end is lost or changed, the dedup and rate windows hold whatever the ticks |
| `hub_tasks` | an orchestrator, a worker pane with two generations, two ids, three posts, two reservations, a deck of two messages | nothing owed to a swept generation, reservations exact, how far the deck can exceed its limit, a refused task supersedes nothing |
| `hub_live` | the same agents and a pool of one offer, two hand-overs, fair | an offer changes hands at most `max_deliver` times and returns to nobody who held it; exits settle; offers move |
| `notices_tasks` | two generations of one pane, a task each, memories of one, restarts | ends told once and always, corrections have a cause, watched tasks are reportable, claims and ledger agree |
| `notices_posted` | one task, two posters, an orchestrator that may leave, fair | no notice lost or doubled; owed reports arrive |
| `notices_corrected`, `notices_restart` | one task | findings 1 and 2 |
| `attempts_streams` | one message, stream receivers, two incarnations, two attempts, one automatic repeat | no automatic repeat of what the agent has; a commit decides; the refinement of `Delivery` |
| `attempts_one_shots` | one message, once-waiters and hooks, two incarnations, two attempts | attempts, repeats and requeues are bounded and counted, Cancel stops hand-overs, no receipt is thrown away unread |
| `attempts_offers` | one offer, once-waiters, two incarnations, two attempts, records forgotten once, fair | names are never reused; no message is stranded |
| `hook_order` | three connections, two permits, events of two sessions that share a pane, announces, fair | same-session events in order; attested events proceed; the backlog drains |
| `retained_files` | three runs, one report or result, two tries, one slot, one tick, every call may fail | one copy, kept as promised where a start finds it, live runs' files untouched, every byte and slot accounted for, deadlines fixed |

The bounds are the smallest at which each limit is met and passed: two
generations of a pane are needed to replace one and sweep the other late; two
ids, or a memory of one, to evict; two posters so that one gives back while the
other holds a batch; two incarnations so that one is replaced while it holds a
message; three runs so that a file is taken over twice and a second starter races
the first; permits fewer than connections. Each run takes between a few
seconds and three minutes.

Fairness. `hub_live`: the reader thread of an exited generation runs to its sweep
(`pump_reader` ends in `agent_exited_as`), and the assigner's loop runs at least
every `ASSIGNER_SWEEP`, so each of its steps is weakly fair. Nothing is assumed of
agents. `notices_posted`: the ticker retries owed notices within
`OWED_NOTICE_RETRY`, a poster runs to its end, and the orchestrator's inbox has
room again and again (strong fairness of a post with room): an orchestrator that
never reads again and never leaves would be owed for ever, as in the code.
`attempts_offers`: the ticker runs for ever (`spawn_ticker`), and time passes, so
that no deadline is put off for ever; nothing is assumed of receivers, agents or the
user. Its two conditions on the ticker are weak fairness of the check and strong
fairness of a tick by which every deadline has passed, with the conditions under
which they are enabled written out. `hook_order`: tasks are scheduled, time passes,
and the handling of an attested event ends; peers may stay silent for ever and other
events may be handled for ever. `BacklogDrains` assumes in its premise that reads
end, as the idle timeout makes them.

Every property is also run against a plausible fault of the code (a dropped
check, an off-by-one, a missing reset, a swapped order), defined beside the
operator it replaces and marked `Mutant`; TLC then finds it violated.

## Findings

1. `notices_corrected`: `settle_delegate` says each task is corrected at most
   once. A task reported overdue, then uncertain, then committed gets a correction
   from `delivered_after_all`, which leaves `watch.notified` set, and another from
   `settle_delegate`.
2. `notices_restart`: "Superseded tasks are not reported." The two holds of
   `supersede_delegates_to` leave a gap in which an exit reports one.

Smaller observations, without a run of their own:

- The comment in `walk_exited_tasks` says the exit's own event removes an entry of
  `exit_walked`. A claimed task whose copy a newer delegation superseded keeps its
  delivery Live in the ledger, so the exit records it and no event follows: in
  `TaskNotices`, `Delegate(t1)`, `Claim(t1)`, `Delegate(t2)`, `Exit` ends with t1
  in `walked` for good.
- `PostError::Duplicate`'s state is documented as `None` once the earlier message
  has aged out of the history; `check_id` falls back to `dedup_state`, so a refused
  duplicate always names a state.
- The docs say the excess of the deck over `max_messages` has no fixed size;
  `DeckRoom` gives one for the modelled operations: the number of watched tasks.
- `delivered_after_all`'s comment promises a correction to a sender told otherwise
  while the watch remains. `finalize` looks at the state at the commit, so a task
  told uncertain and then regained, retried or requeued is committed with no
  correction (rule 1 of `Attempts`; `Delivery` therefore corrects only who is told
  otherwise at the commit).
- `save_held` takes back the room its failed write returned without admitting it
  anew, so a reservation made in between takes the store past `max_bytes` by one
  result. Its comment speaks of a store that refuses this; the code never does.
- A held result that is retried while the sweep removes the orphan of its failed
  write can leave the new file without an entry: `drop_own` goes by the name.
- An acknowledgement that was not in the inventory at a crash is lost, and the
  file's life is what its recovery, or the takeover, gives it.
- A starting run reads the clock once for its whole takeover, so a run that dies
  meanwhile leaves its files that much less than a full recovery retention.
- A receiver that reports an attempt as not handed over, and whose agent has the
  message all the same, leaves a receipt that a repeat after a requeue does not wait
  for: no check is made of an attempt in `NotHanded`. `AttemptModel::stage` calls the
  later commit a `WitnessViolation`, and `AutoRepeatSafe` excepts it. It needs three attempts
  of a message, and was found in the proof, not by a run.
- Owed notices that are refused for room, or taken by two threads, can arrive in
  another order than they were owed; no document promises an order.

## Proofs

TLAPS checks every theorem of the eight proof modules, for every value of the
constants that satisfies the assumption of the module's specification:
`InboxConstants` and `InboxLimits` (the configured durations and limits are positive
natural numbers), `HubConstants`, `NoticeConstants` (tasks
and posting threads are finitely many), `AttemptConstants` (the limits of attempts and
of hand-overs are positive, the slots are those of `Slot`), `HookConstants`, `StoreAssumption` (runs
and reports are finitely many, a file is written at least once and fits its room,
retentions are ordered). TLC evaluates these assumptions in the runs. Each
inductive invariant, or a bounded form of it, was checked by TLC before it was
proved.

`InboxProofs`. The invariant `TypeOK` is not inductive alone: what a lookup
returns, and that a step leaves other messages as they were, rest on entries
being distinct; holders rest on a pool message having no recipient and no
deadline. The inductive invariant conjoins the type, distinct entries, the
agreement of holder, claim, deadline and exclusions, and the bound on hand-overs.
Each action is reduced to a map of changed messages (`Transition`) and an
insertion, with one lemma for each operator saying what it keeps; actions are then
a few lines. From it: `TypeCorrect`, `EntriesAreDistinct`, `HoldersAgree`,
`HandOversAreBounded`, and the action properties `ExclusionsHold`, `EndsHold` and
`EndsToldHold`. The last rests on `Accounts`: along an operation, whatever was live
is live in the box so far or told by the events so far, and no other end is told.
Every operator keeps it, so it need not be looked for again in each action, and the
hub's proofs use it as their description of a step of the inbox.

`DedupHolds` and `RateHolds` speak of all posts ever accepted, which `InboxLog` adds
to the inbox as a history. `LogInv` says what the code's memory knows of it. The ids
in `dedup` are the end of the log, no two the same and all in `dedup_state`; of a post
before them the window is over or the cap of later ids pushed it out (`Remembers`).
Distinctness is what makes it inductive: forgetting the front of `dedup` takes its ids
out of `dedup_state`, which must not hold one that is still remembered further back.
For quotas, from every instant of the current window on the times kept of an agent are
at least as many as its posts (`Counts`); stated for every such instant it survives the
clock, and the pruning of `tick` by an injection between what was and what is left.
A window that starts anywhere and holds the new post lies after one of these instants,
so `check_rate` bounds it. `DedupAlwaysHolds` and `RateAlwaysHolds` follow.

`InboxHubProofs`. `HubInv` adds to the inbox's invariant what the hub keeps in step
with it. `NoOrphans` needs that a pane has one live generation (`OneLive`), that
recipients of new messages are live under the lock, and that the sweep clears a
generation before anything else can be owed to it. `ReservationsExact` needs to
know who holds a room while a dispatch is under way (`Underway`, `Rooms`). `DeckRoom`
needs that no watch outlives its message (`Watching`) and that the entries nobody
watches stay with the reservations below `max_messages` (`Roomy`): the excess is
then at most the watches. Panes are not assumed to be finitely many: those with a
reservation are. `RefusalsSpare` (`RefusedSupersedesNothing`) follows because
reserving, releasing and answering raise no terminal event, so only a restart or the
newer task's post ends an older one.

`TaskNoticesProofs`. The four agreements between watch, copy, ledger and claim
hold only together and with the history: a watched task has a live copy because a
live copy is watched or superseded with its watch, and a claim that fails after
the exit needs the claim to know that its worker is gone. `IInv` conjoins the
shapes of the variables; that a live copy is watched, and is one whose end the
ledger has not seen; that a watched task's worker has not been swept and its pane
is not between the two halves of a restart; that a claim knows whether its worker
is gone; and that every ended copy has its notice in what was said or on its
claim. `NoticesInv` proves it inductive with one step for each
action; `WatchedStaysReportable`, `ToldStaysWatched`, `ClaimsStayExact`,
`GoneLeaveNothingOpen` and `EndsAreAlwaysTold` follow.

What is said how often rests on three more layers. `EndsInv`: an end once told is
for good (the task is neither live nor open with a delivery still live, so no later
exit finds it), and one withheld on a claim is told nowhere else; hence
`EndsStayToldOnce`. `CorrectionsInv`: what the watch and the two memories remember
was really said, a remembered Cancel is latched, and a task remembered for a late
acknowledgement ran out of hand-overs and is not watched. A Cancel excludes that, so
of the two records a correction can come from only one applies to a commit; hence
`AcksStayCorrected` and `CorrectionsHaveCause`. The second correction that finding 1
shows is the case its statement excepts. `Conserved`: what was said of each notice,
as a number, is the sum of what is owed, posted and with the posters, whether it was
ever said or not; `NoticesStayKept` for any finite number of posters rests on the
sums of `SetFacts`, which are proved from a smallest set that would break them,
since induction over data is not available.

`AttemptsProofs`. An action of the engine is a chain: an operator on some attempts,
`finalize` with its five rules, `reclaim`; the tick chains a dozen such operators over
every message. `Sound` says what holds of a message at every point of a chain (types,
what an attempt's stage, verifier, check and withheld flag say of each other, counters
against the attempts they count, what may be scheduled), `Good` what holds between two
steps: `Sound`, that a commit has decided (`Decided`), and that the latch is the state
`CancelHeld` (`Latched`). These last two are broken inside a step and restored by the
finalizer. `Leg` relates a message before and after any part of a step; it is
transitive, so the tick needs no invariant of its own and an action property is read
off the `Leg` of the whole step. Every step is then one of five kinds (`EveryStep`):
`Ordinary`, a message noted without a hand-out, a hand-out, a record forgotten, the
exit. `IInv` adds that every name ever handed out is behind what its message is at
(`Behind`: an older assignment, or an earlier attempt of this one) and that the
attempts which reserve evidence fit its room. `CommitDecides`, `BudgetsHold`, and
`ClearedIsChecked` follow from it. `AutoRepeatSafe` needs `ClearedIsChecked`, since
the repeat trusts a check that was read in an earlier hold; `CancelStops` and
`ReceiptsKept` are clauses of `Leg`; `NeverReused` needs `Behind` across `forget`.
`EngineDelivers` is the refinement: one lemma for each kind of step says which step of
`Delivery` it is for each message.

`HookEventOrderProofs`. `InOrder` is inductive with `Overtaken`, which says of every
turn that came while an earlier connection was open why it could: the earlier one
had been waited for as long as it may be, or carried nothing the later one shares.
What the earlier connection carries is learnt afterwards, which is why the exceptions
must be stated before it is known. `EventsInOrder` is for any number of connections
and permits. `WakeupsArrive` is the safety half of the module's liveness: a sleeping
task whose turn has come has been woken, has a deadline that passed, or somebody is
between a change and its wake-up.

`RetainedStoreProofs` and `RetainedBytesProofs`. The invariant has seven layers, each
proved from itself and the ones before it: types; who holds which lock; what may be in
a directory and under which name; what a store's entry for a report says of its file;
what is promised and where it is kept; which write holds which slot; and which bytes
are charged. `OneCopyHolds` and `OwnOnDiskHolds` need the locks: a takeover is the only
writer of a dead run's directory. `KeptHolds` needs the entries, since a sweep goes by
them, and a clause for each step of a write, since a crash may come at each.
`SlotsExactHolds` and `DeadlineFixedHolds` need no more. In the last layer an inequality
remains: a retry can link its file while the sweep is between unlinking and dropping
the orphan of the first try, and the bytes are then charged to the entry that was
replaced. `BytesChargedHolds` is that nothing on disk is uncharged; `TypeCorrect`, that
no counter falls below zero, needs it.

Model-checked only: liveness (`ExitsSettle`, `OffersMove`, `NoticesArrive`,
`NeverStranded`, `AttestedProceeds`, `BacklogDrains`), which is out of the prover's
reach, and the two violations of the findings. Every other property of the runs, and
the refinement of `Delivery`, is a theorem.
`HoldersAgree`, `ToldStaysWatched`, `WakeupsArrive`, `ClearedAlwaysChecked` and the
invariants listed without a property prove what no run checks by itself: they are, or follow
from, parts of the inductive invariants.

## Plan

In the order of importance:

1. Task ledger, claims and units in full (`report_recovery.rs`), with eviction and
   outcome rows; dispatched units and return routes.
2. The doorbell's transaction and generation; the scheduler.

## Not modelled

Text, formatting and spilled bodies; the composition of notices (a notice is its
kind and its tasks); commissions and idle-worker records that `state.rs` keeps
beside the task; card notices; rings and waiters; the environment's overrides of
limits; process death of the daemon outside `RetainedStore` (the other modelled state
is in memory and dies with it); generations whose receipt spool cannot be read. The
doorbell, dispatched units and the scheduler are state machines of their own that
meet the modelled ones only through calls that are inputs here; they are next in the
plan. The remaining components are listed with their reasons in `PROJECT.json`.
