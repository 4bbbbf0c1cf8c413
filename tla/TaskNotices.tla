---------------------------- MODULE TaskNotices ----------------------------
(***************************************************************************)
(* What an orchestrator is told about the tasks it delegated.              *)
(*                                                                         *)
(* A delegated task is known in four places: the attempt model of its      *)
(* worker's generation (src/inbox_attempts.rs), its copy in the inbox, the *)
(* hub's delivery watch (HubState::delegates) and the task ledger that     *)
(* admits the worker's report (src/report_recovery.rs).  Hand-overs,       *)
(* lapses, cancels, commits, newer delegations, restarts, exits and        *)
(* reports move them apart and together, and between them they decide the  *)
(* notices the hub owes (HubState::owed_notices).                          *)
(*                                                                         *)
(* One action is one hold of the hub's lock.  Every task here has an       *)
(* orchestrator: one without is owed no notice.  A notice is its kind and  *)
(* the tasks it names; the order of owed notices is left out, and so are   *)
(* the attempts, of which only their verdict on the message is here.       *)
(***************************************************************************)
EXTENDS Naturals, Sequences, FiniteSets, Bags, SequencesExt, FiniteSetsExt,
        Functions

CONSTANTS
  Tasks,
  Generations,    \* agents, each one run of a worker in its pane
  Worker,         \* the generation a task is bound to
  Pane,           \* the pane a generation runs in
  Orchestrators,
  Orchestrator,   \* who delegated a task
  MaxCancelled,   \* MAX_CANCELLED_TASKS
  MaxLate,        \* LATE_ACK_MAX_RECORDS
  Posters,        \* threads that call post_owed_notices
  Leaving,        \* orchestrators that may leave their pane
  Restarted       \* panes that are restarted, or delegated to with clear

ASSUME NoticeConstants ==
  /\ Worker \in [Tasks -> Generations]
  /\ Orchestrator \in [Tasks -> Orchestrators]
  /\ DOMAIN Pane = Generations
  /\ MaxCancelled \in Nat \ {0}
  /\ MaxLate \in Nat \ {0}
  /\ Leaving \subseteq Orchestrators
  /\ IsFiniteSet(Tasks)
  /\ IsFiniteSet(Posters)

VARIABLES
  model,       \* the attempt model's state of a task, None before a hand-out
  latch,       \* tasks whose Cancel latch is set
  corrected,   \* tasks the model asked to correct
  copy,        \* the state of the task's copy in the inbox
  watches,     \* HubState::delegates
  notified,    \* watched tasks said not to have reached their worker
  told,        \* uncertain_told: watched tasks said to be uncertain
  cancelled,   \* HubState::cancelled_tasks, oldest first
  late,        \* HubState::late_acks, oldest first
  ledger,      \* TaskLedger: the task's state or its tombstone
  delivery,    \* TaskDelivery: how the ledger last saw its message
  walked,      \* ReportState::exit_walked
  claims,      \* ClaimTable: a claimed task, to what its exit left on it
  gone,        \* generations whose exit has been settled
  restarting,  \* panes between the two halves of supersede_delegates_to
  absent,      \* orchestrators that no longer hold their pane
  owed,        \* HubState::owed_notices
  batch,       \* what a poster took and has not tried yet
  kept,        \* what it was refused room for
  posted,      \* notices in their orchestrator's inbox
  said         \* history: every notice ever owed

attempts == <<model, latch, corrected>>
tables == <<watches, notified, told>>
records == <<cancelled, late>>
reports == <<ledger, delivery, walked, claims>>
lives == <<gone, restarting, absent>>
posting == <<batch, kept, posted>>
vars == <<attempts, copy, tables, records, reports, lives, owed, posting, said>>

-----------------------------------------------------------------------------
(* Kinds and helpers.                                                       *)

PaneOf(t) == Pane[Worker[t]]

LiveCopy(t) == copy[t] \in {"Queued", "Fetched"}

OpenTask(t) == ledger[t] \in {"Open", "Reporting"}

\* Notices of one kind, one for each task of T.
Notices(kind, T) == {[kind |-> kind, tasks |-> {t}] : t \in T}

\* The worker exited notice: one for each orchestrator, naming its tasks.
WorkerExited(T) ==
  {[kind |-> "WorkerExited", tasks |-> {t \in T : Orchestrator[t] = o}] :
     o \in {Orchestrator[t] : t \in T}}

Ends == {"Undeliverable", "Cancelled", "Exited"}
Corrections == {"AfterAll", "LateNotReached", "LateUndeliverable"}
Reports == {"NotReached", "Uncertain"}
Kinds == Ends \cup Corrections \cup Reports \cup {"WorkerExited"}

Addressee(n) == CHOOSE o \in Orchestrators : \A t \in n.tasks : Orchestrator[t] = o

Owe(ns) ==
  /\ owed' = owed (+) SetToBag(ns)
  /\ said' = said (+) SetToBag(ns)

Silent == UNCHANGED <<owed, said>>

\* remove_watch
EndWatches(T) ==
  /\ watches' = watches \ T
  /\ notified' = notified \ T
  /\ told' = told \ T

\* At most max of the ids remembered in s and t, the newest ones.
Remember(s, t, max) ==
  IF t \in Range(s) THEN s
  ELSE LET all == Append(s, t)
       IN  IF Len(all) > max THEN Tail(all) ELSE all

\* s names a task once.
Forget(s, t) == RemoveFirst(s, t)

-----------------------------------------------------------------------------
Init ==
  /\ model = [t \in Tasks |-> "None"]
  /\ latch = {}
  /\ corrected = {}
  /\ copy = [t \in Tasks |-> "None"]
  /\ watches = {}
  /\ notified = {}
  /\ told = {}
  /\ cancelled = <<>>
  /\ late = <<>>
  /\ ledger = [t \in Tasks |-> "Unbound"]
  /\ delivery = [t \in Tasks |-> "Live"]
  /\ walked = {}
  /\ claims = <<>>
  /\ gone = {}
  /\ restarting = {}
  /\ absent = {}
  /\ owed = EmptyBag
  /\ batch = [q \in Posters |-> EmptyBag]
  /\ kept = [q \in Posters |-> EmptyBag]
  /\ posted = EmptyBag
  /\ said = EmptyBag

-----------------------------------------------------------------------------
(* Delegating and superseding.                                              *)

WatchedAt(p) == {t \in watches : PaneOf(t) = p}

\* retire_delegates_locked: a superseded copy owes nobody a notice.
Superseded(T) ==
  [t \in Tasks |-> IF t \in T /\ LiveCopy(t) THEN "Superseded" ELSE copy[t]]

\* Mutant: a task a report has claimed is superseded as well.
SupersedeTasksAll(p) ==
  [t \in Tasks |-> IF PaneOf(t) = p /\ OpenTask(t) THEN "Superseded"
                   ELSE ledger[t]]

\* supersede_tasks: a task a report has claimed is left to its claim.
SupersedeTasks(p) ==
  [t \in Tasks |-> IF PaneOf(t) = p /\ ledger[t] = "Open" THEN "Superseded"
                   ELSE ledger[t]]

\* post_delegate_with: the older tasks of the pane are retired and superseded
\* before the new one is bound and watched.
Delegate(t) ==
  /\ ledger[t] = "Unbound"
  /\ Worker[t] \notin gone
  /\ PaneOf(t) \notin restarting
  /\ LET old == WatchedAt(PaneOf(t))
     IN  /\ copy' = [Superseded(old) EXCEPT ![t] = "Queued"]
         /\ watches' = (watches \ old) \cup {t}
         /\ notified' = notified \ old
         /\ told' = told \ old
  /\ ledger' = [SupersedeTasks(PaneOf(t)) EXCEPT ![t] = "Open"]
  /\ Silent
  /\ UNCHANGED <<attempts, records, delivery, walked, claims, lives, posting>>

\* supersede_delegates_to, its first hold of the lock.  The pane's dispatch
\* lock keeps other dispatches and restarts of the pane out until its second.
RetireForRestart(p) ==
  /\ p \notin restarting
  /\ copy' = Superseded(WatchedAt(p))
  /\ EndWatches(WatchedAt(p))
  /\ restarting' = restarting \cup {p}
  /\ Silent
  /\ UNCHANGED <<attempts, records, reports, gone, absent, posting>>

\* supersede_delegates_to, its second hold of the lock.
SupersedeForRestart(p) ==
  /\ p \in restarting
  /\ ledger' = SupersedeTasks(p)
  /\ restarting' = restarting \ {p}
  /\ Silent
  /\ UNCHANGED <<attempts, copy, tables, records, delivery, walked, claims,
                 gone, absent, posting>>

-----------------------------------------------------------------------------
(* The attempt model's verdicts, and the sync that mirrors each one into    *)
(* the inbox copy.  The model keeps its record of a task whose copy was     *)
(* retired under it.                                                        *)

\* settle_task
Delivered(t, how) ==
  [delivery EXCEPT ![t] = IF OpenTask(t) THEN how ELSE @]

\* A live copy ends as reason: its watch ends with it and its orchestrator is
\* told (sync, then settle_task and settle_delegate of its event).  The copy of
\* a task that ended before is left as it is.
EndCopy(t, reason, kind) ==
  IF LiveCopy(t)
  THEN /\ copy' = [copy EXCEPT ![t] = reason]
       /\ delivery' = Delivered(t, "Ended")
       /\ EndWatches({t})
       /\ Owe(Notices(kind, {t} \cap watches))
  ELSE Silent /\ UNCHANGED <<copy, delivery, tables>>

\* issue_to: the first hand-over, or one after every attempt was not handed.
HandOut(t) ==
  /\ model[t] \in {"None", "Queued"}
  /\ copy[t] = "Queued"
  /\ model' = [model EXCEPT ![t] = "Attempting"]
  /\ copy' = [copy EXCEPT ![t] = "Fetched"]
  /\ Silent
  /\ UNCHANGED <<latch, corrected, tables, records, reports, lives, posting>>

\* finalize, rule 3: every attempt was positively not handed.
Requeue(t) ==
  /\ model[t] \in {"Attempting", "Uncertain"}
  /\ model' = [model EXCEPT ![t] = "Queued"]
  /\ copy' = [copy EXCEPT ![t] = IF @ = "Fetched" THEN "Queued" ELSE @]
  /\ Silent
  /\ UNCHANGED <<latch, corrected, tables, records, reports, lives, posting>>

\* Rule 3 once the hand-overs or the attempts ran out.  Recording the late ack
\* drops the records older than LATE_ACK_MEMORY, the first n.
OutOfAttempts(t) ==
  /\ model[t] \in {"Attempting", "Uncertain"}
  /\ model' = [model EXCEPT ![t] = "MaxDeliver"]
  /\ EndCopy(t, "MaxDeliver", "Undeliverable")
  /\ \E n \in 0 .. Len(late) :
       late' = IF LiveCopy(t)
               THEN Remember(SubSeq(late, n + 1, Len(late)), t, MaxLate)
               ELSE late
  /\ UNCHANGED <<latch, corrected, cancelled, ledger, walked, claims, lives,
                 posting>>

\* Rule 5: handed over, perhaps, and lost; uncertain_notice tells it once.
Lapse(t) ==
  /\ model[t] = "Attempting"
  /\ model' = [model EXCEPT ![t] = "Uncertain"]
  /\ LET tells == {u \in {t} : LiveCopy(u)} \cap watches
     IN  /\ Owe(Notices("Uncertain", tells \ told))
         /\ told' = told \cup tells
  /\ UNCHANGED <<latch, corrected, copy, watches, notified, records, reports,
                 lives, posting>>

\* Rule 4: possession regained, or the user's Retry.
Regain(t) ==
  /\ model[t] = "Uncertain"
  /\ model' = [model EXCEPT ![t] = "Attempting"]
  /\ Silent
  /\ UNCHANGED <<latch, corrected, copy, tables, records, reports, lives,
                 posting>>

\* The user's Cancel, and finalize's rule 2: with every attempt final the task
\* ends at once, otherwise it is held until they are.
Cancel(t, final) ==
  /\ model[t] \in {"Queued", "Attempting", "Uncertain", "CancelHeld"}
  /\ model[t] = "Queued" => final
  /\ latch' = latch \cup {t}
  /\ cancelled' = IF t \in watches THEN Remember(cancelled, t, MaxCancelled)
                  ELSE cancelled
  /\ model' = [model EXCEPT ![t] = IF final THEN "Cancelled" ELSE "CancelHeld"]
  /\ IF final THEN EndCopy(t, "Cancelled", "Cancelled")
     ELSE Silent /\ UNCHANGED <<copy, delivery, tables>>
  /\ UNCHANGED <<corrected, late, ledger, walked, claims, lives, posting>>

\* Rule 2 once the last attempt of a cancelled task is final.
CancelDone(t) ==
  /\ model[t] = "CancelHeld"
  /\ model' = [model EXCEPT ![t] = "Cancelled"]
  /\ EndCopy(t, "Cancelled", "Cancelled")
  /\ UNCHANGED <<latch, corrected, records, ledger, walked, claims, lives,
                 posting>>

\* Rule 1 asks for a correction once, of a task its sender was told otherwise of.
AsksToCorrect(t) ==
  /\ t \notin corrected
  /\ model[t] \in {"Uncertain", "MaxDeliver", "Cancelled"} \/ t \in latch

\* Mutant: whoever the model asks to correct is corrected, told or not.
AfterAllAlways(t) == TRUE

\* delivered_after_all: through the watch, or through a cancelled task's record.
AfterAll(t) ==
  IF t \in watches THEN t \in told \cup latch \cup notified
  ELSE t \in Range(cancelled)

\* A commit of any attempt, by its receiver, a found receipt or `ack <id>`: the
\* correction the model asks for, then the ack of the copy and what its event
\* settles (settle_late_ack, settle_delegate, settle_task).
Commit(t) ==
  /\ model[t] \in {"Queued", "Attempting", "Uncertain", "CancelHeld",
                   "MaxDeliver", "Cancelled"}
  /\ model' = [model EXCEPT ![t] = IF @ = "Cancelled" THEN @ ELSE "Settled"]
  /\ LET asks == AsksToCorrect(t)
         acks == /\ model[t] # "Cancelled"
                 /\ LiveCopy(t) \/ copy[t] = "MaxDeliver"
         tells(condition, kind) == Notices(kind, {u \in {t} : condition})
     IN  /\ corrected' = IF asks THEN corrected \cup {t} ELSE corrected
         /\ cancelled' = IF asks /\ t \notin watches THEN Forget(cancelled, t)
                         ELSE cancelled
         /\ late' = IF acks THEN Forget(late, t) ELSE late
         /\ copy' = IF acks THEN [copy EXCEPT ![t] = "Acknowledged"] ELSE copy
         /\ delivery' = IF acks THEN Delivered(t, "Acknowledged") ELSE delivery
         /\ watches' = IF acks THEN watches \ {t} ELSE watches
         /\ notified' = IF acks THEN notified \ {t} ELSE notified
         /\ told' = IF acks \/ asks THEN told \ {t} ELSE told
         /\ Owe(tells(asks /\ AfterAll(t), "AfterAll") \cup
                tells(acks /\ t \in Range(late), "LateUndeliverable") \cup
                tells(acks /\ t \in notified, "LateNotReached"))
  /\ UNCHANGED <<latch, ledger, walked, claims, lives, posting>>

\* Mutant: the watch is not marked as told.
OverdueUnmarked(due) ==
  LET late_ones == {t \in due \ notified : copy[t] = "Queued"}
  IN  /\ late_ones # {}
      /\ Owe(Notices("NotReached", late_ones))
      /\ UNCHANGED <<attempts, copy, tables, records, reports, lives, posting>>

\* notify_overdue_delegates, at a tick past the deadline of the tasks due.
Overdue(due) ==
  LET late_ones == {t \in due \ notified : copy[t] = "Queued"}
  IN  /\ late_ones # {}
      /\ notified' = notified \cup late_ones
      /\ Owe(Notices("NotReached", late_ones))
      /\ UNCHANGED <<attempts, copy, watches, told, records, reports, lives,
                     posting>>

-----------------------------------------------------------------------------
(* Exits and reports.                                                       *)

\* Mutant: the exit's own events tell again what its walk already told.
ExitTelling(W, L, live, ended) ==
  Notices("Exited", {t \in W : ledger[t] = "Open"} \cap live)
    \cup WorkerExited({t \in W : ledger[t] = "Open"} \cap ended)
    \cup {[n EXCEPT !.kind = "Undeliverable"] :
            n \in Notices("Exited", L \cap watches)}

\* What an exit owes now: for the open tasks of its walk W, the ones still live
\* and the ones that ended before; and for live copies L the walk did not see.
ExitOwes(W, L, live, ended) ==
  Notices("Exited", {t \in W : ledger[t] = "Open"} \cap live)
    \cup WorkerExited({t \in W : ledger[t] = "Open"} \cap ended)
    \cup Notices("Exited", (L \cap watches) \ (walked \cup (W \cap live)))

\* agent_exited_as: walk_exited_tasks decides the notices and closes the tasks,
\* what a claimed one owes is withheld on its claim, and then the generation's
\* live copies end and their events are settled.  kind is Removed when a close
\* or a respawn took the generation down.
Exit(g, kind) ==
  /\ g \notin gone
  /\ gone' = gone \cup {g}
  /\ LET W == {t \in Tasks : Worker[t] = g /\ OpenTask(t)}
         L == {t \in Tasks : Worker[t] = g /\ LiveCopy(t)}
         live == {t \in Tasks : delivery[t] = "Live"}
         ended == IF kind = "Natural" THEN Tasks \ live ELSE {}
     IN  /\ Owe(ExitOwes(W, L, live, ended))
         /\ claims' = [t \in DOMAIN claims |->
                        IF t \notin W THEN claims[t]
                        ELSE [gone |-> TRUE,
                              withheld |-> claims[t].withheld
                                \cup Notices("Exited", {t} \cap live)
                                \cup WorkerExited({t} \cap ended)]]
         /\ ledger' = [t \in Tasks |->
                        IF \/ t \in W /\ ledger[t] = "Open"
                           \/ t \in L \ (walked \cup (W \cap live)) /\ OpenTask(t)
                        THEN "Closed" ELSE ledger[t]]
         /\ walked' = (walked \cup (W \cap live)) \ L
         /\ copy' = [t \in Tasks |-> IF t \in L THEN "AgentExited" ELSE copy[t]]
         /\ model' = [t \in Tasks |-> IF Worker[t] = g THEN "Gone" ELSE model[t]]
         /\ watches' = watches \ L
         /\ notified' = notified \ L
         /\ told' = {t \in told \ L : Worker[t] # g}
  /\ UNCHANGED <<latch, corrected, records, delivery, restarting, absent,
                 posting>>

\* A work-done for an open task is admitted: one claim for a generation.
Claim(t) ==
  /\ ledger[t] = "Open"
  /\ \A u \in DOMAIN claims : Worker[u] # Worker[t]
  /\ ledger' = [ledger EXCEPT ![t] = "Reporting"]
  /\ claims' = [u \in DOMAIN claims \cup {t} |->
                  IF u = t THEN [gone |-> FALSE, withheld |-> {}] ELSE claims[u]]
  /\ Silent
  /\ UNCHANGED <<attempts, copy, tables, records, delivery, walked, lives,
                 posting>>

\* Mutant: the report leaves the delivery watch of its task behind.
CommitClaimWatching(t) ==
  /\ t \in DOMAIN claims
  /\ claims' = Restrict(claims, DOMAIN claims \ {t})
  /\ ledger' = [ledger EXCEPT ![t] = IF OpenTask(t) THEN "Reported" ELSE @]
  /\ Silent
  /\ UNCHANGED <<attempts, copy, tables, records, delivery, walked, lives,
                 posting>>

\* commit_claim_locked, retire_reported_task: what the exit withheld is moot.
CommitClaim(t) ==
  /\ t \in DOMAIN claims
  /\ claims' = Restrict(claims, DOMAIN claims \ {t})
  /\ ledger' = [ledger EXCEPT ![t] = IF OpenTask(t) THEN "Reported" ELSE @]
  /\ copy' = Superseded({t})
  /\ EndWatches({t})
  /\ Silent
  /\ UNCHANGED <<attempts, records, delivery, walked, lives, posting>>

\* Mutant: a failed report opens its task again, gone worker or not.
FailClaimReopening(t) ==
  /\ t \in DOMAIN claims
  /\ claims' = Restrict(claims, DOMAIN claims \ {t})
  /\ ledger' = [ledger EXCEPT ![t] = IF OpenTask(t) THEN "Open" ELSE @]
  /\ Owe(claims[t].withheld)
  /\ UNCHANGED <<attempts, copy, tables, records, delivery, walked, lives,
                 posting>>

\* Mutant: what the exit withheld is dropped with the claim.
FailClaimSilent(t) ==
  /\ t \in DOMAIN claims
  /\ claims' = Restrict(claims, DOMAIN claims \ {t})
  /\ ledger' = [ledger EXCEPT ![t] =
                  IF ~OpenTask(t) THEN @
                  ELSE IF claims[t].gone THEN "Closed" ELSE "Open"]
  /\ Silent
  /\ UNCHANGED <<attempts, copy, tables, records, delivery, walked, lives,
                 posting>>

\* fail_claim_locked: the task opens again, or closes with its worker, and what
\* the exit withheld is owed.
FailClaim(t) ==
  /\ t \in DOMAIN claims
  /\ claims' = Restrict(claims, DOMAIN claims \ {t})
  /\ ledger' = [ledger EXCEPT ![t] =
                  IF ~OpenTask(t) THEN @
                  ELSE IF claims[t].gone THEN "Closed" ELSE "Open"]
  /\ Owe(claims[t].withheld)
  /\ UNCHANGED <<attempts, copy, tables, records, delivery, walked, lives,
                 posting>>

-----------------------------------------------------------------------------
(* post_owed_notices: any thread takes the whole list, posts outside the    *)
(* lock one notice at a time, and gives back what was refused for room.     *)

TakeOwed(q) ==
  /\ batch[q] = EmptyBag
  /\ kept[q] = EmptyBag
  /\ owed # EmptyBag
  /\ batch' = [batch EXCEPT ![q] = owed]
  /\ owed' = EmptyBag
  /\ UNCHANGED <<attempts, copy, tables, records, reports, lives, kept, posted,
                 said>>

\* With room it is posted, without room it is kept; a notice whose orchestrator
\* no longer holds its pane is dropped.
PostOne(q, n, room) ==
  /\ BagIn(n, batch[q])
  /\ batch' = [batch EXCEPT ![q] = @ (-) SetToBag({n})]
  /\ CASE Addressee(n) \in absent -> UNCHANGED <<kept, posted>>
       [] Addressee(n) \notin absent /\ room ->
            /\ posted' = posted (+) SetToBag({n})
            /\ UNCHANGED kept
       [] OTHER -> /\ kept' = [kept EXCEPT ![q] = @ (+) SetToBag({n})]
                   /\ UNCHANGED posted
  /\ UNCHANGED <<attempts, copy, tables, records, reports, lives, owed, said>>

\* Mutant: what was refused replaces what was owed meanwhile.
GiveBackOver(q) ==
  /\ batch[q] = EmptyBag
  /\ kept[q] # EmptyBag
  /\ owed' = kept[q]
  /\ kept' = [kept EXCEPT ![q] = EmptyBag]
  /\ UNCHANGED <<attempts, copy, tables, records, reports, lives, batch, posted,
                 said>>

\* Mutant: what was refused waits in the thread until something else is owed.
GiveBackWithMore(q) ==
  /\ batch[q] = EmptyBag
  /\ kept[q] # EmptyBag
  /\ owed # EmptyBag
  /\ owed' = kept[q] (+) owed
  /\ kept' = [kept EXCEPT ![q] = EmptyBag]
  /\ UNCHANGED <<attempts, copy, tables, records, reports, lives, batch, posted,
                 said>>

\* still_owed goes back in front of what was owed meanwhile.
GiveBack(q) ==
  /\ batch[q] = EmptyBag
  /\ kept[q] # EmptyBag
  /\ owed' = kept[q] (+) owed
  /\ kept' = [kept EXCEPT ![q] = EmptyBag]
  /\ UNCHANGED <<attempts, copy, tables, records, reports, lives, batch, posted,
                 said>>

Depart(o) ==
  /\ o \notin absent
  /\ absent' = absent \cup {o}
  /\ Silent
  /\ UNCHANGED <<attempts, copy, tables, records, reports, gone, restarting,
                 posting>>

-----------------------------------------------------------------------------
Delegating ==
  \/ \E t \in Tasks : Delegate(t)
  \/ \E p \in Restarted : RetireForRestart(p) \/ SupersedeForRestart(p)

Delivering ==
  \/ \E t \in Tasks : \/ HandOut(t) \/ Requeue(t) \/ OutOfAttempts(t)
                      \/ Lapse(t) \/ Regain(t) \/ CancelDone(t) \/ Commit(t)
  \/ \E t \in Tasks, final \in BOOLEAN : Cancel(t, final)
  \/ \E due \in SUBSET watches : Overdue(due)

Reporting ==
  \/ \E g \in Generations, kind \in {"Natural", "Removed"} : Exit(g, kind)
  \/ \E t \in Tasks : Claim(t) \/ CommitClaim(t) \/ FailClaim(t)

Posting ==
  \/ \E q \in Posters : TakeOwed(q) \/ GiveBack(q)
  \/ \E q \in Posters, room \in BOOLEAN :
       \E n \in BagToSet(batch[q]) : PostOne(q, n, room)
  \/ \E o \in Leaving : Depart(o)

Next == Delegating \/ Delivering \/ Reporting \/ Posting

Spec == Init /\ [][Next]_vars

\* The ticker retries owed notices within OWED_NOTICE_RETRY and a poster runs
\* to its end; the orchestrator's inbox has room again and again.
FairSpec ==
  /\ Spec
  /\ \A q \in Posters :
       /\ WF_vars(TakeOwed(q))
       /\ WF_vars(GiveBack(q))
       /\ WF_vars(\E n \in BagToSet(batch[q]), room \in BOOLEAN : PostOne(q, n, room))
       /\ SF_vars(\E n \in BagToSet(batch[q]) : PostOne(q, n, TRUE))

-----------------------------------------------------------------------------
(* Properties.                                                              *)

ModelStates == {"None", "Queued", "Attempting", "Uncertain", "CancelHeld",
                "Settled", "MaxDeliver", "Cancelled", "Gone"}
CopyStates == {"None", "Queued", "Fetched", "Acknowledged", "MaxDeliver",
               "Cancelled", "Superseded", "AgentExited"}
LedgerStates == {"Unbound", "Open", "Reporting", "Superseded", "Closed",
                 "Reported"}

\* Every part of the state has its type, and the two bounded memories are
\* within their bounds and name a task once (remember_cancelled_task,
\* remember_late_ack).
TypeOK ==
  /\ model \in [Tasks -> ModelStates]
  /\ copy \in [Tasks -> CopyStates]
  /\ ledger \in [Tasks -> LedgerStates]
  /\ delivery \in [Tasks -> {"Live", "Acknowledged", "Ended"}]
  /\ \A s \in {latch, corrected, watches, notified, told, walked} : s \subseteq Tasks
  /\ cancelled \in Seq(Tasks) /\ late \in Seq(Tasks)
  /\ Len(cancelled) <= MaxCancelled /\ Len(late) <= MaxLate
  /\ IsInjective(cancelled) /\ IsInjective(late)
  /\ DOMAIN claims \subseteq Tasks
  /\ gone \subseteq Generations /\ restarting \subseteq Restarted
  /\ absent \subseteq Orchestrators

\* Notices of some kinds ever owed about task t.
Said(t, kinds) ==
  {n \in BagToSet(said) : n.kind \in kinds /\ t \in n.tasks}

AtMostOnce(t, kinds) ==
  \A n, m \in Said(t, kinds) : n = m /\ said[n] = 1

\* A watched task has a live copy, and the ledger still admits its report: the
\* three places settle together (settle_delegate, supersede_tasks, retire_
\* reported_task, walk_exited_tasks).
WatchedReportable == \A t \in watches : LiveCopy(t) /\ OpenTask(t)

\* What was told about a delivery is remembered only with its watch, so the
\* set holds at most one id for each live watch (inbox_engine.rs, issue 1816).
ToldIsWatched == told \cup notified \subseteq watches

\* A claim and its task's Reporting state come and go together, whatever
\* supersedes, restarts or exits in between (D12 rules 4, 6 and 9).
ClaimsExact == DOMAIN claims = {t \in Tasks : ledger[t] = "Reporting"}

\* No task stays open for a worker whose exit was settled: nobody would ever
\* report or close it again (walk_exited_tasks, fail_claim_locked).
NoneOpenForTheGone == \A t \in Tasks : Worker[t] \in gone => ledger[t] # "Open"

\* The orchestrator hears at most once that a delegated task ended undelivered,
\* whichever of the producers saw it end: the retirement's event, the exit's
\* walk, the exit's event, or a claim that failed afterwards.
EndToldOnce == \A t \in Tasks : AtMostOnce(t, Ends)

\* No end goes untold: a task that ran out of hand-overs, was cancelled or lost
\* its worker has been reported, unless its report was accepted or a claim
\* still withholds the notice.
EndIsTold ==
  \A t \in Tasks :
    /\ copy[t] = "MaxDeliver" => Said(t, {"Undeliverable"}) # {}
    /\ copy[t] = "Cancelled" => Said(t, {"Cancelled"}) # {}
    /\ copy[t] = "AgentExited" =>
         \/ Said(t, {"Exited"}) # {}
         \/ ledger[t] = "Reported"
         \/ t \in DOMAIN claims /\ claims[t].withheld # {}

\* A task said not to have reached its worker, and then acknowledged before it
\* ran out of hand-overs, is corrected (notify_overdue_delegates,
\* settle_delegate).
AckCorrects ==
  \A t \in Tasks :
    (/\ copy[t] = "Acknowledged"
     /\ Said(t, {"NotReached"}) # {}
     /\ Said(t, {"Undeliverable"}) = {})
    => Said(t, {"LateNotReached"}) # {}

\* Each correction corrects something said before it or a Cancel, and a task
\* never said to be "not reached" is corrected at most once.
CorrectionHasCause ==
  \A t \in Tasks :
    /\ Said(t, {"LateNotReached"}) # {} => Said(t, {"NotReached"}) # {}
    /\ Said(t, {"LateUndeliverable"}) # {} => Said(t, {"Undeliverable"}) # {}
    /\ Said(t, {"AfterAll"}) # {} => t \in latch \/ Said(t, Reports) # {}
    /\ Said(t, {"NotReached"}) = {} => AtMostOnce(t, Corrections)

Count(n, b) == IF BagIn(n, b) THEN b[n] ELSE 0

\* No owed notice is lost or doubled while its orchestrator holds its pane,
\* however many threads post at once (post_owed_notices).
NoticesKept ==
  \A n \in BagToSet(said) :
    Addressee(n) \notin absent =>
      Count(n, said) =
        Count(n, owed) + Count(n, posted)
          + SumFunction([q \in Posters |-> Count(n, batch[q]) + Count(n, kept[q])])

\* "until it is posted or its recipient is gone": an owed report of a task
\* arrives, however often it is refused for room and whoever posts.
NoticesArrive ==
  \A t \in Tasks, k \in Reports :
    LET n == [kind |-> k, tasks |-> {t}]
    IN  BagIn(n, said) ~> (BagIn(n, posted) \/ Orchestrator[t] \in absent)

-----------------------------------------------------------------------------
(* What the code's comments say, which the code does not do.                *)

\* "so each task is corrected at most once" (settle_delegate).
CorrectedOnce == \A t \in Tasks : AtMostOnce(t, Corrections)

\* "Superseded tasks are not reported" (supersede_delegates_to).
SupersededNotReported ==
  \A t \in Tasks : copy[t] = "Superseded" => Said(t, Ends) = {}

=============================================================================
