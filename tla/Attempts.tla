------------------------------ MODULE Attempts ------------------------------
(***************************************************************************)
(* The delivery attempts of one agent generation: AttemptModel of          *)
(* src/inbox_attempts.rs, as the receipt engine src/inbox_engine.rs drives *)
(* it under the hub's lock.                                                *)
(*                                                                         *)
(* A message is handed out to receiver incarnations in numbered attempts.  *)
(* An attempt may be handed over, refused, fenced (possibly handed, nobody *)
(* left to say) or committed, and one finalizer turns what is known of the *)
(* attempts into the message's state.  The clock reads the receipt spool   *)
(* off the lock, in three steps: candidates, lookup, apply.                *)
(*                                                                         *)
(* Durations are left out: a deadline is a flag that time may clear at any *)
(* moment, or a choice of the step that reads it.  A possession mark is    *)
(* kept as what it decides, whether the check under way still counts       *)
(* (checking), and a revision as whether a scheduled repeat is still at it *)
(* (token.current): a user action at an old revision changes nothing.      *)
(***************************************************************************)
EXTENDS Naturals, Sequences, FiniteSets, FiniteSetsExt

CONSTANTS
  Ids,              \* messages of this generation
  Offers,           \* the messages that are offers
  Slots,            \* receiver slots the agent's integration uses
  MaxAttempts,      \* Limits::max_attempts
  MaxAutoRepeats,   \* Limits::max_auto_repeats
  MaxDeliver,       \* Limits::max_deliver
  EvidenceRoom,     \* attempts whose evidence fits Limits::evidence_limit
  MaxLiveHooks,     \* MAX_LIVE_HOOKS
  MaxRx,            \* bound: incarnations ever registered
  MaxForgotten      \* bound: assignments a forgotten record may leave behind

ASSUME AttemptConstants ==
  /\ Offers \subseteq Ids
  /\ Slots \subseteq {"OpencodeServer", "OpencodeTui", "Pi", "OnceWaiter", "Hook"}
  /\ {MaxAttempts, MaxDeliver} \subseteq Nat \ {0}
  /\ {MaxAutoRepeats, EvidenceRoom, MaxLiveHooks, MaxRx, MaxForgotten} \subseteq Nat

VARIABLES
  msgs,        \* AttemptModel::messages, NoMsg for an id with no record
  rxs,         \* AttemptModel::receivers by incarnation, and its link
  forgotten,   \* forgotten_a
  busy,        \* the turn clock: a turn is under way
  phase,       \* where the clock's spool check is
  exited,
  used         \* history: every <<id, a, e>> ever handed out

vars == <<msgs, rxs, forgotten, busy, phase, exited, used>>

-----------------------------------------------------------------------------
(* Records.                                                                 *)

Streams == {"OpencodeServer", "OpencodeTui", "Pi"}

one_shot(slot) == slot \in {"OnceWaiter", "Hook"}

Stages == {"Issued", "Handed", "Committed", "NotHanded", "HandedInert", "Fenced"}

is_final(stage) == stage \notin {"Issued", "Handed"}

UncertainStates == {"Lapsed", "OutOfAttempts"}

TerminalStates == {"Settled", "Cancelled", "Exited", "MaxDeliver"}

States == {"Queued", "Attempting", "CancelHeld"} \cup UncertainStates \cup TerminalStates

is_terminal(state) == state \in TerminalStates

NoToken == [kind |-> "None", current |-> FALSE]

NoMsg == [state |-> "None"]

\* receipt is the attempt's commit record in the spool: "New", or "Covered" once
\* a later recheck obliges every further check to see it
NewAttempt(a, rx, slot, kind) ==
  [a |-> a, rx |-> rx, slot |-> slot, stage |-> "Issued", kind |-> kind,
   cleared |-> FALSE, checking |-> "No", found |-> FALSE, receipt |-> "None",
   resume_pending |-> FALSE, verifier |-> FALSE,
   correcting |-> 0, reclaimed |-> FALSE, grace |-> slot # "Hook", in_use |-> FALSE,
   withheld |-> FALSE]

NewDelivery(id) ==
  [offer |-> id \in Offers, a |-> forgotten + 1, state |-> "Queued", attempts |-> <<>>,
   latch |-> FALSE, auto_repeats |-> 0, requeues |-> 0, token |-> NoToken,
   waiting |-> "No", corrected |-> FALSE]

\* held is what a snapshot lists while it is fresh
NewReceiver(slot) ==
  [slot |-> slot, state |-> "Live", held |-> {}, hold |-> slot = "Hook",
   closed |-> FALSE, spent |-> FALSE]

Known == {id \in Ids : msgs[id] # NoMsg}

\* The attempts of the current assignment
Current(m) == {e \in DOMAIN m.attempts : m.attempts[e].a = m.a}

MapAttempts(m, F(_, _)) ==
  [m EXCEPT !.attempts = [e \in DOMAIN m.attempts |-> F(e, m.attempts[e])]]

\* evidence_reserved, in attempts of EVIDENCE_PER_ATTEMPT files each
EvidenceReserved ==
  Cardinality(UNION {{<<id, e>> : e \in {f \in DOMAIN msgs[id].attempts :
                                           ~msgs[id].attempts[f].reclaimed}} : id \in Known})

-----------------------------------------------------------------------------
(* Attempts, and who possesses them.                                        *)

recheck(at) ==
  [at EXCEPT !.cleared = FALSE, !.checking = "No",
             !.receipt = IF @ = "None" THEN @ ELSE "Covered"]

\* Only a once-waiter's grace outlives the attempt: it is the turn clock's
fence(at) ==
  [recheck(at) EXCEPT !.stage = "Fenced", !.verifier = TRUE,
                      !.grace = @ /\ at.slot = "OnceWaiter"]

\* Positively not handed
Refused(at) == [at EXCEPT !.stage = "NotHanded", !.grace = FALSE, !.cleared = FALSE]

needs_clearance(at) ==
  /\ ~at.resume_pending
  /\ ~at.withheld
  /\ at.stage \in {"Issued", "Handed", "Fenced", "HandedInert"}

once_held(at) == at.slot = "OnceWaiter" /\ at.stage \notin {"Committed", "NotHanded"}

snapshot_holds(R, id, e, at) ==
  at.slot \in Streams /\ <<id, at.a, e>> \in R[at.rx].held

\* R is the receivers, b the turn clock
possessed(R, b, id, e, at) ==
  /\ ~at.resume_pending
  /\ IF at.slot = "OnceWaiter"
     THEN once_held(at) /\ (b \/ at.grace)
     ELSE /\ at.stage \notin {"Committed", "NotHanded", "Fenced"}
          /\ R[at.rx].state = "Live"
          /\ \/ at.slot = "Hook" /\ R[at.rx].hold
             \/ snapshot_holds(R, id, e, at)
             \/ at.slot \in Streams /\ at.grace

-----------------------------------------------------------------------------
(* The finalizer: the first matching rule wins.                             *)

set_state(m, state) ==
  IF m.state = state THEN m ELSE [m EXCEPT !.state = state, !.token.current = FALSE]

Unscheduled(m) == [m EXCEPT !.token = NoToken, !.waiting = "No"]

\* What the finalizer reads off the attempts of the current assignment
Facts(R, b, id, m) ==
  LET cur == Current(m)
      Some(P(_)) == \E e \in cur : P(m.attempts[e])
      All(P(_)) == \A e \in cur : P(m.attempts[e])
  IN [committed |-> Some(LAMBDA at : at.stage = "Committed"),
      held |-> \E e \in cur : possessed(R, b, id, e, m.attempts[e]),
      resuming |-> Some(LAMBDA at : at.resume_pending \/ at.withheld),
      all_final |-> All(LAMBDA at : is_final(at.stage) /\ ~at.resume_pending /\ ~at.withheld),
      all_not_handed |-> cur # {} /\ All(LAMBDA at : at.stage = "NotHanded"),
      none_issued |-> cur = {},
      cleared |-> All(LAMBDA at : needs_clearance(at) => at.cleared)]

\* Mutant: an ended message is left as it is.
RuleCommittedSilent(m) ==
  IF is_terminal(m.state) THEN m
  ELSE [set_state(Unscheduled(m), "Settled") EXCEPT
          !.corrected = @ \/ m.latch \/ m.state \in UncertainStates]

\* Mutant: every late commit is told.
RuleCommittedTelling(m) ==
  [IF is_terminal(m.state) THEN m ELSE set_state(Unscheduled(m), "Settled")
     EXCEPT !.corrected = TRUE]

\* Rule 1: an attempt of the assignment committed
RuleCommitted(m) ==
  IF m.state = "MaxDeliver" /\ ~m.offer
  THEN [set_state(m, "Settled") EXCEPT !.corrected = TRUE]
  ELSE IF is_terminal(m.state)
  THEN [m EXCEPT !.corrected = @ \/ m.state \in {"Cancelled", "MaxDeliver"}]
  ELSE [set_state(Unscheduled(m), "Settled") EXCEPT
          !.corrected = @ \/ m.latch \/ m.state \in UncertainStates]

\* Rule 2: the cancel latch
RuleLatched(m, f) ==
  set_state(Unscheduled(m), IF f.all_final THEN "Cancelled" ELSE "CancelHeld")

\* Rule 3: every attempt positively not handed
RuleNotHanded(m) ==
  LET n == [Unscheduled(m) EXCEPT !.requeues = @ + 1]
  IN IF m.state = "Queued" THEN Unscheduled(m)
     ELSE IF n.requeues >= MaxDeliver \/ Len(m.attempts) >= MaxAttempts
     THEN set_state(n, "MaxDeliver")
     ELSE set_state([n EXCEPT !.a = IF m.offer THEN @ + 1 ELSE @], "Queued")

\* Rule 4: fresh possession, issue grace, or an answer still owed
RuleHeld(m) ==
  set_state([m EXCEPT !.token = IF @.kind = "Auto" THEN NoToken ELSE @, !.waiting = "No"],
            "Attempting")

MayRepeat(m) == m.auto_repeats < MaxAutoRepeats

\* Mutant: a scheduled repeat is waited for without end.
TokenLapsesNever(m) == FALSE

TokenLapses(m) == m.waiting = "Over"

\* Rule 5: possibly handed and nobody possesses it
RuleLapsed(m, f) ==
  LET n == [m EXCEPT !.waiting = IF @ = "No" THEN "Since" ELSE @]
      waited == m.waiting = "Over"
  IN IF m.token.kind # "None"
     THEN IF TokenLapses(m) THEN set_state([n EXCEPT !.token = NoToken], "Lapsed")
                            ELSE set_state(n, "Attempting")
     ELSE IF m.state \in UncertainStates THEN n
     ELSE IF Len(m.attempts) >= MaxAttempts THEN set_state(n, "OutOfAttempts")
     ELSE IF ~f.cleared THEN set_state(n, IF waited THEN "Lapsed" ELSE "Attempting")
     ELSE IF MayRepeat(m)
     THEN [set_state(n, "Attempting") EXCEPT !.token = [kind |-> "Auto", current |-> TRUE]]
     ELSE set_state(n, "Lapsed")

Rules(m, f) ==
  IF f.committed THEN RuleCommitted(m)
  ELSE IF is_terminal(m.state) THEN m
  ELSE IF m.latch THEN RuleLatched(m, f)
  ELSE IF f.none_issued THEN set_state(m, "Queued")
  ELSE IF f.all_not_handed THEN RuleNotHanded(m)
  ELSE IF f.held \/ f.resuming THEN RuleHeld(m)
  ELSE RuleLapsed(m, f)

\* A reclaimed attempt: its spool files go, and only its stage is read again
Bare(at) ==
  [at EXCEPT !.reclaimed = TRUE, !.verifier = FALSE, !.cleared = FALSE, !.checking = "No",
             !.found = FALSE, !.receipt = "None", !.correcting = 0,
             !.grace = FALSE, !.in_use = FALSE]

reclaim(m) ==
  LET keeps(at) == at.verifier /\ m.state # "Settled"
      quiescent(at) == /\ is_terminal(m.state)
                       /\ is_final(at.stage)
                       /\ ~at.resume_pending
                       /\ ~keeps(at)
                       /\ ~at.withheld
      one(e, at) == IF at.reclaimed \/ quiescent(at) THEN Bare(at)
                    ELSE [at EXCEPT !.verifier = keeps(at)]
  IN MapAttempts(m, one)

finalize(R, b, id, m) ==
  LET f == Facts(R, b, id, m)
  IN reclaim(Rules(m, f))

BoundTo(rx) == {id \in Known : \E e \in DOMAIN msgs[id].attempts : msgs[id].attempts[e].rx = rx}

\* The records M after the finalizer ran for those in S, with receivers R
Finalized(R, b, M, S) ==
  [id \in Ids |-> IF id \in S THEN finalize(R, b, id, M[id]) ELSE M[id]]

\* The known records with F applied to every attempt
OnAttempts(F(_, _, _)) ==
  [id \in Ids |-> IF id \in Known
                  THEN MapAttempts(msgs[id], LAMBDA e, at : F(id, e, at))
                  ELSE msgs[id]]

-----------------------------------------------------------------------------
(* Hand-outs (T1).                                                          *)

\* The receivers dispatch may push to: the newest of them is chosen
Pushable == {r \in DOMAIN rxs : /\ rxs[r].state = "Live" /\ ~rxs[r].closed
                                /\ rxs[r].slot # "Hook" /\ ~rxs[r].spent}

\* dispatch to the newest stream or unspent once-waiter, a stream's doorbell
\* fetch, or a hook's own fetch
MayTake(rx) ==
  /\ rxs[rx].state = "Live"
  /\ rxs[rx].slot = "OnceWaiter" => rx \in Pushable /\ \A r \in Pushable : r <= rx
  /\ rxs[rx].slot \in Streams => ~rxs[rx].closed

\* Mutant: what was regained since the repeat was scheduled is not looked at.
RevalidatedByRevision(id, m) == m.token.current

Revalidated(id, m) ==
  /\ m.token.current
  /\ \/ m.token.kind = "Manual"
     \/ \A e \in Current(m) :
          LET at == m.attempts[e]
          IN /\ ~at.resume_pending
             /\ ~possessed(rxs, busy, id, e, at)
             /\ needs_clearance(at) => at.cleared

IssueKind(m) ==
  IF m.token.kind = "Auto" THEN "AutoRepeat"
  ELSE IF m.token.kind = "Manual" THEN "ManualRetry"
  ELSE IF m.attempts = <<>> THEN "First" ELSE "Requeue"

\* A once-waiter's batch is withheld while its caps file is written
Spend(m, slot) ==
  [m EXCEPT !.attempts[Len(m.attempts)].withheld = slot = "OnceWaiter"]

\* Mutant: a requeue counts as an automatic repeat.
RepeatsWithRequeues(m, kind) ==
  IF kind \in {"AutoRepeat", "Requeue"} THEN m.auto_repeats + 1 ELSE m.auto_repeats

Repeats(m, kind) == IF kind = "AutoRepeat" THEN m.auto_repeats + 1 ELSE m.auto_repeats

HandOut(id, m, rx) ==
  LET kind == IssueKind(m)
      again(e, at) == IF at.a = m.a THEN recheck(at) ELSE at
      n == [MapAttempts(m, again) EXCEPT
              !.attempts = Append(@, NewAttempt(m.a, rx, rxs[rx].slot, kind)),
              !.auto_repeats = Repeats(m, kind),
              !.token = NoToken]
  IN /\ msgs' = [msgs EXCEPT ![id] = Spend(finalize(rxs, busy, id, n), rxs[rx].slot)]
     /\ rxs' = [rxs EXCEPT ![rx].spent = @ \/ rxs[rx].slot = "OnceWaiter"]
     /\ used' = used \cup {<<id, m.a, Len(m.attempts) + 1>>}

issue(id, rx) ==
  LET m == IF id \in Known THEN msgs[id] ELSE NewDelivery(id)
      scheduled == m.token.kind # "None"
  IN /\ ~exited
     /\ MayTake(rx)
     /\ scheduled \/ m.state = "Queued"
     /\ ~m.latch
     /\ \/ /\ scheduled /\ ~Revalidated(id, m)
           /\ msgs' = [msgs EXCEPT ![id] = finalize(rxs, busy, id, [m EXCEPT !.token = NoToken])]
           /\ UNCHANGED <<rxs, used>>
        \/ /\ scheduled => Revalidated(id, m)
           /\ Len(m.attempts) >= MaxAttempts
           /\ msgs' = [msgs EXCEPT ![id] = finalize(rxs, busy, id, m)]
           /\ UNCHANGED <<rxs, used>>
        \/ /\ scheduled => Revalidated(id, m)
           /\ Len(m.attempts) < MaxAttempts
           /\ EvidenceReserved + 1 > EvidenceRoom
           /\ msgs' = [msgs EXCEPT ![id] = m]
           /\ UNCHANGED <<rxs, used>>
        \/ /\ scheduled => Revalidated(id, m)
           /\ Len(m.attempts) < MaxAttempts
           /\ EvidenceReserved + 1 <= EvidenceRoom
           /\ HandOut(id, m, rx)
     /\ UNCHANGED <<forgotten, busy, phase, exited>>

\* Mutant: the latch is not looked at.
may_hand_overLatched(m, id, e, rx) ==
  /\ m.attempts[e].rx = rx /\ rxs[rx].state = "Live" /\ ~is_final(m.attempts[e].stage)
  /\ m.attempts[e].a = m.a

\* The final hand-over check
may_hand_over(m, id, e, rx) ==
  LET at == m.attempts[e]
  IN /\ at.rx = rx /\ rxs[rx].state = "Live" /\ ~at.resume_pending
     /\ ~is_final(at.stage)
     /\ \A f \in DOMAIN m.attempts : m.attempts[f].a = at.a => m.attempts[f].stage # "Committed"
     /\ ~m.latch /\ at.a = m.a
     /\ at.kind = "AutoRepeat" =>
          \A f \in 1..e - 1 :
            LET t == m.attempts[f]
            IN ~(/\ t.a = at.a /\ ~is_final(t.stage) /\ ~t.resume_pending
                 /\ rxs[t.rx].state = "Live" /\ snapshot_holds(rxs, id, f, t))

-----------------------------------------------------------------------------
(* Stage records (T2, T3, T7) and the deck's own witness.                   *)

\* What one record on attempt e of id becomes: F on the attempt, finalized
OneAttempt(id, e, at) ==
  /\ msgs' = [msgs EXCEPT ![id] = finalize(rxs, busy, id, [msgs[id] EXCEPT !.attempts[e] = at])]
  /\ UNCHANGED <<rxs, forgotten, busy, phase, exited, used>>

Committed(at) ==
  [at EXCEPT !.stage = "Committed", !.resume_pending = FALSE, !.verifier = FALSE,
             !.grace = FALSE, !.receipt = "None", !.cleared = FALSE, !.checking = "No",
             !.found = FALSE, !.correcting = 0]

\* A commit of the current assignment finalizes; one of an earlier assignment is
\* recorded and settles nothing
CommitAll(R, b, id, m, S) ==
  LET n == MapAttempts(m, LAMBDA e, at : IF e \in S THEN Committed(at) ELSE at)
  IN IF S \cap Current(m) # {} THEN finalize(R, b, id, n) ELSE reclaim(n)

commit_target(m) ==
  {e \in Current(m) : m.attempts[e].stage # "NotHanded" /\ ~m.attempts[e].withheld}

commit_admissible(at) == one_shot(at.slot) /\ ~at.withheld /\ at.stage # "NotHanded"

\* A stream's committed control, an explicit ack, or the prompt hook's commit
\* with its receipt in the spool
commit(id, e) ==
  LET m == msgs[id]
      at == m.attempts[e]
  IN /\ ~exited
     /\ at.stage # "Committed"
     /\ \/ at.slot \in Streams
        \/ e \in commit_target(m) /\ \A f \in commit_target(m) : f <= e
        \/ commit_admissible(at) /\ at.receipt # "None"
     /\ msgs' = [msgs EXCEPT ![id] = CommitAll(rxs, busy, id, m, {e})]
     /\ UNCHANGED <<rxs, forgotten, busy, phase, exited, used>>

\* A receiver reports what it was given: nothing of a withheld attempt
stage(id, e, reported) ==
  LET at == msgs[id].attempts[e]
      new == IF reported = "Handed" /\ at.slot = "OnceWaiter" THEN "HandedInert" ELSE reported
  IN /\ ~exited
     /\ rxs[at.rx].state = "Live" /\ ~rxs[at.rx].closed
     /\ ~at.resume_pending /\ ~at.withheld
     /\ at.stage = "Issued" \/ (at.stage = "Handed" /\ reported # "Handed")
     /\ OneAttempt(id, e, IF new = "NotHanded" THEN Refused(at)
                          ELSE [at EXCEPT !.stage = new, !.verifier = @ \/ new = "HandedInert"])

\* deck_not_handed on an attempt, once it is no longer withheld
DeckWitness(at) ==
  IF at.stage \in {"Issued", "Fenced"}
  THEN [Refused(at) EXCEPT !.verifier = FALSE, !.in_use = FALSE]
  ELSE at

Released(at) == [at EXCEPT !.withheld = FALSE]

\* Whether the caps file was written is the file system's choice
release(id, e, written) ==
  LET at == msgs[id].attempts[e]
      goes == written /\ may_hand_over(msgs[id], id, e, at.rx)
  IN /\ ~exited
     /\ at.withheld
     /\ OneAttempt(id, e, IF goes THEN Released(at) ELSE DeckWitness(Released(at)))

\* The ticker's own step: one withheld attempt outran its staging
expire_staging(id, e) ==
  LET at == msgs[id].attempts[e]
  IN /\ ~exited
     /\ at.withheld
     /\ OneAttempt(id, e, DeckWitness(Released(at)))

\* The counted write of a released line was accepted no byte, so nobody can have
\* published a receipt of it
deck_not_handed(id, e) ==
  LET at == msgs[id].attempts[e]
  IN /\ ~exited
     /\ one_shot(at.slot) /\ ~at.withheld
     /\ at.stage \in {"Issued", "Fenced"} /\ at.receipt = "None"
     /\ OneAttempt(id, e, DeckWitness(at))

-----------------------------------------------------------------------------
(* Receivers (T8).                                                          *)

Retired(r) == [r EXCEPT !.state = "Retired", !.held = {}, !.closed = FALSE]

Gone(r) == [r EXCEPT !.state = "Gone", !.hold = FALSE, !.spent = FALSE]

LiveIn(slot) == {r \in DOMAIN rxs : rxs[r].slot = slot /\ rxs[r].state = "Live"}

\* close_one_shot on an attempt: fenced, its approval maybe still in use
ShotClosed(at) == IF is_final(at.stage) THEN at ELSE [fence(at) EXCEPT !.in_use = TRUE]

\* register on an attempt of the slot: a retired incarnation's open attempts wait
\* for this one's resume answer, its final ones that keep a verifier are handed back
HandBack(R, slot, replaced, rx, at) ==
  IF at.slot # slot \/ R[at.rx].state # "Retired" THEN at
  ELSE IF ~is_final(at.stage)
  THEN [at EXCEPT !.resume_pending = @ \/ replaced, !.grace = @ /\ ~replaced]
  ELSE IF at.verifier /\ ~at.reclaimed
  THEN [recheck(at) EXCEPT !.correcting = rx]
  ELSE at

register(slot) ==
  LET rx == Len(rxs) + 1
      old == IF slot = "Hook" THEN {} ELSE LiveIn(slot)
      R == Append([r \in DOMAIN rxs |-> IF r \notin old THEN rxs[r]
                                        ELSE IF one_shot(slot) THEN Gone(rxs[r])
                                        ELSE Retired(rxs[r])],
                  NewReceiver(slot))
      M == OnAttempts(LAMBDA id, e, at :
             IF one_shot(slot) THEN IF at.rx \in old THEN ShotClosed(at) ELSE at
             ELSE HandBack(R, slot, old # {}, rx, at))
  IN /\ ~exited
     /\ Len(rxs) < MaxRx
     /\ slot = "Hook" => Cardinality(LiveIn("Hook")) < MaxLiveHooks
     /\ rxs' = R
     /\ msgs' = Finalized(R, busy, M, Known)
     /\ UNCHANGED <<forgotten, busy, phase, exited, used>>

\* seen is what the watermark newly covers of the incarnation's own attempts
snapshot(rx, held, seen) ==
  LET R == [rxs EXCEPT ![rx].held = held]
      Listed(id, e, at) == IF <<id, at.a, e>> \in held THEN recheck(at) ELSE at
      M == OnAttempts(LAMBDA id, e, at :
             IF at.rx # rx THEN at
             ELSE [Listed(id, e, at) EXCEPT !.grace = @ /\ <<id, at.a, e>> \notin seen])
  IN /\ ~exited
     /\ rxs[rx].state = "Live" /\ rxs[rx].slot \in Streams /\ ~rxs[rx].closed
     /\ rxs' = R
     /\ msgs' = Finalized(R, busy, M, BoundTo(rx))
     /\ UNCHANGED <<forgotten, busy, phase, exited, used>>

\* NotHanded counts only from a context whose callback queue survived; any other
\* answer fences
resume_answer(rx, id, e, answer) ==
  LET at == msgs[id].attempts[e]
      back == [at EXCEPT !.resume_pending = FALSE]
  IN /\ ~exited
     /\ rxs[rx].state = "Live" /\ ~rxs[rx].closed
     /\ at.resume_pending
     /\ rxs[at.rx].slot = rxs[rx].slot
     /\ OneAttempt(id, e,
          IF answer = "Retained" THEN [recheck(back) EXCEPT !.rx = rx, !.grace = TRUE]
          ELSE IF answer = "NotHanded" THEN Refused(back)
          ELSE fence(back))

stream_closed(rx) ==
  LET R == [rxs EXCEPT ![rx].closed = TRUE]
  IN /\ ~exited
     /\ rxs[rx].state = "Live" /\ rxs[rx].slot \in Streams /\ ~rxs[rx].closed
     /\ rxs' = R
     /\ msgs' = Finalized(R, busy, msgs, BoundTo(rx))
     /\ UNCHANGED <<forgotten, busy, phase, exited, used>>

connection_closed(rx) ==
  LET R == [rxs EXCEPT ![rx] = Gone(@)]
      M == OnAttempts(LAMBDA id, e, at : IF at.rx = rx THEN ShotClosed(at) ELSE at)
  IN /\ ~exited
     /\ rxs[rx].state = "Live" /\ one_shot(rxs[rx].slot)
     /\ rxs' = R
     /\ msgs' = Finalized(R, busy, M, BoundTo(rx))
     /\ UNCHANGED <<forgotten, busy, phase, exited, used>>

HasOnce(m) == \E e \in DOMAIN m.attempts : once_held(m.attempts[e])

\* The turn clock, read for once-waiters only, changed: a start voids checks, an end restarts the idle grace
turn ==
  LET M == OnAttempts(LAMBDA id, e, at :
             IF ~once_held(at) THEN at
             ELSE IF busy THEN [at EXCEPT !.grace = TRUE] ELSE recheck(at))
  IN /\ ~exited
     /\ "OnceWaiter" \in Slots
     /\ busy' = ~busy
     /\ msgs' = Finalized(rxs, ~busy, M, {id \in Known : HasOnce(msgs[id])})
     /\ UNCHANGED <<rxs, forgotten, phase, exited, used>>

-----------------------------------------------------------------------------
(* The user (T5, T6), exit (T9) and forgetting.                             *)

\* A Retry of an attempting message needs the held-long or the not-started
\* attention.  A tick raises them after long enough and they change nothing else,
\* so whether one stands is the clock's choice; a Retry takes them back, and only
\* possession raises one again
attention(id, m) ==
  /\ m.state = "Attempting"
  /\ Current(m) # {}
  /\ m.token.kind # "Manual" \/ Facts(rxs, busy, id, m).held

retry(id) ==
  LET m == msgs[id]
      n == [set_state(m, "Attempting") EXCEPT
              !.token = [kind |-> "Manual", current |-> TRUE], !.waiting = "No"]
  IN /\ ~exited
     /\ m.state \in UncertainStates \/ attention(id, m)
     /\ Len(m.attempts) < MaxAttempts
     /\ msgs' = [msgs EXCEPT ![id] = finalize(rxs, busy, id, n)]
     /\ UNCHANGED <<rxs, forgotten, busy, phase, exited, used>>

cancel(id) ==
  LET m == msgs[id]
      n == [m EXCEPT !.latch = TRUE, !.token = NoToken]
  IN /\ ~exited
     /\ ~is_terminal(m.state)
     /\ msgs' = [msgs EXCEPT ![id] = finalize(rxs, busy, id, n)]
     /\ UNCHANGED <<rxs, forgotten, busy, phase, exited, used>>

\* The engine drops the generation's model: only the verdicts outlive it
exit ==
  LET ended(m) == [m EXCEPT !.attempts = <<>>, !.token = NoToken, !.waiting = "No",
                            !.state = IF is_terminal(@) THEN @ ELSE "Exited"]
  IN /\ ~exited
     /\ exited' = TRUE
     /\ msgs' = [id \in Ids |-> IF id \in Known THEN ended(msgs[id]) ELSE msgs[id]]
     /\ rxs' = <<>>
     /\ busy' = FALSE
     /\ phase' = "Idle"
     /\ UNCHANGED <<forgotten, used>>

spent(m) == is_terminal(m.state) /\ \A e \in DOMAIN m.attempts : m.attempts[e].reclaimed

\* Mutant: the assignments the record used are forgotten with it.
forgetUsed(id) ==
  /\ ~exited
  /\ spent(msgs[id])
  /\ msgs' = [msgs EXCEPT ![id] = NoMsg]
  /\ UNCHANGED <<rxs, forgotten, busy, phase, exited, used>>

\* The inbox no longer holds a copy of id: its choice
forget(id) ==
  /\ ~exited
  /\ spent(msgs[id])
  /\ forgotten' = Max({forgotten, msgs[id].a})
  /\ forgotten' <= MaxForgotten
  /\ msgs' = [msgs EXCEPT ![id] = NoMsg]
  /\ UNCHANGED <<rxs, busy, phase, exited, used>>

-----------------------------------------------------------------------------
(* The clock: candidates under the lock, the spool off it, tick under it.   *)

lapse_candidate(id, e) ==
  LET at == msgs[id].attempts[e]
  IN /\ ~is_terminal(msgs[id].state)
     /\ at.a = msgs[id].a
     /\ needs_clearance(at) /\ ~at.cleared
     /\ ~possessed(rxs, busy, id, e, at)

verify_candidate(id, e) ==
  LET at == msgs[id].attempts[e]
  IN /\ is_terminal(msgs[id].state)
     /\ at.stage = "Fenced" /\ at.verifier /\ ~at.reclaimed /\ ~at.withheld
     /\ at.correcting # 0 => rxs[at.correcting].state # "Live"
     /\ ~at.in_use
     /\ at.slot = "OnceWaiter" => ~possessed(rxs, busy, id, e, at)

\* The candidates and what the spool tells of them.  told are the attempts the
\* scan or the exact lookup could tell about: a receipt it reads is found, and a
\* candidate without one is absent.  What changes between the lock and the
\* lookup voids the check as what changes after it does.
lapse_checks(told) ==
  LET Looked(id, e, at) ==
        [at EXCEPT !.found = at.receipt # "None",
                   !.checking = IF at.receipt # "None" THEN "No"
                                ELSE IF lapse_candidate(id, e) THEN "Lapse"
                                ELSE IF verify_candidate(id, e) THEN "Verify"
                                ELSE "No"]
  IN /\ ~exited
     /\ phase = "Idle"
     /\ phase' = "Read"
     /\ msgs' = OnAttempts(LAMBDA id, e, at : IF <<id, e>> \in told THEN Looked(id, e, at) ELSE at)
     /\ UNCHANGED <<rxs, forgotten, busy, exited, used>>

\* Every commit found is applied first
TickCommitted(id, m) ==
  LET S == {e \in DOMAIN m.attempts : m.attempts[e].found /\ m.attempts[e].stage # "Committed"}
  IN IF S = {} THEN m ELSE CommitAll(rxs, busy, id, m, S)

\* Mutant: a check that could not tell counts as absence.
tick_verifiedUntold(m) ==
  LET one(e, at) == [at EXCEPT !.verifier = @ /\ (at.found \/ at.stage # "Fenced")]
  IN reclaim(MapAttempts(m, one))

tick_verified(m) ==
  LET absent(at) == at.checking = "Verify"
      one(e, at) == [at EXCEPT !.verifier = @ /\ ~(absent(at) /\ at.stage = "Fenced")]
  IN IF \E e \in DOMAIN m.attempts : absent(m.attempts[e]) THEN reclaim(MapAttempts(m, one)) ELSE m

TickTurn(id, m) == IF HasOnce(m) THEN finalize(rxs, busy, id, m) ELSE m

TickCleared(id, m) ==
  MapAttempts(m, LAMBDA e, at :
    [at EXCEPT !.cleared = @ \/ (/\ at.checking = "Lapse"
                                 /\ at.a = m.a
                                 /\ needs_clearance(at)
                                 /\ ~possessed(rxs, busy, id, e, at)),
               !.checking = "No", !.found = FALSE])

\* expire_holds, then retire_closed of the closed streams in late
TickRxs(late) ==
  [r \in DOMAIN rxs |->
     IF rxs[r].slot = "Hook" /\ rxs[r].state = "Live" /\ ~rxs[r].hold THEN Gone(rxs[r])
     ELSE IF r \in late THEN Retired(rxs[r])
     ELSE rxs[r]]

TickExpired(R, id, m) ==
  LET expired(at) == rxs[at.rx].state = "Live" /\ R[at.rx].state = "Gone"
      n == MapAttempts(m, LAMBDA e, at : IF expired(at) THEN ShotClosed(at) ELSE at)
  IN IF \E e \in DOMAIN m.attempts : expired(m.attempts[e]) THEN finalize(R, busy, id, n) ELSE m

TickRetired(late, m) ==
  LET replayed(at) == [at EXCEPT !.correcting = IF @ \in late THEN 0 ELSE @]
  IN MapAttempts(m, LAMBDA e, at :
       IF at.rx \in late /\ ~is_final(at.stage) /\ ~at.resume_pending
       THEN fence(at) ELSE replayed(at))

\* staging_lapsed, for at most one attempt of a message a step
TickStaging(R, id, m, e) ==
  IF e = 0 \/ e \notin DOMAIN m.attempts \/ ~m.attempts[e].withheld THEN m
  ELSE finalize(R, busy, id, [m EXCEPT !.attempts[e] = DeckWitness(Released(@))])

\* The attempts in silent owe a resume answer whose deadline passed
TickSilent(silent, id, m) ==
  MapAttempts(m, LAMBDA e, at :
    IF <<id, e>> \in silent /\ at.resume_pending
    THEN fence([at EXCEPT !.resume_pending = FALSE]) ELSE at)

\* Which deadlines have passed by now is the clock's choice
tick(late, staged, silent) ==
  LET R == TickRxs(late)
      One(id) ==
        LET checked == TickCleared(id, TickTurn(id, tick_verified(TickCommitted(id, msgs[id]))))
            fenced == TickRetired(late, TickExpired(R, id, checked))
            m == TickSilent(silent, id, TickStaging(R, id, fenced, staged[id]))
        IN finalize(R, busy, id, m)
  IN /\ ~exited
     /\ phase = "Read"
     /\ phase' = "Idle"
     /\ rxs' = R
     /\ msgs' = [id \in Ids |-> IF id \in Known THEN One(id) ELSE msgs[id]]
     /\ UNCHANGED <<forgotten, busy, exited, used>>

-----------------------------------------------------------------------------
(* The agent publishes receipts, and time passes.                           *)

publish(id, e) ==
  LET at == msgs[id].attempts[e]
  IN /\ ~exited
     /\ at.receipt = "None" /\ at.stage \notin {"Committed", "NotHanded"}
     /\ ~at.withheld /\ ~at.reclaimed
     /\ msgs' = [msgs EXCEPT ![id].attempts[e].receipt = "New"]
     /\ UNCHANGED <<rxs, forgotten, busy, phase, exited, used>>

\* A snapshot outlives POSSESS_TTL, a hook its hold
ReceiverTime(rx) ==
  /\ ~exited
  /\ rxs[rx].state = "Live"
  /\ \/ rxs[rx].held # {} /\ rxs' = [rxs EXCEPT ![rx].held = {}]
     \/ rxs[rx].hold /\ rxs' = [rxs EXCEPT ![rx].hold = FALSE]
  /\ UNCHANGED <<msgs, forgotten, busy, phase, exited, used>>

\* Issue or idle grace ends, an approval expires
Expires(id, field) ==
  /\ ~exited
  /\ \E e \in DOMAIN msgs[id].attempts :
       /\ msgs[id].attempts[e][field]
       /\ msgs' = [msgs EXCEPT ![id].attempts[e][field] = FALSE]
  /\ UNCHANGED <<rxs, forgotten, busy, phase, exited, used>>

\* A message nobody possesses has waited for uncertain_after
Waited(id) ==
  /\ ~exited
  /\ msgs[id].waiting = "Since"
  /\ msgs' = [msgs EXCEPT ![id].waiting = "Over"]
  /\ UNCHANGED <<rxs, forgotten, busy, phase, exited, used>>

-----------------------------------------------------------------------------
Init ==
  /\ msgs = [id \in Ids |-> NoMsg]
  /\ rxs = <<>>
  /\ forgotten = 0
  /\ busy = FALSE
  /\ phase = "Idle"
  /\ exited = FALSE
  /\ used = {}

AttemptsOf(id) == DOMAIN msgs[id].attempts

\* References to the attempts of which P holds: a receiver lists its own
RefsOn(P(_)) ==
  UNION {{<<id, msgs[id].attempts[e].a, e>> : e \in {f \in AttemptsOf(id) : P(msgs[id].attempts[f])}}
           : id \in Known}

Snapshot(rx) ==
  \E held \in SUBSET RefsOn(LAMBDA at : /\ at.rx = rx
                                        /\ at.stage \in {"Issued", "Handed", "HandedInert"}),
     seen \in SUBSET RefsOn(LAMBDA at : at.rx = rx /\ at.grace) :
    snapshot(rx, held, seen)

Attempted(S(_)) == UNION {{<<id, e>> : e \in {f \in AttemptsOf(id) : S(msgs[id].attempts[f])}} : id \in Known}

\* The attempts whose commit the deck could still find
Unseen == Attempted(LAMBDA at : ~at.reclaimed /\ at.stage # "Committed")

LapseChecks == \E told \in SUBSET Unseen : lapse_checks(told)

Tick ==
  \E late \in SUBSET {r \in DOMAIN rxs : rxs[r].state = "Live" /\ rxs[r].closed},
     staged \in [Ids -> 0..MaxAttempts],
     silent \in SUBSET Attempted(LAMBDA at : at.resume_pending) :
    /\ \A id \in Ids : staged[id] # 0 =>
         /\ id \in Known
         /\ staged[id] \in AttemptsOf(id)
         /\ msgs[id].attempts[staged[id]].withheld
    /\ tick(late, staged, silent)

\* A tick by which every deadline has passed
TickDue ==
  \E staged \in [Ids -> 0..MaxAttempts] :
    /\ \A id \in Ids :
         LET withheld == IF id \in Known
                         THEN {e \in AttemptsOf(id) : msgs[id].attempts[e].withheld} ELSE {}
         IN staged[id] \in IF withheld = {} THEN {0} ELSE withheld
    /\ tick({r \in DOMAIN rxs : rxs[r].state = "Live" /\ rxs[r].closed}, staged,
            Attempted(LAMBDA at : at.resume_pending))

Receivers ==
  \/ \E slot \in Slots : register(slot)
  \/ \E rx \in DOMAIN rxs : Snapshot(rx) \/ stream_closed(rx) \/ connection_closed(rx) \/ ReceiverTime(rx)

Records(id) ==
  \E e \in AttemptsOf(id) :
    \/ commit(id, e)
    \/ \E reported \in {"Handed", "NotHanded", "HandedInert"} : stage(id, e, reported)
    \/ \E written \in BOOLEAN : release(id, e, written)
    \/ expire_staging(id, e)
    \/ deck_not_handed(id, e)
    \/ publish(id, e)
    \/ \E rx \in DOMAIN rxs, answer \in {"Retained", "NotHanded", "Unknown"} :
         resume_answer(rx, id, e, answer)

Next ==
  \/ \E id \in Ids, rx \in DOMAIN rxs : issue(id, rx)
  \/ \E id \in Known : Records(id) \/ retry(id) \/ cancel(id) \/ forget(id)
                      \/ Expires(id, "grace") \/ Expires(id, "in_use") \/ Waited(id)
  \/ Receivers
  \/ turn
  \/ LapseChecks
  \/ Tick
  \/ exit

Spec == Init /\ [][Next]_vars

\* The ticker runs for ever and time passes: no deadline is put off for ever.
\* The first two conjuncts are WF_vars(LapseChecks) and SF_vars(TickDue) with
\* their ENABLED conditions written out
Fairness ==
  /\ []<>(phase = "Read" \/ exited)
  /\ []<>(phase = "Read") => []<><<TickDue>>_vars
  /\ \A id \in Ids : /\ WF_vars(id \in Known /\ Expires(id, "grace"))
                      /\ SF_vars(id \in Known /\ Waited(id))
  /\ \A r \in 1..MaxRx : WF_vars(r \in DOMAIN rxs /\ ReceiverTime(r))

FairSpec == Spec /\ Fairness

-----------------------------------------------------------------------------
(* Properties.                                                              *)

AttemptType ==
  [a : Nat \ {0}, rx : Nat \ {0}, slot : Slots, stage : Stages,
   kind : {"First", "Requeue", "AutoRepeat", "ManualRetry"},
   cleared : BOOLEAN, checking : {"No", "Lapse", "Verify"},
   found : BOOLEAN, receipt : {"None", "New", "Covered"}, resume_pending : BOOLEAN,
   verifier : BOOLEAN, correcting : Nat, reclaimed : BOOLEAN,
   grace : BOOLEAN, in_use : BOOLEAN, withheld : BOOLEAN]

\* The model's state has its type, an attempt names a receiver of its own slot
\* and an ended message waits for nothing
TypeOK ==
  /\ \A id \in Known :
       /\ msgs[id].state \in States
       /\ is_terminal(msgs[id].state) => msgs[id].waiting = "No"
       /\ \A e \in AttemptsOf(id) :
            /\ msgs[id].attempts[e] \in AttemptType
            /\ rxs[msgs[id].attempts[e].rx].slot = msgs[id].attempts[e].slot
  /\ \A r \in DOMAIN rxs : rxs[r].state \in {"Live", "Retired", "Gone"}
  /\ forgotten \in 0..MaxForgotten
  /\ phase \in {"Idle", "Read"}

IsAuto(at) == at.kind = "AutoRepeat"

\* The three counters that different steps spend bound what one message costs:
\* its attempts (issue), its automatic repeats, each of them counted, and its
\* requeues (rule 3); and the open attempts fit the evidence they reserve.
BudgetsHold ==
  /\ \A id \in Known :
       LET m == msgs[id]
       IN /\ Len(m.attempts) <= MaxAttempts
          /\ m.auto_repeats <= MaxAutoRepeats
          /\ m.requeues <= MaxDeliver
          /\ ~exited => Cardinality({e \in AttemptsOf(id) : IsAuto(m.attempts[e])}) = m.auto_repeats
  /\ EvidenceReserved <= EvidenceRoom

\* A commit of the current assignment, whenever and however it is learned, ends
\* the message as settled, or corrects the other end its sender was told of.
CommitDecides ==
  \A id \in Known :
    (\E e \in Current(msgs[id]) : msgs[id].attempts[e].stage = "Committed") =>
      \/ msgs[id].state = "Settled"
      \/ msgs[id].state \in {"Cancelled", "MaxDeliver"} /\ msgs[id].corrected

\* What a spool check cleared has no receipt that was in the spool when the
\* attempt last had to be checked again (recheck): neither a check under way nor
\* one applied covers a receipt it could not have missed.
ClearedIsChecked ==
  \A id \in Known : \A e \in AttemptsOf(id) :
    LET at == msgs[id].attempts[e]
    IN at.cleared \/ at.checking # "No" => at.receipt # "Covered"

\* The attempts a step hands out
NewAttempts(id) ==
  {e \in DOMAIN msgs'[id].attempts : msgs[id] = NoMsg \/ e > Len(msgs[id].attempts)}

\* The deck repeats a message by itself only when nobody possesses or may still
\* answer for an earlier attempt of the assignment and no receipt of one was
\* there to be found: an agent does not get twice what it has.  Of an attempt its
\* receiver refused the deck takes that word: a receipt would violate the witness.
AutoRepeatSafe ==
  [][\A id \in Known : msgs'[id] # NoMsg =>
       \A n \in NewAttempts(id) : IsAuto(msgs'[id].attempts[n]) =>
         \A e \in Current(msgs[id]) :
           LET at == msgs[id].attempts[e]
           IN /\ ~possessed(rxs, busy, id, e, at)
              /\ ~at.resume_pending /\ ~at.withheld
              /\ at.stage # "NotHanded" => at.receipt # "Covered"]_vars

\* After Cancel nothing more of the message is handed out and nothing withheld
\* is released to its receiver.
CancelStops ==
  [][\A id \in Known : msgs[id].latch /\ msgs'[id] # NoMsg =>
       /\ Len(msgs'[id].attempts) <= Len(msgs[id].attempts)
       /\ \A e \in DOMAIN msgs'[id].attempts :
            msgs[id].attempts[e].withheld /\ ~msgs'[id].attempts[e].withheld =>
              is_final(msgs'[id].attempts[e].stage)]_vars

\* No two hand-outs of a generation share a name, across requeues to a new
\* assignment and records that were forgotten: a receipt found later names one.
NeverReused ==
  [][\A id \in Ids : msgs'[id] # NoMsg =>
       \A n \in NewAttempts(id) : <<id, msgs'[id].attempts[n].a, n>> \notin used]_vars

\* A commit record that every check of a fenced attempt would find is not thrown
\* away with the attempt, unless the message is settled or its agent gone.
ReceiptsKept ==
  [][\A id \in Known : msgs'[id] # NoMsg /\ ~exited' =>
       \A e \in AttemptsOf(id) :
         LET at == msgs[id].attempts[e]
         IN /\ at.stage = "Fenced" /\ ~at.reclaimed /\ at.receipt = "Covered"
            /\ msgs'[id].attempts[e].reclaimed
            => msgs'[id].state = "Settled" \/ msgs'[id].attempts[e].stage = "Committed"]_vars

\* Open at a receiver that may still report: a stream's or a waiter's own answer
Awaited(id) ==
  \E e \in Current(msgs[id]) :
    LET at == msgs[id].attempts[e]
    IN /\ ~is_final(at.stage) /\ ~at.resume_pending /\ ~at.withheld
       /\ rxs[at.rx].state = "Live" /\ at.slot # "Hook"

\* The message waits on the deck alone
Stranded(id) ==
  /\ id \in Known
  /\ \/ /\ msgs[id].state = "Attempting"
        /\ ~Facts(rxs, busy, id, msgs[id]).held
     \/ msgs[id].state = "CancelHeld" /\ ~Awaited(id)

\* A message that nobody possesses, or that is cancelled and waits on no
\* receiver, is not left so: the ticker repeats it, calls it uncertain or ends it.
NeverStranded == \A id \in Ids : []<>~Stranded(id)

-----------------------------------------------------------------------------
(* The refinement: what the states say of a message.                        *)

VerdictOf(m) ==
  IF m.state \in {"Queued", "Attempting"} THEN "Open"
  ELSE IF m.state \in UncertainStates THEN "Uncertain"
  ELSE IF m.state = "CancelHeld" THEN "Cancelling"
  ELSE m.state

Verdict == [id \in Ids |-> VerdictOf(msgs[id])]

CorrectedMsgs == [id \in Ids |-> id \in Known /\ msgs[id].corrected]

NamesOf == [id \in Ids |-> {n \in used : n[1] = id}]

D == INSTANCE Delivery WITH
       verdict <- Verdict, corrected <- CorrectedMsgs, names <- NamesOf

\* The engine keeps the promises of Delivery: every verdict but the ones a late
\* commit corrects is final, the correction is made once and only to who was told
\* otherwise, and each hand-out is of an open message under a name of its own.
DeliverySpec == D!Spec
=============================================================================
