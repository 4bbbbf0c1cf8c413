------------------------- MODULE TaskNoticesProofs -------------------------
(***************************************************************************)
(* The places a delegated task is known in stay consistent, for any number *)
(* of tasks, generations, panes and orchestrators: a watched task is live  *)
(* and reportable, what was told is remembered only with its watch, claims *)
(* and Reporting tasks come and go together, and no task stays open for a  *)
(* worker that is gone.  So every end is told, and told once; a correction *)
(* has a cause and reaches who was told otherwise; and no notice is lost   *)
(* or doubled between owing and posting it, for any number of posters.     *)
(***************************************************************************)
EXTENDS TaskNotices, SetFacts, SequenceTheorems

\* The parts of the type invariant the argument needs.
Shapes ==
  /\ copy \in [Tasks -> CopyStates]
  /\ ledger \in [Tasks -> LedgerStates]
  /\ delivery \in [Tasks -> {"Live", "Acknowledged", "Ended"}]
  /\ watches \subseteq Tasks

\* A task not yet delegated has the delivery it will start with.
UnboundIsNew ==
  \A t \in Tasks : ledger[t] = "Unbound" => delivery[t] = "Live"

\* The ledger has not seen the end of a live copy: an exit's walk finds it.
LiveCopyLive == \A t \in Tasks : LiveCopy(t) => delivery[t] = "Live"

\* Whatever ends a watch ends the copy with it.
LiveIsWatched == \A t \in Tasks : LiveCopy(t) => t \in watches

\* A watched task's worker has not exited.
WatchedHere == \A t \in watches : Worker[t] \notin gone

\* A claim knows whether its worker is gone.
ClaimsKnow ==
  \A t \in DOMAIN claims : claims[t].gone <=> Worker[t] \in gone

\* Between the two halves of a restart's supersession nothing is watched.
RestartsUnwatched == \A t \in watches : PaneOf(t) \notin restarting

Notice(kind, t) == [kind |-> kind, tasks |-> {t}]

\* EndIsTold, naming the very notice that tells an end.
EndKept ==
  \A t \in Tasks :
    /\ copy[t] = "MaxDeliver" => Notice("Undeliverable", t) \in BagToSet(said)
    /\ copy[t] = "Cancelled" => Notice("Cancelled", t) \in BagToSet(said)
    /\ copy[t] = "AgentExited" =>
         \/ Notice("Exited", t) \in BagToSet(said)
         \/ ledger[t] = "Reported"
         \/ t \in DOMAIN claims /\ Notice("Exited", t) \in claims[t].withheld

IInv ==
  /\ Shapes
  /\ UnboundIsNew
  /\ LiveCopyLive
  /\ LiveIsWatched
  /\ WatchedHere
  /\ ClaimsKnow
  /\ RestartsUnwatched
  /\ WatchedReportable
  /\ ToldIsWatched
  /\ ClaimsExact
  /\ NoneOpenForTheGone
  /\ EndKept

-----------------------------------------------------------------------------
(* What is owed is said, and nothing said is ever unsaid.                   *)

LEMMA Oweing ==
  ASSUME NEW ns, Owe(ns)
  PROVE  BagToSet(said') = BagToSet(said) \cup ns
  BY DEF Owe, BagToSet, SetToBag, (+)

LEMMA Noticed ==
  ASSUME NEW kind, NEW T, NEW t \in T
  PROVE  Notice(kind, t) \in Notices(kind, T)
  BY DEF Notice, Notices

-----------------------------------------------------------------------------
LEMMA IInvInit == Init => IInv
  BY NoticeConstants DEF Init, IInv, Shapes, UnboundIsNew, LiveCopyLive,
     LiveIsWatched, WatchedHere, ClaimsKnow, RestartsUnwatched,
     WatchedReportable, ToldIsWatched, ClaimsExact, NoneOpenForTheGone,
     EndKept, LiveCopy, OpenTask, CopyStates, LedgerStates

LEMMA DelegateStep ==
  ASSUME IInv, NEW t \in Tasks, Delegate(t)
  PROVE  IInv'
  BY NoticeConstants DEF Delegate, Silent, lives, Superseded, SupersedeTasks,
     WatchedAt,
     IInv, Shapes, UnboundIsNew, LiveCopyLive, LiveIsWatched,
     WatchedHere, ClaimsKnow, RestartsUnwatched, WatchedReportable,
     ToldIsWatched, ClaimsExact, NoneOpenForTheGone, EndKept, LiveCopy,
     OpenTask, PaneOf, CopyStates, LedgerStates

LEMMA RetireStep ==
  ASSUME IInv, NEW p \in Restarted, RetireForRestart(p)
  PROVE  IInv'
  BY NoticeConstants DEF RetireForRestart, EndWatches, Silent, reports, Superseded, WatchedAt,
     IInv, Shapes, UnboundIsNew, LiveCopyLive, LiveIsWatched,
     WatchedHere, ClaimsKnow, RestartsUnwatched, WatchedReportable,
     ToldIsWatched, ClaimsExact, NoneOpenForTheGone, EndKept, LiveCopy,
     OpenTask, PaneOf, CopyStates, LedgerStates

LEMMA SupersedeStep ==
  ASSUME IInv, NEW p \in Restarted, SupersedeForRestart(p)
  PROVE  IInv'
  BY NoticeConstants DEF SupersedeForRestart, Silent, tables, SupersedeTasks,
     IInv, Shapes, UnboundIsNew, LiveCopyLive, LiveIsWatched,
     WatchedHere, ClaimsKnow, RestartsUnwatched, WatchedReportable,
     ToldIsWatched, ClaimsExact, NoneOpenForTheGone, EndKept, LiveCopy,
     OpenTask, PaneOf, CopyStates, LedgerStates

LEMMA HandOutStep ==
  ASSUME IInv, NEW t \in Tasks, HandOut(t)
  PROVE  IInv'
  BY NoticeConstants DEF HandOut, Silent, tables, reports, lives,
     IInv, Shapes, UnboundIsNew, LiveCopyLive, LiveIsWatched,
     WatchedHere, ClaimsKnow, RestartsUnwatched, WatchedReportable,
     ToldIsWatched, ClaimsExact, NoneOpenForTheGone, EndKept, LiveCopy,
     OpenTask, PaneOf, CopyStates, LedgerStates

LEMMA RequeueStep ==
  ASSUME IInv, NEW t \in Tasks, Requeue(t)
  PROVE  IInv'
  BY NoticeConstants DEF Requeue, Silent, tables, reports, lives,
     IInv, Shapes, UnboundIsNew, LiveCopyLive, LiveIsWatched,
     WatchedHere, ClaimsKnow, RestartsUnwatched, WatchedReportable,
     ToldIsWatched, ClaimsExact, NoneOpenForTheGone, EndKept, LiveCopy,
     OpenTask, PaneOf, CopyStates, LedgerStates

-----------------------------------------------------------------------------
(* A copy that ends, by whichever verdict, keeps the invariant.             *)

LEMMA EndCopyStep ==
  ASSUME IInv, NEW t \in Tasks, NEW kind,
         NEW reason \in {"MaxDeliver", "Cancelled"},
         kind = IF reason = "MaxDeliver" THEN "Undeliverable" ELSE "Cancelled",
         EndCopy(t, reason, kind),
         UNCHANGED <<ledger, claims, lives>>
  PROVE  IInv'
<1>1. CASE ~LiveCopy(t)
  BY <1>1 DEF EndCopy, Silent, tables, lives,
     IInv, Shapes, UnboundIsNew, LiveCopyLive, LiveIsWatched,
     WatchedHere, ClaimsKnow, RestartsUnwatched, WatchedReportable,
     ToldIsWatched, ClaimsExact, NoneOpenForTheGone, EndKept, LiveCopy,
     OpenTask, PaneOf, CopyStates, LedgerStates
<1>2. CASE LiveCopy(t)
  <2>1. Owe(Notices(kind, {t} \cap watches))
    BY <1>2 DEF EndCopy
  <2>2. Notice(kind, t) \in BagToSet(said') /\ BagToSet(said) \subseteq BagToSet(said')
    BY <1>2, <2>1, Oweing, Noticed DEF IInv, LiveIsWatched
  <2>3. EndKept'
    BY <1>2, <2>2 DEF EndCopy, IInv, Shapes, EndKept
  <2>4. QED
    BY <1>2, <2>3 DEF EndCopy, EndWatches, Delivered, lives,
     IInv, Shapes, UnboundIsNew, LiveCopyLive, LiveIsWatched,
     WatchedHere, ClaimsKnow, RestartsUnwatched, WatchedReportable,
     ToldIsWatched, ClaimsExact, NoneOpenForTheGone, EndKept, LiveCopy,
     OpenTask, PaneOf, CopyStates, LedgerStates
<1>3. QED
  BY <1>1, <1>2

LEMMA OutOfAttemptsStep ==
  ASSUME IInv, NEW t \in Tasks, OutOfAttempts(t)
  PROVE  IInv'
  BY EndCopyStep DEF OutOfAttempts

LEMMA CancelStep ==
  ASSUME IInv, NEW t \in Tasks, NEW final \in BOOLEAN, Cancel(t, final)
  PROVE  IInv'
<1>1. CASE final
  BY <1>1, EndCopyStep DEF Cancel
<1>2. CASE ~final
  BY <1>2 DEF Cancel, Silent, tables, lives,
     IInv, Shapes, UnboundIsNew, LiveCopyLive, LiveIsWatched,
     WatchedHere, ClaimsKnow, RestartsUnwatched, WatchedReportable,
     ToldIsWatched, ClaimsExact, NoneOpenForTheGone, EndKept, LiveCopy,
     OpenTask, PaneOf, CopyStates, LedgerStates
<1>3. QED
  BY <1>1, <1>2

LEMMA CancelDoneStep ==
  ASSUME IInv, NEW t \in Tasks, CancelDone(t)
  PROVE  IInv'
  BY EndCopyStep DEF CancelDone

LEMMA LapseStep ==
  ASSUME IInv, NEW t \in Tasks, Lapse(t)
  PROVE  IInv'
<1>1. BagToSet(said) \subseteq BagToSet(said')
  BY Oweing DEF Lapse
<1>2. QED
  BY <1>1 DEF Lapse, reports, lives,
     IInv, Shapes, UnboundIsNew, LiveCopyLive, LiveIsWatched,
     WatchedHere, ClaimsKnow, RestartsUnwatched, WatchedReportable,
     ToldIsWatched, ClaimsExact, NoneOpenForTheGone, EndKept, LiveCopy,
     OpenTask, PaneOf, CopyStates, LedgerStates

LEMMA RegainStep ==
  ASSUME IInv, NEW t \in Tasks, Regain(t)
  PROVE  IInv'
  BY DEF Regain, Silent, tables, reports, lives,
     IInv, Shapes, UnboundIsNew, LiveCopyLive, LiveIsWatched,
     WatchedHere, ClaimsKnow, RestartsUnwatched, WatchedReportable,
     ToldIsWatched, ClaimsExact, NoneOpenForTheGone, EndKept, LiveCopy,
     OpenTask, PaneOf, CopyStates, LedgerStates

LEMMA CommitStep ==
  ASSUME IInv, NEW t \in Tasks, Commit(t)
  PROVE  IInv'
<1>1. BagToSet(said) \subseteq BagToSet(said')
  BY Oweing DEF Commit
<1>2. QED
  BY <1>1 DEF Commit, Delivered, lives,
     IInv, Shapes, UnboundIsNew, LiveCopyLive, LiveIsWatched,
     WatchedHere, ClaimsKnow, RestartsUnwatched, WatchedReportable,
     ToldIsWatched, ClaimsExact, NoneOpenForTheGone, EndKept, LiveCopy,
     OpenTask, PaneOf, CopyStates, LedgerStates

LEMMA OverdueStep ==
  ASSUME IInv, NEW due \in SUBSET watches, Overdue(due)
  PROVE  IInv'
<1>1. BagToSet(said) \subseteq BagToSet(said')
  BY Oweing DEF Overdue
<1>2. QED
  BY <1>1 DEF Overdue, reports, lives,
     IInv, Shapes, UnboundIsNew, LiveCopyLive, LiveIsWatched,
     WatchedHere, ClaimsKnow, RestartsUnwatched, WatchedReportable,
     ToldIsWatched, ClaimsExact, NoneOpenForTheGone, EndKept, LiveCopy,
     OpenTask, PaneOf, CopyStates, LedgerStates

-----------------------------------------------------------------------------
(* Exits and reports.                                                       *)

LEMMA ClaimStep ==
  ASSUME IInv, NEW t \in Tasks, Claim(t)
  PROVE  IInv'
  BY DEF Claim, Silent, tables, lives,
     IInv, Shapes, UnboundIsNew, LiveCopyLive, LiveIsWatched,
     WatchedHere, ClaimsKnow, RestartsUnwatched, WatchedReportable,
     ToldIsWatched, ClaimsExact, NoneOpenForTheGone, EndKept, LiveCopy,
     OpenTask, PaneOf, CopyStates, LedgerStates

LEMMA CommitClaimStep ==
  ASSUME IInv, NEW t \in Tasks, CommitClaim(t)
  PROVE  IInv'
  BY DEF CommitClaim, EndWatches, Superseded, Silent, lives, Restrict,
     IInv, Shapes, UnboundIsNew, LiveCopyLive, LiveIsWatched,
     WatchedHere, ClaimsKnow, RestartsUnwatched, WatchedReportable,
     ToldIsWatched, ClaimsExact, NoneOpenForTheGone, EndKept, LiveCopy,
     OpenTask, PaneOf, CopyStates, LedgerStates

LEMMA FailClaimStep ==
  ASSUME IInv, NEW t \in Tasks, FailClaim(t)
  PROVE  IInv'
<1>1. BagToSet(said') = BagToSet(said) \cup claims[t].withheld
  BY Oweing DEF FailClaim
<1>2. QED
  BY <1>1 DEF FailClaim, tables, lives, Restrict,
     IInv, Shapes, UnboundIsNew, LiveCopyLive, LiveIsWatched,
     WatchedHere, ClaimsKnow, RestartsUnwatched, WatchedReportable,
     ToldIsWatched, ClaimsExact, NoneOpenForTheGone, EndKept, LiveCopy,
     OpenTask, PaneOf, CopyStates, LedgerStates

LEMMA ExitStep ==
  ASSUME IInv, NEW g \in Generations, NEW kind \in {"Natural", "Removed"},
         Exit(g, kind)
  PROVE  IInv'
<1> DEFINE W == {t \in Tasks : Worker[t] = g /\ OpenTask(t)}
           L == {t \in Tasks : Worker[t] = g /\ LiveCopy(t)}
           live == {t \in Tasks : delivery[t] = "Live"}
           ended == IF kind = "Natural" THEN Tasks \ live ELSE {}
           open == {t \in W : ledger[t] = "Open"}
           unseen == L \ (walked \cup (W \cap live))
\* Every live copy of the generation is watched, open and seen by the walk.
<1>1. L \subseteq W \cap live /\ unseen = {}
  BY DEF IInv, Shapes, LiveIsWatched, WatchedReportable, LiveCopyLive
<1>2. /\ BagToSet(said) \subseteq BagToSet(said')
      /\ \A t \in open \cap live : Notice("Exited", t) \in BagToSet(said')
  <2>1. Owe(ExitOwes(W, L, live, ended))
    BY DEF Exit
  <2>2. BagToSet(said') = BagToSet(said) \cup ExitOwes(W, L, live, ended)
    BY <2>1, Oweing
  <2>3. Notices("Exited", open \cap live) \subseteq ExitOwes(W, L, live, ended)
    BY DEF ExitOwes
  <2>4. QED
    BY <2>2, <2>3, Noticed
<1>3. \A t \in DOMAIN claims \cap W \cap live :
         Notice("Exited", t) \in claims'[t].withheld
  BY Noticed DEF Exit
<1>4. /\ ledger' = [t \in Tasks |-> IF t \in open THEN "Closed" ELSE ledger[t]]
      /\ DOMAIN claims' = DOMAIN claims
      /\ \A t \in DOMAIN claims : t \notin W => claims'[t] = claims[t]
      /\ \A t \in DOMAIN claims \cap W : claims'[t].gone = TRUE
      /\ copy' = [t \in Tasks |-> IF t \in L THEN "AgentExited" ELSE copy[t]]
      /\ watches' = watches \ L
      /\ gone' = gone \cup {g}
      /\ UNCHANGED <<delivery, restarting>>
  BY <1>1 DEF Exit
<1>5. DOMAIN claims \subseteq Tasks /\ \A t \in DOMAIN claims : ledger[t] = "Reporting"
  BY DEF IInv, ClaimsExact
<1>6. EndKept'
  <2> SUFFICES ASSUME NEW t \in Tasks
               PROVE  /\ copy'[t] = "MaxDeliver" => Notice("Undeliverable", t) \in BagToSet(said')
                      /\ copy'[t] = "Cancelled" => Notice("Cancelled", t) \in BagToSet(said')
                      /\ copy'[t] = "AgentExited" =>
                           \/ Notice("Exited", t) \in BagToSet(said')
                           \/ ledger'[t] = "Reported"
                           \/ t \in DOMAIN claims' /\ Notice("Exited", t) \in claims'[t].withheld
    BY DEF EndKept
  <2>1. CASE t \in L
    BY <2>1, <1>1, <1>2, <1>3, <1>4 DEF IInv, ClaimsExact, OpenTask
  <2>2. CASE t \notin L
    <3>1. t \in DOMAIN claims => claims[t].withheld \subseteq claims'[t].withheld
      BY DEF Exit
    <3>2. QED
      BY <2>2, <3>1, <1>2, <1>4 DEF IInv, Shapes, EndKept, OpenTask
  <2>3. QED
    BY <2>1, <2>2
<1>7. ToldIsWatched'
  BY DEF Exit, IInv, ToldIsWatched
<1>8. QED
  BY <1>1, <1>4, <1>5, <1>6, <1>7 DEF
     IInv, Shapes, UnboundIsNew, LiveCopyLive, LiveIsWatched,
     WatchedHere, ClaimsKnow, RestartsUnwatched, WatchedReportable,
     ToldIsWatched, ClaimsExact, NoneOpenForTheGone, EndKept, LiveCopy,
     OpenTask, PaneOf, CopyStates, LedgerStates

-----------------------------------------------------------------------------
LEMMA IInvStep == IInv /\ [Next]_vars => IInv'
<1> SUFFICES ASSUME IInv, [Next]_vars
             PROVE  IInv'
  OBVIOUS
<1>1. CASE Delegating
  BY <1>1, DelegateStep, RetireStep, SupersedeStep DEF Delegating
<1>2. CASE Delivering
  BY <1>2, HandOutStep, RequeueStep, OutOfAttemptsStep, LapseStep, RegainStep,
     CancelStep, CancelDoneStep, CommitStep, OverdueStep DEF Delivering
<1>3. CASE Reporting
  BY <1>3, ExitStep, ClaimStep, CommitClaimStep, FailClaimStep DEF Reporting
<1>4. CASE Posting
  <2>1. UNCHANGED <<copy, tables, reports, gone, restarting, said>>
    BY <1>4 DEF Posting, TakeOwed, PostOne, GiveBack, Depart, Silent, lives
  <2>2. QED
    BY <2>1 DEF tables, reports,
     IInv, Shapes, UnboundIsNew, LiveCopyLive, LiveIsWatched,
     WatchedHere, ClaimsKnow, RestartsUnwatched, WatchedReportable,
     ToldIsWatched, ClaimsExact, NoneOpenForTheGone, EndKept, LiveCopy,
     OpenTask, PaneOf, CopyStates, LedgerStates
<1>5. CASE UNCHANGED vars
  BY <1>5 DEF vars, tables, reports, lives,
     IInv, Shapes, UnboundIsNew, LiveCopyLive, LiveIsWatched,
     WatchedHere, ClaimsKnow, RestartsUnwatched, WatchedReportable,
     ToldIsWatched, ClaimsExact, NoneOpenForTheGone, EndKept, LiveCopy,
     OpenTask, PaneOf, CopyStates, LedgerStates
<1>6. QED
  BY <1>1, <1>2, <1>3, <1>4, <1>5 DEF Next

-----------------------------------------------------------------------------
(* The results.                                                             *)

\* The inductive invariant holds in every reachable state.
THEOREM NoticesInv == Spec => []IInv
  BY IInvInit, IInvStep, PTL DEF Spec

\* Whatever hands over, lapses, cancels, supersedes, restarts, exits or reports,
\* a watched task is live in the inbox and open in the ledger.
THEOREM WatchedStaysReportable == Spec => []WatchedReportable
<1>1. IInv => WatchedReportable
  BY DEF IInv
<1>2. QED
  BY <1>1, NoticesInv, PTL

\* What was told about a delivery is remembered only with its watch.
THEOREM ToldStaysWatched == Spec => []ToldIsWatched
<1>1. IInv => ToldIsWatched
  BY DEF IInv
<1>2. QED
  BY <1>1, NoticesInv, PTL

\* A claim and the Reporting state of its task come and go together.
THEOREM ClaimsStayExact == Spec => []ClaimsExact
<1>1. IInv => ClaimsExact
  BY DEF IInv
<1>2. QED
  BY <1>1, NoticesInv, PTL

\* No task is left open for a worker whose exit was settled, a failed report's
\* included.
THEOREM GoneLeaveNothingOpen == Spec => []NoneOpenForTheGone
<1>1. IInv => NoneOpenForTheGone
  BY DEF IInv
<1>2. QED
  BY <1>1, NoticesInv, PTL

\* Every end of a delegated task is told, unless its report was accepted or a
\* claim still withholds the notice.
THEOREM EndsAreAlwaysTold == Spec => []EndIsTold
<1>1. IInv => EndIsTold
  <2>1. ASSUME NEW t \in Tasks, NEW kind, Notice(kind, t) \in BagToSet(said)
        PROVE  Said(t, {kind}) # {}
    <3>1. Notice(kind, t).kind = kind /\ t \in Notice(kind, t).tasks
      BY DEF Notice
    <3>2. Notice(kind, t) \in Said(t, {kind})
      BY <2>1, <3>1 DEF Said
    <3>3. QED
      BY <3>2
  <2>2. QED
    BY <2>1 DEF IInv, EndKept, EndIsTold
<1>2. QED
  BY <1>1, NoticesInv, PTL
-----------------------------------------------------------------------------
(* What was said, and what may still be said.                               *)

SaidOf(kind, t) == Notice(kind, t) \in BagToSet(said)

EndSaid(t) == \E kind \in Ends : SaidOf(kind, t)

\* A notice that names one task is known by its kind and its task; counts are
\* positive.
SaidShape ==
  \A n \in BagToSet(said) :
    /\ n.kind = "WorkerExited" \/ \E kind \in Kinds, t \in Tasks : n = Notice(kind, t)
    /\ said[n] \in Nat \ {0}

\* What a claim withholds is the end of its own task, and the end of the worker.
WithheldShape ==
  \A t \in DOMAIN claims : \A n \in claims[t].withheld :
    n.kind = "WorkerExited" \/ n = Notice("Exited", t)

\* Withheld, the end of a task is told nowhere else, nor can it be: its worker
\* is gone and its copy has ended.
WithheldUntold ==
  \A t \in DOMAIN claims :
    Notice("Exited", t) \in claims[t].withheld =>
      claims[t].gone /\ ~LiveCopy(t) /\ ~EndSaid(t)

\* After its end was told a task is neither live nor still to be walked.
EndedForGood ==
  \A t \in Tasks :
    EndSaid(t) => /\ ~LiveCopy(t)
                  /\ ledger[t] # "Unbound"
                  /\ delivery[t] = "Live" => ~OpenTask(t)

EndsOnce ==
  \A t \in Tasks, k, l \in Ends :
    SaidOf(k, t) /\ SaidOf(l, t) => k = l /\ said[Notice(k, t)] = 1

\* A task that was never delegated has no copy.
UnboundHasNoCopy == \A t \in Tasks : ledger[t] = "Unbound" => copy[t] = "None"

\* What the watch remembers as told was said.
ToldIsSaid ==
  /\ \A t \in notified : SaidOf("NotReached", t)
  /\ \A t \in told : SaidOf("Uncertain", t)

\* Who was told that a task did not reach its worker is still to be corrected,
\* was corrected, or needs no correction.
NotReachedKept ==
  \A t \in Tasks :
    SaidOf("NotReached", t) =>
      \/ t \in notified
      \/ copy[t] \in {"MaxDeliver", "Cancelled", "Superseded", "AgentExited"}
      \/ /\ copy[t] = "Acknowledged"
         /\ SaidOf("LateNotReached", t) \/ SaidOf("Undeliverable", t)

\* A remembered Cancel is one the latch has, and it leads nowhere else.
CancelsLatched ==
  /\ Range(cancelled) \subseteq latch
  /\ \A t \in latch : model[t] \in {"CancelHeld", "Cancelled", "Settled", "Gone"}

\* A late acknowledgement can only be of a task said to be undeliverable.
LateIsSaid ==
  \A t \in Range(late) :
    /\ SaidOf("Undeliverable", t)
    /\ ~LiveCopy(t)
    /\ model[t] \in {"MaxDeliver", "Settled", "Gone"}

\* A task once corrected cannot be corrected through the other record.
CorrectedOf(t) ==
  /\ SaidOf("AfterAll", t) =>
       /\ t \in corrected
       /\ t \in latch \/ SaidOf("NotReached", t) \/ SaidOf("Uncertain", t)
       /\ model[t] \in {"Cancelled", "Settled", "Gone"}
       /\ said[Notice("AfterAll", t)] = 1
       /\ ~SaidOf("LateUndeliverable", t)
  /\ SaidOf("LateUndeliverable", t) =>
       /\ SaidOf("Undeliverable", t)
       /\ model[t] \in {"Settled", "Gone"}
       /\ said[Notice("LateUndeliverable", t)] = 1
  /\ SaidOf("LateNotReached", t) => SaidOf("NotReached", t)

CorrectedForGood == \A t \in Tasks : CorrectedOf(t)

EndsInv == SaidShape /\ WithheldShape /\ WithheldUntold /\ EndedForGood /\ EndsOnce

CorrectionsInv ==
  /\ UnboundHasNoCopy
  /\ ToldIsSaid
  /\ NotReachedKept
  /\ CancelsLatched
  /\ LateIsSaid
  /\ CorrectedForGood
-----------------------------------------------------------------------------
(* Notices are told apart by kind and task, and each that is owed is counted *)
(* once.                                                                    *)

LEMMA NoticeIs ==
  ASSUME NEW k, NEW t, NEW l, NEW T
  PROVE  /\ Notice(k, t).kind = k
         /\ Notice(k, t).tasks = {t}
         /\ Notice(k, t) \in Notices(l, T) <=> k = l /\ t \in T
         /\ Notice(k, t) \in WorkerExited(T) => k = "WorkerExited"
  BY DEF Notice, Notices, WorkerExited

\* A notice that may be owed.
Proper(n) == n.kind = "WorkerExited" \/ \E k \in Kinds, t \in Tasks : n = Notice(k, t)

LEMMA OwedIsCounted ==
  ASSUME SaidShape, NEW ns, \A n \in ns : Proper(n), Owe(ns)
  PROVE  /\ BagToSet(said') = BagToSet(said) \cup ns
         /\ \A n \in BagToSet(said) : n \notin ns => said'[n] = said[n]
         /\ \A n \in ns : n \notin BagToSet(said) => said'[n] = 1
         /\ SaidShape'
<1>1. BagToSet(said') = BagToSet(said) \cup ns
  BY Oweing
<1>2. \A n \in BagToSet(said') :
        said'[n] = (IF n \in BagToSet(said) THEN said[n] ELSE 0)
                     + (IF n \in ns THEN 1 ELSE 0)
  BY <1>1 DEF Owe, BagToSet, SetToBag, (+), BagIn
<1>3. QED
  BY <1>1, <1>2 DEF SaidShape, Proper

-----------------------------------------------------------------------------
(* Ends are told once.                                                      *)

\* A step that tells no end, brings no ended task back to life and withholds
\* nothing.
LEMMA NoEndStep ==
  ASSUME EndsInv, IInv, IInv',
         UNCHANGED said \/ \E ns : Owe(ns) /\ \A n \in ns : Proper(n) /\ n.kind \notin Ends,
         \A t \in DOMAIN claims' :
           IF t \in DOMAIN claims THEN claims'[t] = claims[t]
           ELSE claims'[t].withheld = {},
         \A t \in Tasks :
           /\ LiveCopy(t)' => LiveCopy(t) \/ ledger[t] = "Unbound"
           /\ OpenTask(t)' => OpenTask(t) \/ ledger[t] = "Unbound"
           /\ ledger'[t] = "Unbound" => ledger[t] = "Unbound"
           /\ delivery'[t] = "Live" => delivery[t] = "Live"
  PROVE  EndsInv'
<1>1. /\ SaidShape'
      /\ \A k \in Ends, t \in Tasks :
           /\ Notice(k, t) \in BagToSet(said') <=> Notice(k, t) \in BagToSet(said)
           /\ Notice(k, t) \in BagToSet(said') => said'[Notice(k, t)] = said[Notice(k, t)]
  <2>1. CASE UNCHANGED said
    BY <2>1 DEF EndsInv, SaidShape
  <2>2. CASE \E ns : Owe(ns) /\ \A n \in ns : Proper(n) /\ n.kind \notin Ends
    <3>1. PICK ns : Owe(ns) /\ \A n \in ns : Proper(n) /\ n.kind \notin Ends
      BY <2>2
    <3>2. \A k \in Ends, t \in Tasks : Notice(k, t) \notin ns
      BY <3>1, NoticeIs
    <3>3. QED
      BY <3>1, <3>2, OwedIsCounted DEF EndsInv
  <2>3. QED
    BY <2>1, <2>2
<1>2. DOMAIN claims' \subseteq Tasks
  BY DEF IInv, ClaimsExact
<1>3. EndedForGood' /\ EndsOnce'
  BY <1>1 DEF EndsInv, EndedForGood, EndsOnce, EndSaid, SaidOf
<1>4. WithheldShape' /\ WithheldUntold'
  <2>1. ASSUME NEW t \in DOMAIN claims', claims'[t].withheld # {}
        PROVE  /\ t \in DOMAIN claims /\ claims'[t] = claims[t] /\ t \in Tasks
               /\ LiveCopy(t)' => LiveCopy(t)
               /\ EndSaid(t)' <=> EndSaid(t)
    BY <2>1, <1>1, <1>2 DEF IInv, ClaimsExact, EndSaid, SaidOf
  <2>2. QED
    BY <2>1 DEF EndsInv, WithheldShape, WithheldUntold
<1>5. QED
  BY <1>1, <1>3, <1>4 DEF EndsInv

\* The steps that tell no end.
LEMMA NoEnds ==
  ASSUME EndsInv, IInv, IInv',
         \/ Delegating
         \/ \E t \in Tasks : \/ HandOut(t) \/ Requeue(t) \/ Lapse(t) \/ Regain(t)
                             \/ Commit(t) \/ Cancel(t, FALSE)
                             \/ Claim(t) \/ CommitClaim(t)
         \/ \E due \in SUBSET watches : Overdue(due)
         \/ Posting
         \/ UNCHANGED vars
  PROVE  EndsInv'
<1> USE DEF LiveCopy, OpenTask
<1>1. CASE Delegating
  <2>1. UNCHANGED said /\ claims' = claims /\ delivery' = delivery
    BY <1>1 DEF Delegating, Delegate, RetireForRestart, SupersedeForRestart, Silent, reports
  <2>2. \A t \in Tasks :
           /\ LiveCopy(t)' => LiveCopy(t) \/ ledger[t] = "Unbound"
           /\ OpenTask(t)' => OpenTask(t) \/ ledger[t] = "Unbound"
           /\ ledger'[t] = "Unbound" => ledger[t] = "Unbound"
    BY <1>1 DEF IInv, Shapes, Delegating, Delegate, RetireForRestart, SupersedeForRestart,
       Superseded, SupersedeTasks, reports
  <2>3. QED
    BY <2>1, <2>2, NoEndStep
<1>2. ASSUME NEW t \in Tasks, HandOut(t) \/ Requeue(t) \/ Regain(t) \/ Cancel(t, FALSE)
      PROVE  EndsInv'
  <2>1. UNCHANGED <<said, claims, delivery, ledger>>
    BY <1>2 DEF HandOut, Requeue, Regain, Cancel, Silent, reports
  <2>2. \A u \in Tasks : LiveCopy(u)' => LiveCopy(u)
    BY <1>2 DEF IInv, Shapes, HandOut, Requeue, Regain, Cancel
  <2>3. QED
    BY <2>1, <2>2, NoEndStep
<1>3. ASSUME NEW t \in Tasks, Lapse(t)
      PROVE  EndsInv'
  <2>1. PICK T \in SUBSET Tasks : Owe(Notices("Uncertain", T))
    <3>1. ({u \in {t} : LiveCopy(u)} \cap watches) \ told \in SUBSET Tasks
      OBVIOUS
    <3>2. QED
      BY <1>3, <3>1 DEF Lapse
  <2>2. \A n \in Notices("Uncertain", T) : Proper(n) /\ n.kind \notin Ends
    BY DEF Proper, Notices, Notice, Kinds, Reports, Ends
  <2>3. UNCHANGED <<claims, delivery, ledger, copy>>
    BY <1>3 DEF Lapse, reports
  <2>4. QED
    BY <2>1, <2>2, <2>3, NoEndStep
<1>4. ASSUME NEW due \in SUBSET watches, Overdue(due)
      PROVE  EndsInv'
  <2>1. PICK T \in SUBSET Tasks : Owe(Notices("NotReached", T))
    <3>1. {t \in due \ notified : copy[t] = "Queued"} \in SUBSET Tasks
      BY DEF IInv, Shapes
    <3>2. QED
      BY <1>4, <3>1 DEF Overdue
  <2>2. \A n \in Notices("NotReached", T) : Proper(n) /\ n.kind \notin Ends
    BY DEF Proper, Notices, Notice, Kinds, Reports, Ends
  <2>3. UNCHANGED <<claims, delivery, ledger, copy>>
    BY <1>4 DEF Overdue, reports
  <2>4. QED
    BY <2>1, <2>2, <2>3, NoEndStep
<1>5. ASSUME NEW t \in Tasks, Commit(t)
      PROVE  EndsInv'
  <2>1. PICK A \in SUBSET Tasks, B \in SUBSET Tasks, C \in SUBSET Tasks :
          Owe(Notices("AfterAll", A) \cup Notices("LateUndeliverable", B)
                \cup Notices("LateNotReached", C))
    BY <1>5 DEF Commit
  <2>2. \A n \in Notices("AfterAll", A) \cup Notices("LateUndeliverable", B)
                   \cup Notices("LateNotReached", C) : Proper(n) /\ n.kind \notin Ends
    BY DEF Proper, Notices, Notice, Kinds, Corrections, Ends
  <2>3. /\ UNCHANGED <<claims, ledger>>
        /\ \A u \in Tasks : /\ LiveCopy(u)' => LiveCopy(u)
                            /\ delivery'[u] = "Live" => delivery[u] = "Live"
    BY <1>5 DEF Commit, Delivered, IInv, Shapes
  <2>4. QED
    BY <2>1, <2>2, <2>3, NoEndStep
<1>6. ASSUME NEW t \in Tasks, Claim(t) \/ CommitClaim(t)
      PROVE  EndsInv'
  <2>1. UNCHANGED <<said, delivery>>
    BY <1>6 DEF Claim, CommitClaim, Silent
  <2>2. \A u \in DOMAIN claims' :
           IF u \in DOMAIN claims THEN claims'[u] = claims[u]
           ELSE claims'[u].withheld = {}
    <3>1. CASE Claim(t)
      <4>1. t \notin DOMAIN claims
        BY <3>1 DEF Claim, IInv, ClaimsExact
      <4>2. QED
        BY <3>1, <4>1 DEF Claim
    <3>2. CASE CommitClaim(t)
      BY <3>2 DEF CommitClaim, Restrict
    <3>3. QED
      BY <1>6, <3>1, <3>2
  <2>3. \A u \in Tasks :
           /\ LiveCopy(u)' => LiveCopy(u)
           /\ OpenTask(u)' => OpenTask(u)
           /\ ledger'[u] = "Unbound" => ledger[u] = "Unbound"
    BY <1>6 DEF IInv, Shapes, Claim, CommitClaim, Superseded
  <2>4. QED
    BY <2>1, <2>2, <2>3, NoEndStep
<1>7. CASE Posting \/ UNCHANGED vars
  <2>1. UNCHANGED <<said, claims, delivery, ledger, copy>>
    BY <1>7 DEF Posting, TakeOwed, PostOne, GiveBack, Depart, Silent, lives, vars, reports
  <2>2. QED
    BY <2>1, NoEndStep
<1>8. QED
  BY <1>1, <1>2, <1>3, <1>4, <1>5, <1>6, <1>7

\* A verdict tells the end of a live copy, of which no end was told.
LEMMA EndCopyEnds ==
  ASSUME EndsInv, IInv, IInv', NEW t \in Tasks, NEW kind \in Ends, NEW reason,
         reason \in {"MaxDeliver", "Cancelled"},
         EndCopy(t, reason, kind),
         UNCHANGED <<ledger, claims>>
  PROVE  EndsInv'
<1>1. CASE ~LiveCopy(t)
  BY <1>1, NoEndStep DEF EndCopy, Silent, LiveCopy, OpenTask
<1>2. CASE LiveCopy(t)
  <2>1. Owe(Notices(kind, {t}))
    <3>1. {t} \cap watches = {t}
      BY <1>2 DEF IInv, LiveIsWatched
    <3>2. QED
      BY <1>2, <3>1 DEF EndCopy
  <2>2. \A n \in Notices(kind, {t}) : Proper(n) /\ n = Notice(kind, t)
    BY DEF Proper, Notices, Notice, Kinds
  <2>3. /\ BagToSet(said') = BagToSet(said) \cup {Notice(kind, t)}
        /\ \A n \in BagToSet(said) : n # Notice(kind, t) => said'[n] = said[n]
        /\ Notice(kind, t) \notin BagToSet(said) => said'[Notice(kind, t)] = 1
        /\ SaidShape'
    <3>1. Notices(kind, {t}) = {Notice(kind, t)}
      BY DEF Notices, Notice
    <3>2. QED
      BY <2>1, <2>2, <3>1, OwedIsCounted DEF EndsInv
  <2>4. ~EndSaid(t)
    BY <1>2 DEF EndsInv, EndedForGood
  <2>5. \A k, u : Notice(k, u) = Notice(kind, t) <=> k = kind /\ u = t
    BY DEF Notice
  <2>6. EndsOnce'
    BY <2>3, <2>4, <2>5 DEF EndsInv, EndsOnce, EndSaid, SaidOf
  <2>7. /\ copy' = [copy EXCEPT ![t] = reason]
        /\ delivery' = Delivered(t, "Ended")
    BY <1>2 DEF EndCopy
  <2>8. EndedForGood'
    BY <1>2, <2>3, <2>5, <2>7 DEF EndsInv, EndedForGood, EndSaid, SaidOf, Delivered, LiveCopy,
       OpenTask, IInv, Shapes, WatchedReportable, LiveIsWatched
  <2>9. WithheldShape' /\ WithheldUntold'
    BY <1>2, <2>3, <2>5, <2>7 DEF EndsInv, WithheldShape, WithheldUntold, EndSaid, SaidOf,
       LiveCopy, IInv, Shapes, ClaimsExact
  <2>10. QED
    BY <2>3, <2>6, <2>8, <2>9 DEF EndsInv
<1>3. QED
  BY <1>1, <1>2

\* A failed report tells the end its claim withheld, of which none was told.
LEMMA FailClaimEnds ==
  ASSUME EndsInv, IInv, IInv', NEW t \in Tasks, FailClaim(t)
  PROVE  EndsInv'
<1> DEFINE ns == claims[t].withheld
<1>1. t \in DOMAIN claims /\ ledger[t] = "Reporting"
  BY DEF FailClaim, IInv, ClaimsExact
<1>2. \A n \in ns : n.kind = "WorkerExited" \/ n = Notice("Exited", t)
  BY <1>1 DEF EndsInv, WithheldShape
<1>3. \A n \in ns : Proper(n)
  BY <1>2 DEF Proper, Kinds, Ends
<1>4. /\ BagToSet(said') = BagToSet(said) \cup ns
      /\ \A n \in BagToSet(said) : n \notin ns => said'[n] = said[n]
      /\ \A n \in ns : n \notin BagToSet(said) => said'[n] = 1
      /\ SaidShape'
  BY <1>3, OwedIsCounted DEF FailClaim, EndsInv
<1>5. \A k \in Ends, u \in Tasks : Notice(k, u) \in ns => k = "Exited" /\ u = t
  <2>1. \A k \in Ends, u \in Tasks : Notice(k, u).kind = k /\ k # "WorkerExited"
    BY NoticeIs DEF Ends
  <2>2. \A k, u : Notice(k, u) = Notice("Exited", t) => k = "Exited" /\ u = t
    BY DEF Notice
  <2>3. QED
    BY <1>2, <2>1, <2>2
<1>6. Notice("Exited", t) \in ns => claims[t].gone /\ ~LiveCopy(t) /\ ~EndSaid(t)
  BY <1>1 DEF EndsInv, WithheldUntold
<1> HIDE DEF ns
<1>7. EndsOnce'
  BY <1>4, <1>5, <1>6 DEF EndsInv, EndsOnce, EndSaid, SaidOf
<1>8. /\ UNCHANGED <<copy, delivery>>
      /\ ledger' = [ledger EXCEPT ![t] = IF claims[t].gone THEN "Closed" ELSE "Open"]
      /\ DOMAIN claims' = DOMAIN claims \ {t}
      /\ \A u \in DOMAIN claims \ {t} : claims'[u] = claims[u]
  BY <1>1 DEF FailClaim, Restrict, OpenTask
<1>9. EndedForGood'
  <2> SUFFICES ASSUME NEW u \in Tasks, EndSaid(u)'
               PROVE  /\ ~LiveCopy(u)'
                      /\ ledger'[u] # "Unbound"
                      /\ delivery'[u] = "Live" => ~OpenTask(u)'
    BY DEF EndedForGood
  <2>1. CASE EndSaid(u)
    BY <2>1, <1>1, <1>8 DEF EndsInv, EndedForGood, LiveCopy, OpenTask, IInv, Shapes
  <2>2. CASE ~EndSaid(u)
    <3>1. u = t /\ Notice("Exited", t) \in ns
      BY <2>2, <1>4, <1>5 DEF EndSaid, SaidOf
    <3>2. QED
      BY <3>1, <1>1, <1>6, <1>8 DEF LiveCopy, OpenTask, IInv, Shapes
  <2>3. QED
    BY <2>1, <2>2
<1>10. \A u \in DOMAIN claims' :
          /\ u \in DOMAIN claims /\ u \in Tasks /\ u # t
          /\ claims'[u] = claims[u]
          /\ LiveCopy(u)' <=> LiveCopy(u)
          /\ EndSaid(u)' <=> EndSaid(u)
  BY <1>4, <1>5, <1>8 DEF IInv, ClaimsExact, LiveCopy, EndSaid, SaidOf
<1>11. WithheldShape' /\ WithheldUntold'
  <2>1. WithheldShape'
    BY <1>10 DEF EndsInv, WithheldShape
  <2>2. WithheldUntold'
    BY <1>10 DEF EndsInv, WithheldUntold
  <2>3. QED
    BY <2>1, <2>2
<1>12. QED
  BY <1>4, <1>7, <1>9, <1>11 DEF EndsInv

\* An exit tells, or withholds, the end of the open tasks the walk finds live,
\* of which none was told, and closes or keeps them.
LEMMA ExitEnds ==
  ASSUME EndsInv, IInv, IInv', NEW g \in Generations, NEW kind \in {"Natural", "Removed"},
         Exit(g, kind)
  PROVE  EndsInv'
<1> DEFINE W == {t \in Tasks : Worker[t] = g /\ OpenTask(t)}
           L == {t \in Tasks : Worker[t] = g /\ LiveCopy(t)}
           live == {t \in Tasks : delivery[t] = "Live"}
           ended == IF kind = "Natural" THEN Tasks \ live ELSE {}
           open == {t \in W : ledger[t] = "Open"}
           unseen == L \ (walked \cup (W \cap live))
           ns == ExitOwes(W, L, live, ended)
<1>1. L \subseteq W \cap live /\ unseen = {}
  BY DEF IInv, Shapes, LiveIsWatched, WatchedReportable, LiveCopyLive
<1>2. ns = Notices("Exited", open \cap live) \cup WorkerExited(open \cap ended)
  <2>1. (L \cap watches) \ (walked \cup (W \cap live)) = {}
    BY <1>1
  <2>2. Notices("Exited", {}) = {}
    BY DEF Notices
  <2>3. QED
    BY <2>1, <2>2 DEF ExitOwes
<1>3. \A n \in ns : Proper(n)
  <2> DEFINE reached == open \cap live
             lost == open \cap ended
  <2>1. ns = Notices("Exited", reached) \cup WorkerExited(lost)
    BY <1>2
  <2>2. "Exited" \in Kinds /\ reached \subseteq Tasks
    BY DEF Kinds, Ends
  <2> HIDE DEF reached, lost, ns
  <2>3. QED
    BY <2>1, <2>2 DEF Proper, Notices, Notice, WorkerExited
<1>4. \A k \in Ends, u \in Tasks :
         Notice(k, u) \in ns <=> k = "Exited" /\ u \in open \cap live
  <2> DEFINE reached == open \cap live
             lost == open \cap ended
  <2>1. ns = Notices("Exited", reached) \cup WorkerExited(lost)
    BY <1>2
  <2> HIDE DEF reached, lost, ns
  <2>2. \A k, u : /\ Notice(k, u) \in Notices("Exited", reached) <=> k = "Exited" /\ u \in reached
                  /\ Notice(k, u) \in WorkerExited(lost) => k = "WorkerExited"
    BY DEF Notice, Notices, WorkerExited
  <2>3. \A k \in Ends : k # "WorkerExited"
    BY DEF Ends
  <2>4. \A k \in Ends, u \in Tasks : Notice(k, u) \in ns <=> k = "Exited" /\ u \in reached
    BY <2>1, <2>2, <2>3
  <2>5. QED
    BY <2>4 DEF reached
<1>5. /\ ledger' = [t \in Tasks |-> IF t \in open THEN "Closed" ELSE ledger[t]]
      /\ DOMAIN claims' = DOMAIN claims
      /\ \A t \in DOMAIN claims : t \notin W => claims'[t] = claims[t]
      /\ \A t \in DOMAIN claims \cap W : claims'[t].gone = TRUE
      /\ \A t \in DOMAIN claims \cap W :
           claims'[t].withheld = claims[t].withheld \cup Notices("Exited", {t} \cap live)
                                   \cup WorkerExited({t} \cap ended)
      /\ copy' = [t \in Tasks |-> IF t \in L THEN "AgentExited" ELSE copy[t]]
      /\ delivery' = delivery
  BY <1>1 DEF Exit
<1>6. /\ BagToSet(said') = BagToSet(said) \cup ns
      /\ \A n \in BagToSet(said) : n \notin ns => said'[n] = said[n]
      /\ \A n \in ns : n \notin BagToSet(said) => said'[n] = 1
      /\ SaidShape'
  <2>1. Owe(ns)
    BY DEF Exit
  <2> HIDE DEF ns
  <2>2. QED
    BY <1>3, <2>1, OwedIsCounted DEF EndsInv
<1> HIDE DEF ns
\* No end was told of what the walk finds live.
<1>7. \A t \in W \cap live : ~EndSaid(t)
  BY DEF EndsInv, EndedForGood
<1>8. /\ \A t \in Tasks : EndSaid(t)' <=> EndSaid(t) \/ t \in open \cap live
      /\ \A t \in Tasks : LiveCopy(t)' <=> LiveCopy(t) /\ t \notin L
  <2>1. "Exited" \in Ends
    BY DEF Ends
  <2>2. QED
    BY <2>1, <1>4, <1>5, <1>6 DEF EndSaid, SaidOf, LiveCopy, IInv, Shapes
<1>9. EndsOnce'
  BY <1>4, <1>6, <1>7 DEF EndsInv, EndsOnce, EndSaid, SaidOf
<1>10. EndedForGood'
  BY <1>1, <1>5, <1>8 DEF EndsInv, EndedForGood, OpenTask, LiveCopy, IInv, Shapes
<1>11. DOMAIN claims \subseteq Tasks /\ \A t \in DOMAIN claims : ledger[t] = "Reporting"
  BY DEF IInv, ClaimsExact
<1>12. WithheldShape'
  <2> SUFFICES ASSUME NEW t \in DOMAIN claims, NEW n \in claims'[t].withheld
               PROVE  n.kind = "WorkerExited" \/ n = Notice("Exited", t)
    BY <1>5 DEF WithheldShape
  <2>1. CASE n \in claims[t].withheld
    BY <2>1 DEF EndsInv, WithheldShape
  <2>2. CASE n \in Notices("Exited", {t} \cap live)
    BY <2>2 DEF Notices, Notice
  <2>3. CASE n \in WorkerExited({t} \cap ended)
    BY <2>3 DEF WorkerExited
  <2>4. QED
    BY <1>5, <2>1, <2>2, <2>3
<1>13. WithheldUntold'
  <2> SUFFICES ASSUME NEW t \in DOMAIN claims, Notice("Exited", t) \in claims'[t].withheld
               PROVE  claims'[t].gone /\ ~LiveCopy(t)' /\ ~EndSaid(t)'
    BY <1>5 DEF WithheldUntold
  <2>1. t \in Tasks /\ t \notin open
    BY <1>11
  <2>2. CASE Notice("Exited", t) \in claims[t].withheld
    BY <2>1, <2>2, <1>5, <1>8 DEF EndsInv, WithheldUntold
  <2>3. CASE Notice("Exited", t) \notin claims[t].withheld
    <3>1. t \in W /\ t \in live
      <4>1. t \in W
        BY <2>3, <1>5
      <4> DEFINE one == {t} \cap live
                 lost == {t} \cap ended
      <4>2. claims'[t].withheld = claims[t].withheld \cup Notices("Exited", one) \cup WorkerExited(lost)
        BY <4>1, <1>5
      <4> HIDE DEF one, lost
      <4>3. /\ Notice("Exited", t) \notin WorkerExited(lost)
            /\ Notice("Exited", t) \in Notices("Exited", one) => t \in one
        BY NoticeIs
      <4>4. t \in one
        BY <2>3, <4>2, <4>3
      <4>5. QED
        BY <4>1, <4>4 DEF one
    <3>2. QED
      BY <2>1, <3>1, <1>5, <1>7, <1>8 DEF LiveCopy
  <2>4. QED
    BY <2>2, <2>3
<1>14. QED
  BY <1>6, <1>9, <1>10, <1>12, <1>13 DEF EndsInv

LEMMA EndsInit == Init => EndsInv
  BY DEF Init, EndsInv, SaidShape, WithheldShape, WithheldUntold, EndedForGood, EndsOnce,
     EndSaid, SaidOf, BagToSet, EmptyBag, SetToBag

LEMMA EndsStep == IInv /\ IInv' /\ EndsInv /\ [Next]_vars => EndsInv'
<1> SUFFICES ASSUME IInv, IInv', EndsInv, [Next]_vars
             PROVE  EndsInv'
  OBVIOUS
<1>1. ASSUME NEW t \in Tasks, OutOfAttempts(t)
      PROVE  EndsInv'
  BY <1>1, EndCopyEnds DEF OutOfAttempts, Ends
<1>2. ASSUME NEW t \in Tasks, CancelDone(t)
      PROVE  EndsInv'
  BY <1>2, EndCopyEnds DEF CancelDone, Ends
<1>3. ASSUME NEW t \in Tasks, NEW final \in BOOLEAN, Cancel(t, final)
      PROVE  EndsInv'
  <2>1. CASE final
    BY <1>3, <2>1, EndCopyEnds DEF Cancel, Ends
  <2>2. CASE final = FALSE
    BY <1>3, <2>2, NoEnds
  <2>3. QED
    BY <2>1, <2>2
<1>4. CASE Delegating \/ Posting \/ UNCHANGED vars
  BY <1>4, NoEnds
<1>5. CASE Delivering
  BY <1>5, <1>1, <1>2, <1>3, NoEnds DEF Delivering
<1>6. CASE Reporting
  BY <1>6, ExitEnds, FailClaimEnds, NoEnds DEF Reporting
<1>7. QED
  BY <1>4, <1>5, <1>6 DEF Next

-----------------------------------------------------------------------------
(* The two bounded memories, and the type invariant.                        *)

\* What a memory of at most max tasks may be.
Memory(s, max) == s \in Seq(Tasks) /\ Len(s) <= max /\ IsInjective(s)

LEMMA Remembers ==
  ASSUME NEW s, NEW max \in Nat \ {0}, Memory(s, max), NEW t \in Tasks
  PROVE  Memory(Remember(s, t, max), max) /\ Range(Remember(s, t, max)) \subseteq Range(s) \cup {t}
  BY DEF Memory, Remember, Range, IsInjective

LEMMA Outlives ==
  ASSUME NEW s, NEW max \in Nat, Memory(s, max), NEW n \in 0 .. Len(s)
  PROVE  /\ Memory(SubSeq(s, n + 1, Len(s)), max)
         /\ Range(SubSeq(s, n + 1, Len(s))) \subseteq Range(s)
<1> DEFINE u == SubSeq(s, n + 1, Len(s))
<1>0. s \in Seq(Tasks) /\ Len(s) \in Nat /\ Len(s) <= max /\ IsInjective(s)
  BY DEF Memory
<1>1. /\ u \in Seq(Tasks) /\ Len(u) = Len(s) - n
      /\ \A j \in 1 .. Len(u) : u[j] = s[n + j]
  BY <1>0
<1> HIDE DEF u
<1>2. Memory(u, max)
  <2>1. IsInjective(u)
    <3>1. DOMAIN u = 1 .. Len(u) /\ DOMAIN s = 1 .. Len(s)
      BY <1>0, <1>1
    <3>2. \A a \in DOMAIN u : n + a \in DOMAIN s /\ u[a] = s[n + a]
      BY <1>0, <1>1, <3>1
    <3>3. ASSUME NEW a \in DOMAIN u, NEW b \in DOMAIN u, u[a] = u[b]
          PROVE  a = b
      <4>1. n + a = n + b
        BY <3>2, <3>3, <1>0, Zenon DEF IsInjective
      <4>2. QED
        BY <4>1, <3>1, <1>1
    <3>4. QED
      BY <3>3 DEF IsInjective
  <2>2. Len(u) <= max
    BY <1>0, <1>1
  <2>3. QED
    BY <1>1, <2>1, <2>2 DEF Memory
<1>3. Range(u) \subseteq Range(s)
  <2>1. DOMAIN u = 1 .. Len(u) /\ DOMAIN s = 1 .. Len(s)
    BY <1>0, <1>1
  <2>2. \A a \in DOMAIN u : n + a \in DOMAIN s /\ u[a] = s[n + a]
    BY <1>0, <1>1, <2>1
  <2>3. QED
    BY <2>2, Zenon DEF Range
<1>4. QED
  BY <1>2, <1>3 DEF u

LEMMA Forgets ==
  ASSUME NEW s, NEW max \in Nat, Memory(s, max), NEW t
  PROVE  Memory(Forget(s, t), max) /\ Range(Forget(s, t)) \subseteq Range(s)
<1>0. s \in Seq(Tasks) /\ Len(s) \in Nat /\ Len(s) <= max /\ IsInjective(s)
  BY DEF Memory
<1> DEFINE I == {i \in 1 .. Len(s) : s[i] = t}
<1>1. CASE I = {}
  <2>1. ~ \E i \in 1 .. Len(s) : s[i] = t
    BY <1>1
  <2>2. Forget(s, t) = s
    BY <2>1 DEF Forget, RemoveFirst
  <2>3. QED
    BY <2>2
<1>2. CASE I # {}
  <2> DEFINE k == Min(I)
             front == SubSeq(s, 1, k - 1)
             back == SubSeq(s, k + 1, Len(s))
             f == front \o back
  <2>0. \E i \in 1 .. Len(s) : s[i] = t
    BY <1>2
  <2>1. I \subseteq Nat
    BY <1>0
  <2>2. Forget(s, t) = f
    <3>1. Forget(s, t) = RemoveAt(s, SelectInSeq(s, LAMBDA v : v = t))
      BY <2>0, Zenon DEF Forget, RemoveFirst
    <3>2. SelectInSeq(s, LAMBDA v : v = t) = k
      BY <1>2 DEF SelectInSeq
    <3>3. QED
      BY <3>1, <3>2, Zenon DEF RemoveAt
  <2>3. k \in I
    <3> HIDE DEF I
    <3>1. QED
      BY <1>2, <2>1, MinExists
  <2> HIDE DEF k
  <2>4. k \in 1 .. Len(s) /\ s[k] = t
    BY <2>3
  <2>5. /\ front \in Seq(Tasks) /\ Len(front) = k - 1
        /\ back \in Seq(Tasks) /\ Len(back) = Len(s) - k
        /\ \A j \in 1 .. k - 1 : front[j] = s[j]
        /\ \A j \in 1 .. Len(s) - k : back[j] = s[k + j]
    BY <1>0, <2>4
  <2> HIDE DEF front, back
  <2>6. /\ f \in Seq(Tasks) /\ Len(f) = Len(s) - 1
        /\ \A j \in 1 .. Len(f) : f[j] = IF j < k THEN s[j] ELSE s[j + 1]
    <3>1. front \in Seq(Tasks) /\ back \in Seq(Tasks)
      BY <2>5
    <3>2. /\ f \in Seq(Tasks)
          /\ Len(f) = Len(front) + Len(back)
          /\ \A j \in 1 .. Len(front) + Len(back) :
               f[j] = IF j <= Len(front) THEN front[j] ELSE back[j - Len(front)]
      BY <3>1, ConcatProperties, Zenon
    <3> HIDE DEF f
    <3>3. Len(s) \in Nat /\ k \in Nat /\ Len(f) = Len(s) - 1 /\ Len(front) = k - 1
      BY <1>0, <2>4, <2>5, <3>2
    <3>4. ASSUME NEW j \in 1 .. Len(f)
          PROVE  f[j] = IF j < k THEN s[j] ELSE s[j + 1]
      <4>1. CASE j < k
        BY <4>1, <2>4, <2>5, <3>2, <3>3
      <4>2. CASE ~(j < k)
        <5>1. f[j] = back[j - (k - 1)]
          BY <4>2, <2>4, <2>5, <3>2, <3>3
        <5>2. j - (k - 1) \in 1 .. Len(s) - k /\ k + (j - (k - 1)) = j + 1
          BY <4>2, <2>4, <3>3
        <5>3. back[j - (k - 1)] = s[k + (j - (k - 1))]
          BY <2>5, <5>2
        <5>4. QED
          BY <4>2, <5>1, <5>2, <5>3
      <4>3. QED
        BY <4>1, <4>2
    <3>5. QED
      BY <3>2, <3>3, <3>4
  <2> HIDE DEF f
  <2>7. Range(f) \subseteq Range(s)
    BY <1>0, <2>4, <2>6 DEF Range
  <2>8. IsInjective(f)
    <3> DEFINE at(j) == IF j < k THEN j ELSE j + 1
    <3>1. DOMAIN f = 1 .. Len(f) /\ DOMAIN s = 1 .. Len(s)
      BY <1>0, <2>6
    <3>2. \A a \in DOMAIN f : at(a) \in DOMAIN s /\ f[a] = s[at(a)]
      BY <1>0, <2>4, <2>6, <3>1
    <3>3. \A a, b \in DOMAIN f : at(a) = at(b) => a = b
      BY <1>0, <2>4, <3>1
    <3> HIDE DEF at
    <3>4. QED
      BY <1>0, <3>2, <3>3, Zenon DEF IsInjective
  <2>9. QED
    BY <1>0, <2>2, <2>6, <2>7, <2>8 DEF Memory
<1>3. QED
  BY <1>1, <1>2

\* What a step may do to the type's parts, one by one.
LEMMA TypesInit == Init => TypeOK
<1> SUFFICES ASSUME Init PROVE TypeOK
  OBVIOUS
<1>1. Memory(<<>>, MaxCancelled) /\ Memory(<<>>, MaxLate)
  BY NoticeConstants DEF Memory, IsInjective
<1>2. DOMAIN claims = {}
  BY DEF Init
<1>3. QED
  BY <1>1, <1>2 DEF Init, TypeOK, Memory, ModelStates, CopyStates, LedgerStates

\* The parts of the state that have a simple type.
Plain ==
  /\ model \in [Tasks -> ModelStates]
  /\ copy \in [Tasks -> CopyStates]
  /\ ledger \in [Tasks -> LedgerStates]
  /\ delivery \in [Tasks -> {"Live", "Acknowledged", "Ended"}]
  /\ latch \subseteq Tasks /\ corrected \subseteq Tasks /\ watches \subseteq Tasks
  /\ notified \subseteq Tasks /\ told \subseteq Tasks /\ walked \subseteq Tasks
  /\ DOMAIN claims \subseteq Tasks
  /\ gone \subseteq Generations /\ restarting \subseteq Restarted
  /\ absent \subseteq Orchestrators

LEMMA TypeParts == TypeOK <=> Plain /\ Memory(cancelled, MaxCancelled) /\ Memory(late, MaxLate)
  BY DEF TypeOK, Plain, Memory

LEMMA PlainStep == Plain /\ [Next]_vars => Plain'
<1> SUFFICES ASSUME Plain, [Next]_vars PROVE Plain'
  OBVIOUS
<1> USE DEF attempts, tables, records, reports, lives
<1>1. CASE UNCHANGED vars
  BY <1>1 DEF vars, Plain
<1>2. CASE Delegating
  <2>1. ASSUME NEW t \in Tasks, Delegate(t)
        PROVE  Plain'
    <3> DEFINE old == WatchedAt(PaneOf(t))
               below == Superseded(old)
               books == SupersedeTasks(PaneOf(t))
    <3>1. below \in [Tasks -> CopyStates] /\ books \in [Tasks -> LedgerStates]
      BY DEF Superseded, SupersedeTasks, Plain, CopyStates, LedgerStates
    <3>2. /\ copy' = [below EXCEPT ![t] = "Queued"]
          /\ ledger' = [books EXCEPT ![t] = "Open"]
          /\ watches' = (watches \ old) \cup {t}
          /\ notified' = notified \ old
          /\ told' = told \ old
          /\ UNCHANGED <<model, delivery, latch, corrected, walked, claims, gone, restarting, absent>>
      BY <2>1 DEF Delegate
    <3> HIDE DEF old, below, books
    <3>3. copy' \in [Tasks -> CopyStates] /\ ledger' \in [Tasks -> LedgerStates]
      BY <3>1, <3>2 DEF CopyStates, LedgerStates
    <3>4. QED
      BY <3>2, <3>3 DEF Plain
  <2>2. ASSUME NEW p \in Restarted, RetireForRestart(p)
        PROVE  Plain'
    BY <2>2 DEF RetireForRestart, Superseded, EndWatches, Plain, CopyStates
  <2>3. ASSUME NEW p \in Restarted, SupersedeForRestart(p)
        PROVE  Plain'
    BY <2>3 DEF SupersedeForRestart, SupersedeTasks, Plain, LedgerStates
  <2>4. QED
    BY <1>2, <2>1, <2>2, <2>3 DEF Delegating
<1>3. ASSUME NEW t \in Tasks,
             HandOut(t) \/ Requeue(t) \/ Lapse(t) \/ Regain(t)
      PROVE  Plain'
  BY <1>3 DEF HandOut, Requeue, Lapse, Regain, Plain, CopyStates, ModelStates
<1>4. ASSUME NEW t \in Tasks, OutOfAttempts(t) \/ CancelDone(t)
      PROVE  Plain'
  BY <1>4 DEF OutOfAttempts, CancelDone, EndCopy, EndWatches, Delivered, Plain, CopyStates,
     ModelStates
<1>5. ASSUME NEW t \in Tasks, NEW final \in BOOLEAN, Cancel(t, final)
      PROVE  Plain'
  BY <1>5 DEF Cancel, EndCopy, EndWatches, Delivered, Plain, CopyStates, ModelStates
<1>6. ASSUME NEW t \in Tasks, Commit(t)
      PROVE  Plain'
  BY <1>6 DEF Commit, Delivered, Plain, CopyStates, ModelStates
<1>7. ASSUME NEW due \in SUBSET watches, Overdue(due)
      PROVE  Plain'
  BY <1>7 DEF Overdue, Plain
<1>8. ASSUME NEW g \in Generations, NEW kind \in {"Natural", "Removed"}, Exit(g, kind)
      PROVE  Plain'
  BY <1>8 DEF Exit, Plain, CopyStates, ModelStates, LedgerStates
<1>9. ASSUME NEW t \in Tasks, Claim(t) \/ CommitClaim(t) \/ FailClaim(t)
      PROVE  Plain'
  BY <1>9 DEF Claim, CommitClaim, FailClaim, Restrict, Superseded, EndWatches, Plain, CopyStates,
     LedgerStates
<1>10. CASE Posting
  BY <1>10, NoticeConstants DEF Posting, TakeOwed, PostOne, GiveBack, Depart, Plain
<1>11. QED
  BY <1>1, <1>2, <1>3, <1>4, <1>5, <1>6, <1>7, <1>8, <1>9, <1>10
     DEF Next, Delivering, Reporting

\* What a step does to the two memories.
Recalls(t) ==
  /\ cancelled' = cancelled \/ cancelled' = Remember(cancelled, t, MaxCancelled)
       \/ cancelled' = Forget(cancelled, t)
  /\ late' = late \/ late' = Forget(late, t)
       \/ \E n \in 0 .. Len(late) :
            late' = Remember(SubSeq(late, n + 1, Len(late)), t, MaxLate)

LEMMA RecallsStep ==
  ASSUME [Next]_vars
  PROVE  UNCHANGED records \/ \E t \in Tasks : Recalls(t)
<1>1. CASE UNCHANGED vars
  BY <1>1 DEF vars
<1>2. CASE Delegating
  BY <1>2 DEF Delegating, Delegate, RetireForRestart, SupersedeForRestart
<1>3. ASSUME NEW t \in Tasks,
             HandOut(t) \/ Requeue(t) \/ Lapse(t) \/ Regain(t) \/ CancelDone(t)
      PROVE  UNCHANGED records
  BY <1>3 DEF HandOut, Requeue, Lapse, Regain, CancelDone
<1>4. ASSUME NEW t \in Tasks, OutOfAttempts(t)
      PROVE  Recalls(t)
  BY <1>4 DEF OutOfAttempts, Recalls
<1>5. ASSUME NEW t \in Tasks, NEW final \in BOOLEAN, Cancel(t, final)
      PROVE  Recalls(t)
  BY <1>5 DEF Cancel, Recalls
<1>6. ASSUME NEW t \in Tasks, Commit(t)
      PROVE  Recalls(t)
  BY <1>6 DEF Commit, Recalls
<1>7. ASSUME NEW due \in SUBSET watches, Overdue(due)
      PROVE  UNCHANGED records
  BY <1>7 DEF Overdue
<1>8. CASE Reporting
  BY <1>8 DEF Reporting, Exit, Claim, CommitClaim, FailClaim
<1>9. CASE Posting
  BY <1>9 DEF Posting, TakeOwed, PostOne, GiveBack, Depart
<1>10. QED
  BY <1>1, <1>2, <1>3, <1>4, <1>5, <1>6, <1>7, <1>8, <1>9 DEF Next, Delivering

LEMMA RecallsTypes ==
  ASSUME Memory(cancelled, MaxCancelled), Memory(late, MaxLate), NEW t \in Tasks, Recalls(t)
  PROVE  /\ Memory(cancelled, MaxCancelled)' /\ Memory(late, MaxLate)'
         /\ Range(cancelled') \subseteq Range(cancelled) \cup {t}
         /\ Range(late') \subseteq Range(late) \cup {t}
<1>1. MaxCancelled \in Nat \ {0} /\ MaxLate \in Nat \ {0}
  BY NoticeConstants
<1>2. Memory(cancelled', MaxCancelled) /\ Range(cancelled') \subseteq Range(cancelled) \cup {t}
  BY <1>1, Remembers, Forgets DEF Recalls
<1>3. Memory(late', MaxLate) /\ Range(late') \subseteq Range(late) \cup {t}
  <2>1. CASE late' = late
    BY <2>1
  <2>2. CASE late' = Forget(late, t)
    BY <2>2, <1>1, Forgets
  <2>3. CASE \E n \in 0 .. Len(late) :
               late' = Remember(SubSeq(late, n + 1, Len(late)), t, MaxLate)
    <3>1. PICK n \in 0 .. Len(late) :
            late' = Remember(SubSeq(late, n + 1, Len(late)), t, MaxLate)
      BY <2>3
    <3> DEFINE u == SubSeq(late, n + 1, Len(late))
    <3>2. Memory(u, MaxLate) /\ Range(u) \subseteq Range(late)
      BY <1>1, Outlives
    <3> HIDE DEF u
    <3>3. Memory(Remember(u, t, MaxLate), MaxLate)
          /\ Range(Remember(u, t, MaxLate)) \subseteq Range(u) \cup {t}
      BY <1>1, <3>2, Remembers
    <3>4. QED
      BY <3>1, <3>2, <3>3 DEF u
  <2>4. QED
    BY <2>1, <2>2, <2>3 DEF Recalls
<1>4. QED
  BY <1>2, <1>3 DEF Memory

LEMMA TypesStep == TypeOK /\ [Next]_vars => TypeOK'
<1> SUFFICES ASSUME TypeOK, [Next]_vars PROVE TypeOK'
  OBVIOUS
<1>1. Plain' /\ Memory(cancelled, MaxCancelled) /\ Memory(late, MaxLate)
  BY TypeParts, PlainStep
<1>2. CASE UNCHANGED records
  BY <1>1, <1>2 DEF TypeOK, Plain, Memory, records
<1>3. CASE \E t \in Tasks : Recalls(t)
  BY <1>1, <1>3, RecallsTypes DEF TypeOK, Plain, Memory
<1>4. QED
  BY <1>2, <1>3, RecallsStep

-----------------------------------------------------------------------------
(* Corrections.                                                             *)

\* A step that owes no notice of the kinds K.
Telling(K) ==
  UNCHANGED said \/ \E ns : Owe(ns) /\ \A n \in ns : Proper(n) /\ n.kind \notin K

LEMMA TellingKeeps ==
  ASSUME SaidShape, NEW K, Telling(K)
  PROVE  /\ \A k, t : SaidOf(k, t) => SaidOf(k, t)'
         /\ \A k \in K, t \in Tasks :
              SaidOf(k, t)' => SaidOf(k, t) /\ said'[Notice(k, t)] = said[Notice(k, t)]
<1>1. CASE UNCHANGED said
  BY <1>1 DEF SaidOf
<1>2. CASE \E ns : Owe(ns) /\ \A n \in ns : Proper(n) /\ n.kind \notin K
  <2>1. PICK ns : Owe(ns) /\ \A n \in ns : Proper(n) /\ n.kind \notin K
    BY <1>2
  <2>2. \A k \in K, t \in Tasks : Notice(k, t) \notin ns
    BY <2>1, NoticeIs
  <2>3. QED
    BY <2>1, <2>2, OwedIsCounted DEF SaidOf
<1>3. QED
  BY <1>1, <1>2 DEF Telling

LEMMA TellsOne ==
  ASSUME NEW kind \in Kinds, NEW T \in SUBSET Tasks, NEW K, kind \notin K, Owe(Notices(kind, T))
  PROVE  Telling(K)
<1>1. \A n \in Notices(kind, T) : Proper(n) /\ n.kind \notin K
  BY DEF Proper, Notices, Notice
<1>2. QED
  BY <1>1 DEF Telling

\* A verdict on a cancelled, exhausted or settled task is for good.
Onward ==
  \A t \in Tasks :
    \/ model'[t] = model[t]
    \/ model'[t] = "Gone"
    \/ model[t] \in {"None", "Queued", "Attempting", "Uncertain"}
    \/ model[t] = "CancelHeld" /\ model'[t] = "Cancelled"

\* A step that corrects nothing: what is remembered of a Cancel is latched, and
\* only a task just said to be undeliverable is remembered for a late ack.
LEMMA UncorrectingStep ==
  ASSUME CorrectionsInv, EndsInv, TypeOK, Telling(Corrections), Onward,
         UNCHANGED corrected, latch \subseteq latch', latch' \subseteq Tasks,
         Range(cancelled') \subseteq Range(cancelled) \cup latch',
         \A t \in latch' \ latch : model'[t] \in {"CancelHeld", "Cancelled"},
         \A t \in Tasks : LiveCopy(t)' => LiveCopy(t) \/ ledger[t] = "Unbound",
         \A t \in Range(late') :
           \/ t \in Range(late)
           \/ t \in Tasks /\ SaidOf("Undeliverable", t)' /\ ~LiveCopy(t)' /\ model'[t] = "MaxDeliver"
  PROVE  CorrectedForGood' /\ CancelsLatched' /\ LateIsSaid'
<1>1. /\ \A k, t : SaidOf(k, t) => SaidOf(k, t)'
      /\ \A k \in Corrections, t \in Tasks :
           SaidOf(k, t)' => SaidOf(k, t) /\ said'[Notice(k, t)] = said[Notice(k, t)]
  BY TellingKeeps DEF EndsInv
<1>2. CorrectedForGood'
  <2>1. {"AfterAll", "LateUndeliverable", "LateNotReached"} = Corrections
    BY DEF Corrections
  <2>2. QED
    BY <1>1, <2>1 DEF CorrectionsInv, CorrectedForGood, CorrectedOf, Onward
<1>3. CancelsLatched'
  BY DEF CorrectionsInv, CancelsLatched, Onward, TypeOK
<1>4. Range(late) \subseteq Tasks
  BY DEF TypeOK, Range
<1>5. \A t \in Range(late) : ledger[t] # "Unbound"
  BY <1>4 DEF CorrectionsInv, LateIsSaid, EndsInv, EndedForGood, EndSaid, Ends
<1>6. LateIsSaid'
  BY <1>1, <1>4, <1>5 DEF CorrectionsInv, LateIsSaid, Onward
<1>7. QED
  BY <1>2, <1>3, <1>6

\* A task said not to have reached its worker leaves the watch only with its
\* copy, and no copy comes back.
LEMMA UnreachedStep ==
  ASSUME CorrectionsInv, EndsInv, NEW K, Telling(K),
         \A t \in Tasks : ledger'[t] = "Unbound" => copy'[t] = "None",
         \A t \in notified' : t \in notified \/ SaidOf("NotReached", t)',
         \A t \in told' : t \in told \/ SaidOf("Uncertain", t)',
         \A t \in Tasks : SaidOf("NotReached", t)' => SaidOf("NotReached", t) \/ t \in notified',
         \A t \in Tasks :
           IF t \in notified
           THEN t \in notified' \/ copy'[t] \in {"MaxDeliver", "Cancelled", "Superseded", "AgentExited"}
           ELSE copy'[t] = copy[t] \/ LiveCopy(t) \/ copy[t] = "None"
  PROVE  UnboundHasNoCopy' /\ ToldIsSaid' /\ NotReachedKept'
<1>1. \A k, t : SaidOf(k, t) => SaidOf(k, t)'
  BY TellingKeeps DEF EndsInv
<1>2. UnboundHasNoCopy' /\ ToldIsSaid'
  BY <1>1 DEF CorrectionsInv, ToldIsSaid, UnboundHasNoCopy
<1>3. NotReachedKept'
  BY <1>1 DEF CorrectionsInv, NotReachedKept, LiveCopy
<1>4. QED
  BY <1>2, <1>3

\* A step that brings no copy back and ends the watch of a task said not to
\* have reached its worker only with its copy.
Retires ==
  /\ Onward
  /\ notified' \subseteq notified
  /\ told' \subseteq told
  /\ \A t \in Tasks :
       /\ LiveCopy(t)' => LiveCopy(t) \/ ledger[t] = "Unbound"
       /\ ledger'[t] = "Unbound" => copy'[t] = "None"
       /\ IF t \in notified
          THEN t \in notified' \/ copy'[t] \in {"MaxDeliver", "Cancelled", "Superseded", "AgentExited"}
          ELSE copy'[t] = copy[t] \/ LiveCopy(t) \/ copy[t] = "None"

LEMMA RetiringStep ==
  ASSUME CorrectionsInv, EndsInv, IInv, TypeOK,
         NEW K, Corrections \cup {"NotReached"} \subseteq K, Telling(K),
         UNCHANGED <<latch, corrected, cancelled, late>>, Retires
  PROVE  CorrectionsInv'
<1>1. Telling(Corrections)
  BY DEF Telling
<1>2. \A t \in Tasks : SaidOf("NotReached", t)' => SaidOf("NotReached", t)
  BY TellingKeeps DEF EndsInv
<1>3. CorrectedForGood' /\ CancelsLatched' /\ LateIsSaid'
  <2>1. latch \subseteq latch' /\ latch' \subseteq Tasks /\ latch' \ latch = {}
    BY DEF TypeOK
  <2>2. QED
    BY <1>1, <2>1, UncorrectingStep DEF Retires
<1>4. UnboundHasNoCopy' /\ ToldIsSaid' /\ NotReachedKept'
  BY <1>1, <1>2, UnreachedStep DEF Retires
<1>5. QED
  BY <1>3, <1>4 DEF CorrectionsInv

LEMMA RetiringSteps ==
  ASSUME CorrectionsInv, EndsInv, IInv, TypeOK,
         \/ Delegating
         \/ \E t \in Tasks : HandOut(t) \/ Requeue(t) \/ Regain(t) \/ Claim(t) \/ CommitClaim(t)
         \/ Posting
         \/ UNCHANGED vars
  PROVE  CorrectionsInv'
<1> DEFINE K == Corrections \cup {"NotReached"}
<1> USE DEF attempts, tables, records, reports, Silent
<1>1. UNCHANGED said /\ UNCHANGED <<latch, corrected, cancelled, late>>
  BY DEF Delegating, Delegate, RetireForRestart, SupersedeForRestart, HandOut, Requeue, Regain,
     Claim, CommitClaim, Posting, TakeOwed, PostOne, GiveBack, Depart, vars
<1>2. Telling(K)
  BY <1>1 DEF Telling
<1>3. Retires
  <2> USE DEF LiveCopy, CorrectionsInv, UnboundHasNoCopy, Retires, Onward, TypeOK
  <2>1. ASSUME NEW t \in Tasks, Delegate(t)
        PROVE  Retires
    <3> DEFINE old == WatchedAt(PaneOf(t))
               below == Superseded(old)
               books == SupersedeTasks(PaneOf(t))
    <3>1. /\ copy' = [below EXCEPT ![t] = "Queued"]
          /\ ledger' = [books EXCEPT ![t] = "Open"]
          /\ notified' = notified \ old
          /\ told' = told \ old
          /\ model' = model
      BY <2>1 DEF Delegate
    <3>2. \A u \in Tasks : /\ below[u] = IF u \in old /\ LiveCopy(u) THEN "Superseded" ELSE copy[u]
                           /\ books[u] = "Unbound" => ledger[u] = "Unbound"
      BY DEF Superseded, SupersedeTasks
    <3>3. \A u \in old : LiveCopy(u)
      BY DEF IInv, WatchedReportable, WatchedAt
    <3>4. t \notin notified /\ ledger[t] = "Unbound"
      BY <2>1 DEF Delegate, IInv, WatchedReportable, ToldIsWatched, OpenTask
    <3>5. DOMAIN below = Tasks /\ DOMAIN books = Tasks
      BY DEF Superseded, SupersedeTasks
    <3> HIDE DEF old, below, books
    <3>6. QED
      BY <3>1, <3>2, <3>3, <3>4, <3>5
  <2>2. ASSUME NEW p \in Restarted, RetireForRestart(p)
        PROVE  Retires
    BY <2>2 DEF RetireForRestart, EndWatches, Superseded, WatchedAt, IInv, WatchedReportable
  <2>3. ASSUME NEW p \in Restarted, SupersedeForRestart(p)
        PROVE  Retires
    BY <2>3 DEF SupersedeForRestart, SupersedeTasks
  <2>4. ASSUME NEW t \in Tasks, HandOut(t) \/ Requeue(t) \/ Regain(t)
        PROVE  Retires
    BY <2>4 DEF HandOut, Requeue, Regain
  <2>5. ASSUME NEW t \in Tasks, Claim(t)
        PROVE  Retires
    BY <2>5 DEF Claim
  <2>6. ASSUME NEW t \in Tasks, CommitClaim(t)
        PROVE  Retires
    BY <2>6 DEF CommitClaim, EndWatches, Superseded, IInv, WatchedReportable, ToldIsWatched
  <2>7. CASE Posting \/ UNCHANGED vars
    BY <2>7 DEF Posting, TakeOwed, PostOne, GiveBack, Depart, vars
  <2>8. QED
    BY <2>1, <2>2, <2>3, <2>4, <2>5, <2>6, <2>7 DEF Delegating
<1>4. QED
  BY <1>1, <1>2, <1>3, RetiringStep

\* What a verdict that may end a copy tells, and does to the copy and its watch.
LEMMA EndCopyRetires ==
  ASSUME CorrectionsInv, EndsInv, IInv, TypeOK, NEW t \in Tasks, NEW kind \in Ends,
         NEW reason \in {"MaxDeliver", "Cancelled"}, EndCopy(t, reason, kind),
         UNCHANGED ledger, Onward
  PROVE  /\ Retires
         /\ Telling(Corrections \cup {"NotReached"})
         /\ LiveCopy(t) => SaidOf(kind, t)' /\ ~LiveCopy(t)'
<1>1. CASE LiveCopy(t)
  <2>1. Owe(Notices(kind, {t}))
    <3>1. {t} \cap watches = {t}
      BY <1>1 DEF IInv, LiveIsWatched
    <3>2. QED
      BY <1>1, <3>1 DEF EndCopy
  <2>2. kind \in Kinds /\ kind \notin Corrections \cup {"NotReached"}
    BY DEF Kinds, Ends, Corrections
  <2>3. Telling(Corrections \cup {"NotReached"})
    <3>1. {t} \in SUBSET Tasks
      OBVIOUS
    <3>2. QED
      BY <2>1, <2>2, <3>1, TellsOne
  <2>4. SaidOf(kind, t)'
    BY <2>1, Oweing, Noticed DEF SaidOf
  <2>5. /\ copy' = [copy EXCEPT ![t] = reason]
        /\ notified' = notified \ {t} /\ told' = told \ {t}
    BY <1>1 DEF EndCopy, EndWatches
  <2>6. Retires /\ ~LiveCopy(t)'
    BY <1>1, <2>5 DEF Retires, LiveCopy, TypeOK, CorrectionsInv, UnboundHasNoCopy
  <2>7. QED
    BY <2>3, <2>4, <2>6
<1>2. CASE ~LiveCopy(t)
  BY <1>2 DEF EndCopy, Silent, tables, Telling, Retires, LiveCopy, CorrectionsInv, UnboundHasNoCopy
<1>3. QED
  BY <1>1, <1>2

LEMMA CancelDoneCorrects ==
  ASSUME CorrectionsInv, EndsInv, IInv, TypeOK, NEW t \in Tasks, CancelDone(t)
  PROVE  CorrectionsInv'
<1>1. Onward
  BY DEF CancelDone, Onward, TypeOK
<1>2. EndCopy(t, "Cancelled", "Cancelled") /\ UNCHANGED ledger /\ "Cancelled" \in Ends
  BY DEF CancelDone, Ends
<1>3. Retires /\ Telling(Corrections \cup {"NotReached"})
  BY <1>1, <1>2, EndCopyRetires
<1>4. QED
  BY <1>3, RetiringStep DEF CancelDone, records

\* A Cancel is latched before it is remembered.
LEMMA CancelCorrects ==
  ASSUME CorrectionsInv, EndsInv, IInv, TypeOK, TypeOK', NEW t \in Tasks, NEW final \in BOOLEAN,
         Cancel(t, final)
  PROVE  CorrectionsInv'
<1>1. Onward
  BY DEF Cancel, Onward, TypeOK
<1>2. Retires /\ Telling(Corrections \cup {"NotReached"})
  <2>1. CASE final
    <3>1. EndCopy(t, "Cancelled", "Cancelled") /\ UNCHANGED ledger /\ "Cancelled" \in Ends
      BY <2>1 DEF Cancel, Ends
    <3>2. QED
      BY <1>1, <3>1, EndCopyRetires
  <2>2. CASE ~final
    <3>1. UNCHANGED <<said, copy, ledger, notified, told>>
      BY <2>2 DEF Cancel, Silent, tables
    <3>2. QED
      BY <1>1, <3>1 DEF Telling, Retires, LiveCopy, CorrectionsInv, UnboundHasNoCopy
  <2>3. QED
    BY <2>1, <2>2
<1>3. /\ \A k, u : SaidOf(k, u) => SaidOf(k, u)'
      /\ \A u \in Tasks : SaidOf("NotReached", u)' => SaidOf("NotReached", u)
  BY <1>2, TellingKeeps DEF EndsInv
<1>4. Telling(Corrections)
  BY <1>2 DEF Telling
<1>5. UnboundHasNoCopy' /\ ToldIsSaid' /\ NotReachedKept'
  BY <1>2, <1>3, <1>4, UnreachedStep DEF Retires
<1>6. /\ UNCHANGED <<corrected, late>> /\ latch' = latch \cup {t}
      /\ model'[t] \in {"CancelHeld", "Cancelled"}
  BY DEF Cancel, TypeOK
<1>7. Range(cancelled') \subseteq Range(cancelled) \cup {t}
  <2>1. Memory(cancelled, MaxCancelled) /\ MaxCancelled \in Nat \ {0}
    BY NoticeConstants DEF TypeOK, Memory
  <2>2. Range(Remember(cancelled, t, MaxCancelled)) \subseteq Range(cancelled) \cup {t}
    BY <2>1, Remembers
  <2>3. QED
    BY <2>2 DEF Cancel
<1>8. CorrectedForGood' /\ CancelsLatched' /\ LateIsSaid'
  <2>1. /\ latch \subseteq latch' /\ latch' \subseteq Tasks
        /\ Range(cancelled') \subseteq Range(cancelled) \cup latch'
        /\ \A u \in latch' \ latch : model'[u] \in {"CancelHeld", "Cancelled"}
    BY <1>6, <1>7 DEF TypeOK
  <2>2. QED
    BY <1>2, <1>4, <1>6, <2>1, UncorrectingStep DEF Retires
<1>9. QED
  BY <1>5, <1>8 DEF CorrectionsInv

\* A task is remembered for a late ack as it is said to be undeliverable.
LEMMA OutOfAttemptsCorrects ==
  ASSUME CorrectionsInv, EndsInv, IInv, TypeOK, NEW t \in Tasks, OutOfAttempts(t)
  PROVE  CorrectionsInv'
<1>1. Onward
  BY DEF OutOfAttempts, Onward, TypeOK
<1>2. EndCopy(t, "MaxDeliver", "Undeliverable") /\ UNCHANGED ledger /\ "Undeliverable" \in Ends
  BY DEF OutOfAttempts, Ends
<1>3. /\ Retires /\ Telling(Corrections \cup {"NotReached"})
      /\ LiveCopy(t) => SaidOf("Undeliverable", t)' /\ ~LiveCopy(t)'
  BY <1>1, <1>2, EndCopyRetires
<1>4. /\ \A k, u : SaidOf(k, u) => SaidOf(k, u)'
      /\ \A u \in Tasks : SaidOf("NotReached", u)' => SaidOf("NotReached", u)
  BY <1>3, TellingKeeps DEF EndsInv
<1>5. Telling(Corrections)
  BY <1>3 DEF Telling
<1>6. UnboundHasNoCopy' /\ ToldIsSaid' /\ NotReachedKept'
  BY <1>3, <1>4, <1>5, UnreachedStep DEF Retires
<1>7. UNCHANGED <<corrected, latch, cancelled>> /\ model'[t] = "MaxDeliver"
  BY DEF OutOfAttempts, TypeOK
<1>8. \A u \in Range(late') : u \in Range(late) \/ (u = t /\ LiveCopy(t))
  <2>1. PICK n \in 0 .. Len(late) :
          late' = IF LiveCopy(t) THEN Remember(SubSeq(late, n + 1, Len(late)), t, MaxLate)
                  ELSE late
    BY DEF OutOfAttempts
  <2> DEFINE rest == SubSeq(late, n + 1, Len(late))
  <2>2. Memory(late, MaxLate) /\ MaxLate \in Nat \ {0}
    BY NoticeConstants DEF TypeOK, Memory
  <2>3. Memory(rest, MaxLate) /\ Range(rest) \subseteq Range(late)
    BY <2>2, Outlives
  <2> HIDE DEF rest
  <2>4. Range(Remember(rest, t, MaxLate)) \subseteq Range(rest) \cup {t}
    BY <2>2, <2>3, Remembers
  <2>5. QED
    BY <2>1, <2>3, <2>4 DEF rest
<1>9. CorrectedForGood' /\ CancelsLatched' /\ LateIsSaid'
  <2>1. /\ latch \subseteq latch' /\ latch' \subseteq Tasks
        /\ Range(cancelled') \subseteq Range(cancelled) \cup latch'
        /\ latch' \ latch = {}
    BY <1>7 DEF TypeOK
  <2>2. \A u \in Range(late') :
          \/ u \in Range(late)
          \/ u \in Tasks /\ SaidOf("Undeliverable", u)' /\ ~LiveCopy(u)' /\ model'[u] = "MaxDeliver"
    BY <1>3, <1>7, <1>8
  <2>3. QED
    BY <1>3, <1>5, <1>7, <2>1, <2>2, UncorrectingStep DEF Retires
<1>10. QED
  BY <1>6, <1>9 DEF CorrectionsInv

\* Owing an uncertain notice marks its watch, and so does one of not reached.
LEMMA LapseCorrects ==
  ASSUME CorrectionsInv, EndsInv, IInv, TypeOK, NEW t \in Tasks, Lapse(t)
  PROVE  CorrectionsInv'
<1> DEFINE tells == {u \in {t} : LiveCopy(u)} \cap watches
           new == tells \ told
<1>1. /\ Owe(Notices("Uncertain", new)) /\ told' = told \cup tells
      /\ new \in SUBSET Tasks /\ tells \subseteq told \cup new
  BY DEF Lapse
<1>2. /\ UNCHANGED <<latch, corrected, cancelled, late, copy, ledger, notified>>
      /\ Onward
  BY DEF Lapse, Onward, TypeOK, records, reports
<1> HIDE DEF tells, new
<1>3. Telling(Corrections \cup {"NotReached"}) /\ Telling(Corrections)
  <2>1. "Uncertain" \in Kinds /\ "Uncertain" \notin Corrections \cup {"NotReached"}
    BY DEF Kinds, Reports, Corrections
  <2>2. QED
    BY <1>1, <2>1, TellsOne
<1>4. /\ \A u \in Tasks : SaidOf("NotReached", u)' => SaidOf("NotReached", u)
      /\ \A u \in new : SaidOf("Uncertain", u)'
  <2>1. \A u \in Tasks : SaidOf("NotReached", u)' => SaidOf("NotReached", u)
    BY <1>3, TellingKeeps DEF EndsInv
  <2>2. \A u \in new : SaidOf("Uncertain", u)'
    BY <1>1, Oweing, Noticed DEF SaidOf
  <2>3. QED
    BY <2>1, <2>2
<1>5. UnboundHasNoCopy' /\ ToldIsSaid' /\ NotReachedKept'
  <2>1. \A u \in told' : u \in told \/ SaidOf("Uncertain", u)'
    BY <1>1, <1>4
  <2>2. \A u \in Tasks : ledger'[u] = "Unbound" => copy'[u] = "None"
    BY <1>2 DEF CorrectionsInv, UnboundHasNoCopy
  <2>3. QED
    BY <1>2, <1>3, <1>4, <2>1, <2>2, UnreachedStep
<1>6. CorrectedForGood' /\ CancelsLatched' /\ LateIsSaid'
  <2>1. latch \subseteq latch' /\ latch' \subseteq Tasks /\ latch' \ latch = {}
    BY <1>2 DEF TypeOK
  <2>2. \A u \in Tasks : LiveCopy(u)' => LiveCopy(u)
    BY <1>2 DEF LiveCopy
  <2>3. QED
    BY <1>2, <1>3, <2>1, <2>2, UncorrectingStep
<1>7. QED
  BY <1>5, <1>6 DEF CorrectionsInv

LEMMA OverdueCorrects ==
  ASSUME CorrectionsInv, EndsInv, IInv, TypeOK, NEW due \in SUBSET watches, Overdue(due)
  PROVE  CorrectionsInv'
<1> DEFINE late_ones == {t \in due \ notified : copy[t] = "Queued"}
<1>1. /\ Owe(Notices("NotReached", late_ones)) /\ notified' = notified \cup late_ones
      /\ late_ones \in SUBSET Tasks
  BY DEF Overdue, TypeOK
<1>2. UNCHANGED <<model, latch, corrected, cancelled, late, copy, ledger, told>>
  BY DEF Overdue, attempts, records, reports
<1> HIDE DEF late_ones
<1>3. Telling(Corrections)
  <2>1. "NotReached" \in Kinds /\ "NotReached" \notin Corrections
    BY DEF Kinds, Reports, Corrections
  <2>2. QED
    BY <1>1, <2>1, TellsOne
<1>4. \A u \in Tasks : SaidOf("NotReached", u)' <=> SaidOf("NotReached", u) \/ u \in late_ones
  BY <1>1, Oweing, NoticeIs DEF SaidOf
<1>5. UnboundHasNoCopy' /\ ToldIsSaid' /\ NotReachedKept'
  <2>1. \A u \in notified' : u \in notified \/ SaidOf("NotReached", u)'
    BY <1>1, <1>4
  <2>2. \A u \in Tasks : SaidOf("NotReached", u)' => SaidOf("NotReached", u) \/ u \in notified'
    BY <1>1, <1>4
  <2>3. \A u \in Tasks : ledger'[u] = "Unbound" => copy'[u] = "None"
    BY <1>2 DEF CorrectionsInv, UnboundHasNoCopy
  <2>4. notified \subseteq notified'
    BY <1>1
  <2>5. QED
    BY <1>2, <1>3, <2>1, <2>2, <2>3, <2>4, UnreachedStep
<1>6. CorrectedForGood' /\ CancelsLatched' /\ LateIsSaid'
  <2>1. latch \subseteq latch' /\ latch' \subseteq Tasks /\ latch' \ latch = {}
    BY <1>2 DEF TypeOK
  <2>2. (\A u \in Tasks : LiveCopy(u)' => LiveCopy(u)) /\ Onward
    BY <1>2 DEF LiveCopy, Onward
  <2>3. QED
    BY <1>2, <1>3, <2>1, <2>2, UncorrectingStep
<1>7. QED
  BY <1>5, <1>6 DEF CorrectionsInv

LEMMA ExitCorrects ==
  ASSUME CorrectionsInv, EndsInv, IInv, TypeOK, NEW g \in Generations,
         NEW kind \in {"Natural", "Removed"}, Exit(g, kind)
  PROVE  CorrectionsInv'
<1> DEFINE L == {t \in Tasks : Worker[t] = g /\ LiveCopy(t)}
<1>1. PICK A \in SUBSET Tasks, B \in SUBSET Tasks, C \in SUBSET Tasks :
        Owe(Notices("Exited", A) \cup WorkerExited(B) \cup Notices("Exited", C))
  <2> DEFINE W == {t \in Tasks : Worker[t] = g /\ OpenTask(t)}
             live == {t \in Tasks : delivery[t] = "Live"}
             ended == IF kind = "Natural" THEN Tasks \ live ELSE {}
             A == {t \in W : ledger[t] = "Open"} \cap live
             B == {t \in W : ledger[t] = "Open"} \cap ended
             C == (L \cap watches) \ (walked \cup (W \cap live))
  <2>1. Owe(Notices("Exited", A) \cup WorkerExited(B) \cup Notices("Exited", C))
    BY DEF Exit, ExitOwes
  <2>2. A \in SUBSET Tasks /\ B \in SUBSET Tasks /\ C \in SUBSET Tasks
    OBVIOUS
  <2> HIDE DEF A, B, C
  <2>3. QED
    BY <2>1, <2>2
<1>2. Telling(Corrections \cup {"NotReached"})
  <2> DEFINE ns == Notices("Exited", A) \cup WorkerExited(B) \cup Notices("Exited", C)
  <2>1. \A n \in ns : Proper(n) /\ n.kind \in {"Exited", "WorkerExited"}
    BY DEF Proper, Notices, Notice, WorkerExited, Kinds, Ends
  <2>2. {"Exited", "WorkerExited"} \cap (Corrections \cup {"NotReached"}) = {}
    BY DEF Corrections
  <2> HIDE DEF ns
  <2>3. QED
    BY <1>1, <2>1, <2>2 DEF Telling, ns
<1>3. /\ copy' = [t \in Tasks |-> IF t \in L THEN "AgentExited" ELSE copy[t]]
      /\ model' = [t \in Tasks |-> IF Worker[t] = g THEN "Gone" ELSE model[t]]
      /\ notified' = notified \ L
      /\ told' \subseteq told
      /\ \A t \in Tasks : ledger'[t] = "Unbound" => ledger[t] = "Unbound"
      /\ UNCHANGED <<latch, corrected, cancelled, late>>
  BY DEF Exit, records
<1>4. Retires
  BY <1>3 DEF Retires, Onward, LiveCopy, TypeOK, CorrectionsInv, UnboundHasNoCopy
<1>5. QED
  BY <1>2, <1>3, <1>4, RetiringStep

LEMMA FailClaimCorrects ==
  ASSUME CorrectionsInv, EndsInv, IInv, TypeOK, NEW t \in Tasks, FailClaim(t)
  PROVE  CorrectionsInv'
<1> DEFINE ns == claims[t].withheld
<1>1. Owe(ns) /\ \A n \in ns : n.kind = "WorkerExited" \/ n = Notice("Exited", t)
  BY DEF FailClaim, EndsInv, WithheldShape
<1>2. Telling(Corrections \cup {"NotReached"})
  <2>1. \A n \in ns : Proper(n) /\ n.kind \in {"Exited", "WorkerExited"}
    BY <1>1, NoticeIs DEF Proper, Kinds, Ends
  <2>2. {"Exited", "WorkerExited"} \cap (Corrections \cup {"NotReached"}) = {}
    BY DEF Corrections
  <2> HIDE DEF ns
  <2>3. QED
    BY <1>1, <2>1, <2>2 DEF Telling
<1>3. /\ UNCHANGED <<model, latch, corrected, cancelled, late, copy, notified, told>>
      /\ \A u \in Tasks : ledger'[u] = "Unbound" => ledger[u] = "Unbound"
  BY DEF FailClaim, attempts, tables, records, TypeOK
<1>4. Retires
  BY <1>3 DEF Retires, Onward, LiveCopy, CorrectionsInv, UnboundHasNoCopy
<1>5. QED
  BY <1>2, <1>3, <1>4, RetiringStep

\* A commit corrects through one record only: a task remembered for a late ack
\* is not watched and its model ran out of hand-overs, which a Cancel excludes.
LEMMA CommitCorrects ==
  ASSUME CorrectionsInv, EndsInv, IInv, TypeOK, NEW t \in Tasks, Commit(t)
  PROVE  CorrectionsInv'
<1> DEFINE asks == AsksToCorrect(t)
           acks == model[t] # "Cancelled" /\ (LiveCopy(t) \/ copy[t] = "MaxDeliver")
           A == {u \in {t} : asks /\ AfterAll(t)}
           B == {u \in {t} : acks /\ t \in Range(late)}
           C == {u \in {t} : acks /\ t \in notified}
           ns == Notices("AfterAll", A) \cup Notices("LateUndeliverable", B)
                   \cup Notices("LateNotReached", C)
<1>1. Owe(ns)
  BY DEF Commit
<1>2. \A n \in ns : Proper(n)
  <2>1. {"AfterAll", "LateUndeliverable", "LateNotReached"} \subseteq Kinds
    BY DEF Kinds, Corrections
  <2>2. A \subseteq Tasks /\ B \subseteq Tasks /\ C \subseteq Tasks
    OBVIOUS
  <2> HIDE DEF A, B, C
  <2>3. QED
    BY <2>1, <2>2 DEF Proper, Notices, Notice
<1>3. /\ BagToSet(said') = BagToSet(said) \cup ns
      /\ \A n \in BagToSet(said) : n \notin ns => said'[n] = said[n]
      /\ \A n \in ns : n \notin BagToSet(said) => said'[n] = 1
  <2> HIDE DEF ns
  <2>1. QED
    BY <1>1, <1>2, OwedIsCounted DEF EndsInv
<1>4. \A k, u : Notice(k, u) \in ns <=> \/ k = "AfterAll" /\ u \in A
                                        \/ k = "LateUndeliverable" /\ u \in B
                                        \/ k = "LateNotReached" /\ u \in C
  <2> HIDE DEF A, B, C
  <2>1. QED
    BY NoticeIs
<1> HIDE DEF ns
<1>5. \A k, u : SaidOf(k, u)' <=> SaidOf(k, u) \/ Notice(k, u) \in ns
  BY <1>3 DEF SaidOf
<1>6. /\ \A u \in Tasks \ {t} : model'[u] = model[u] /\ copy'[u] = copy[u]
      /\ model'[t] = IF model[t] = "Cancelled" THEN "Cancelled" ELSE "Settled"
      /\ copy'[t] = IF acks THEN "Acknowledged" ELSE copy[t]
      /\ model[t] \notin {"None", "Settled", "Gone"}
      /\ corrected' = IF asks THEN corrected \cup {t} ELSE corrected
      /\ UNCHANGED <<latch, ledger>>
      /\ notified' = IF acks THEN notified \ {t} ELSE notified
      /\ told' \subseteq told
  BY DEF Commit, TypeOK
<1>7. Range(cancelled') \subseteq Range(cancelled) /\ Range(late') \subseteq Range(late)
  <2>1. Memory(cancelled, MaxCancelled) /\ Memory(late, MaxLate) /\ MaxCancelled \in Nat
        /\ MaxLate \in Nat
    BY NoticeConstants DEF TypeOK, Memory
  <2>2. /\ Range(Forget(cancelled, t)) \subseteq Range(cancelled)
        /\ Range(Forget(late, t)) \subseteq Range(late)
    BY <2>1, Forgets
  <2>3. QED
    BY <2>2 DEF Commit
<1>8. UnboundHasNoCopy' /\ ToldIsSaid'
  <2>1. UnboundHasNoCopy'
    BY <1>6 DEF CorrectionsInv, UnboundHasNoCopy, LiveCopy
  <2>2. ToldIsSaid'
    BY <1>5, <1>6 DEF CorrectionsInv, ToldIsSaid
  <2>3. QED
    BY <2>1, <2>2
<1>9. NotReachedKept'
  <2>1. \A u \in Tasks : SaidOf("NotReached", u)' => SaidOf("NotReached", u)
    BY <1>4, <1>5
  <2>2. \A u \in Tasks : SaidOf("LateNotReached", u) \/ SaidOf("Undeliverable", u) =>
                           SaidOf("LateNotReached", u)' \/ SaidOf("Undeliverable", u)'
    BY <1>5
  <2>3. acks /\ t \in notified => SaidOf("LateNotReached", t)'
    BY <1>4, <1>5
  <2>4. copy[t] = "MaxDeliver" => SaidOf("Undeliverable", t)'
    BY <1>5 DEF IInv, EndKept, SaidOf
  <2> HIDE DEF A, B, C
  <2>5. QED
    BY <1>6, <2>1, <2>2, <2>3, <2>4 DEF CorrectionsInv, NotReachedKept, LiveCopy
<1>10. CancelsLatched'
  BY <1>6, <1>7 DEF CorrectionsInv, CancelsLatched, TypeOK
<1>11. Range(late) \subseteq Tasks
  BY DEF TypeOK, Range
<1>12. LateIsSaid'
  BY <1>5, <1>6, <1>7, <1>11 DEF CorrectionsInv, LateIsSaid, LiveCopy
\* Not both: see above.
<1>13. /\ A # {} => t \notin corrected /\ model[t] # "Settled"
       /\ A # {} => t \in latch \/ SaidOf("NotReached", t) \/ SaidOf("Uncertain", t)
       /\ A # {} => B = {}
       /\ B # {} => SaidOf("Undeliverable", t) /\ model[t] # "Cancelled"
       /\ C # {} => SaidOf("NotReached", t)
  <2>1. A # {} => t \notin corrected /\ model[t] # "Settled"
    BY <1>6 DEF AsksToCorrect
  <2>2. A # {} => t \in latch \/ SaidOf("NotReached", t) \/ SaidOf("Uncertain", t)
    BY DEF AfterAll, CorrectionsInv, CancelsLatched, ToldIsSaid
  <2>3. ASSUME A # {}, B # {}
        PROVE  FALSE
    <3>1. t \in Range(late) /\ AfterAll(t)
      BY <2>3
    <3>2. model[t] \in {"MaxDeliver", "Settled", "Gone"} /\ t \notin watches
      BY <3>1 DEF CorrectionsInv, LateIsSaid, IInv, WatchedReportable
    <3>3. t \in latch
      BY <3>1, <3>2 DEF AfterAll, CorrectionsInv, CancelsLatched
    <3>4. model[t] \in {"CancelHeld", "Cancelled", "Settled", "Gone"}
      BY <3>3 DEF CorrectionsInv, CancelsLatched
    <3>5. QED
      BY <1>6, <3>2, <3>4
  <2>4. B # {} => SaidOf("Undeliverable", t) /\ model[t] # "Cancelled"
    BY DEF CorrectionsInv, LateIsSaid
  <2>5. C # {} => SaidOf("NotReached", t)
    BY DEF CorrectionsInv, ToldIsSaid
  <2>6. QED
    BY <2>1, <2>2, <2>3, <2>4, <2>5
<1>14. CorrectedForGood'
  <2>1. A \subseteq {t} /\ B \subseteq {t} /\ C \subseteq {t} /\ (A # {} => asks)
    OBVIOUS
  <2> HIDE DEF A, B, C, asks, acks
  <2>2. ASSUME NEW u \in Tasks, u # t
        PROVE  CorrectedOf(u)'
    BY <2>1, <2>2, <1>3, <1>4, <1>5, <1>6 DEF CorrectionsInv, CorrectedForGood, CorrectedOf, SaidOf
  <2>3. CorrectedOf(t)'
    BY <2>1, <1>3, <1>4, <1>5, <1>6, <1>13 DEF CorrectionsInv, CorrectedForGood, CorrectedOf, SaidOf
  <2>4. QED
    BY <2>2, <2>3 DEF CorrectedForGood
<1>15. QED
  BY <1>8, <1>9, <1>10, <1>12, <1>14 DEF CorrectionsInv

LEMMA CorrectionsInit == Init => CorrectionsInv
<1> SUFFICES ASSUME Init PROVE CorrectionsInv
  OBVIOUS
<1>1. \A k, t : ~SaidOf(k, t)
  BY DEF Init, SaidOf, BagToSet, EmptyBag, SetToBag
<1>2. Range(cancelled) = {} /\ Range(late) = {}
  BY DEF Init, Range
<1>3. QED
  BY <1>1, <1>2 DEF Init, CorrectionsInv, UnboundHasNoCopy, ToldIsSaid, NotReachedKept,
     CancelsLatched, LateIsSaid, CorrectedForGood, CorrectedOf

LEMMA CorrectionsStep ==
  IInv /\ EndsInv /\ TypeOK /\ TypeOK' /\ CorrectionsInv /\ [Next]_vars => CorrectionsInv'
<1> SUFFICES ASSUME IInv, EndsInv, TypeOK, TypeOK', CorrectionsInv, [Next]_vars
             PROVE  CorrectionsInv'
  OBVIOUS
<1>1. CASE Delegating \/ Posting \/ UNCHANGED vars
  BY <1>1, RetiringSteps
<1>2. CASE Delivering
  BY <1>2, RetiringSteps, OutOfAttemptsCorrects, LapseCorrects, CancelDoneCorrects,
     CommitCorrects, CancelCorrects, OverdueCorrects DEF Delivering
<1>3. CASE Reporting
  BY <1>3, RetiringSteps, ExitCorrects, FailClaimCorrects DEF Reporting
<1>4. QED
  BY <1>1, <1>2, <1>3 DEF Next

\* The type invariant holds: the two memories stay within their bounds and name
\* a task once, whatever is remembered, forgotten or aged out.
THEOREM TypeCorrect == Spec => []TypeOK
  BY TypesInit, TypesStep, PTL DEF Spec

\* Between them the invariants follow every notice ever owed.
THEOREM SaidInv == Spec => [](EndsInv /\ CorrectionsInv)
<1>1. Init => EndsInv /\ CorrectionsInv
  BY EndsInit, CorrectionsInit
<1>2. IInv /\ IInv' /\ TypeOK /\ TypeOK' /\ (EndsInv /\ CorrectionsInv) /\ [Next]_vars
        => (EndsInv /\ CorrectionsInv)'
  BY EndsStep, CorrectionsStep
<1>3. QED
  BY <1>1, <1>2, NoticesInv, TypeCorrect, PTL DEF Spec

\* What was said of a task, in terms of its kinds.
LEMMA SaidByKind ==
  ASSUME SaidShape, NEW t \in Tasks, NEW K, "WorkerExited" \notin K
  PROVE  /\ \A k \in K : SaidOf(k, t) => Notice(k, t) \in Said(t, K)
         /\ \A n \in Said(t, K) : \E k \in K : n = Notice(k, t) /\ SaidOf(k, t)
<1>1. \A k \in K : SaidOf(k, t) => Notice(k, t) \in Said(t, K)
  BY NoticeIs DEF SaidOf, Said
<1>2. ASSUME NEW n \in Said(t, K)
      PROVE  \E k \in K : n = Notice(k, t) /\ SaidOf(k, t)
  <2>1. n \in BagToSet(said) /\ n.kind \in K /\ t \in n.tasks
    BY DEF Said
  <2>2. PICK k \in Kinds, u \in Tasks : n = Notice(k, u)
    BY <2>1 DEF SaidShape
  <2>3. n.kind = k /\ u = t
    BY <2>1, <2>2, NoticeIs
  <2>4. QED
    BY <2>1, <2>2, <2>3 DEF SaidOf
<1>3. QED
  BY <1>1, <1>2

\* The end of a delegated task is told at most once, whichever of the verdict,
\* the exit's walk, the exit's event and a failed report saw it.
THEOREM EndsStayToldOnce == Spec => []EndToldOnce
<1>1. EndsInv => EndToldOnce
  <2> SUFFICES ASSUME EndsInv, NEW t \in Tasks, NEW n \in Said(t, Ends), NEW m \in Said(t, Ends)
               PROVE  n = m /\ said[n] = 1
    BY DEF EndToldOnce, AtMostOnce
  <2>1. SaidShape /\ "WorkerExited" \notin Ends
    BY DEF EndsInv, Ends
  <2>2. PICK k \in Ends : n = Notice(k, t) /\ SaidOf(k, t)
    BY <2>1, SaidByKind
  <2>3. PICK l \in Ends : m = Notice(l, t) /\ SaidOf(l, t)
    BY <2>1, SaidByKind
  <2>4. QED
    BY <2>2, <2>3 DEF EndsInv, EndsOnce
<1>2. QED
  BY <1>1, SaidInv, PTL

\* Who was told that a task did not reach its worker hears of a later ack,
\* unless the task was said to be undeliverable meanwhile.
THEOREM AcksStayCorrected == Spec => []AckCorrects
<1>1. EndsInv /\ CorrectionsInv /\ IInv => AckCorrects
  <2> SUFFICES ASSUME EndsInv, CorrectionsInv, IInv, NEW t \in Tasks,
                      copy[t] = "Acknowledged",
                      Said(t, {"NotReached"}) # {},
                      Said(t, {"Undeliverable"}) = {}
               PROVE  Said(t, {"LateNotReached"}) # {}
    BY DEF AckCorrects
  <2>1. SaidShape
    BY DEF EndsInv
  <2>2. SaidOf("NotReached", t) /\ ~SaidOf("Undeliverable", t)
    BY <2>1, SaidByKind
  <2>3. t \notin notified
    BY DEF IInv, ToldIsWatched, WatchedReportable, LiveCopy
  <2>4. SaidOf("LateNotReached", t)
    BY <2>2, <2>3 DEF CorrectionsInv, NotReachedKept
  <2>5. QED
    BY <2>1, <2>4, SaidByKind
<1>2. QED
  BY <1>1, SaidInv, NoticesInv, PTL

\* No correction without something to correct, and two of one task only when it
\* had been said not to have reached its worker.
THEOREM CorrectionsHaveCause == Spec => []CorrectionHasCause
<1>1. EndsInv /\ CorrectionsInv => CorrectionHasCause
  <2> SUFFICES ASSUME EndsInv, CorrectionsInv, NEW t \in Tasks
               PROVE  /\ Said(t, {"LateNotReached"}) # {} => Said(t, {"NotReached"}) # {}
                      /\ Said(t, {"LateUndeliverable"}) # {} => Said(t, {"Undeliverable"}) # {}
                      /\ Said(t, {"AfterAll"}) # {} => t \in latch \/ Said(t, Reports) # {}
                      /\ Said(t, {"NotReached"}) = {} => AtMostOnce(t, Corrections)
    BY DEF CorrectionHasCause
  <2>1. SaidShape /\ CorrectedOf(t)
    BY DEF EndsInv, CorrectionsInv, CorrectedForGood
  <2>2. \A k \in Kinds \ {"WorkerExited"} : Said(t, {k}) # {} <=> SaidOf(k, t)
    <3>1. ASSUME NEW k \in Kinds \ {"WorkerExited"}
          PROVE  Said(t, {k}) # {} <=> SaidOf(k, t)
      BY <2>1, SaidByKind
    <3>2. QED
      BY <3>1
  <2>3. {"LateNotReached", "NotReached", "LateUndeliverable", "Undeliverable", "AfterAll"}
          \subseteq Kinds \ {"WorkerExited"}
    BY DEF Kinds, Corrections, Reports, Ends
  <2>4. SaidOf("NotReached", t) \/ SaidOf("Uncertain", t) => Said(t, Reports) # {}
    <3>1. "WorkerExited" \notin Reports /\ "NotReached" \in Reports /\ "Uncertain" \in Reports
      BY DEF Reports
    <3>2. QED
      BY <2>1, <3>1, SaidByKind
  <2>5. ASSUME ~SaidOf("NotReached", t)
        PROVE  AtMostOnce(t, Corrections)
    <3> SUFFICES ASSUME NEW n \in Said(t, Corrections), NEW m \in Said(t, Corrections)
                 PROVE  n = m /\ said[n] = 1
      BY DEF AtMostOnce
    <3>1. "WorkerExited" \notin Corrections
      BY DEF Corrections
    <3>2. PICK k \in Corrections : n = Notice(k, t) /\ SaidOf(k, t)
      BY <2>1, <3>1, SaidByKind
    <3>3. PICK l \in Corrections : m = Notice(l, t) /\ SaidOf(l, t)
      BY <2>1, <3>1, SaidByKind
    <3>4. QED
      BY <2>1, <2>5, <3>2, <3>3 DEF CorrectedOf, Corrections
  <2>6. QED
    BY <2>1, <2>2, <2>3, <2>4, <2>5 DEF CorrectedOf
<1>2. QED
  BY <1>1, SaidInv, PTL

-----------------------------------------------------------------------------
(* No notice is lost or doubled on its way.                                 *)

IsCounted(b) == \A n \in DOMAIN b : b[n] \in Nat \ {0}

\* What the posters hold of a notice, each in its batch and in what it kept.
HeldBy(n) == [q \in Posters |-> Count(n, batch[q]) + Count(n, kept[q])]

Counted ==
  /\ IsCounted(owed) /\ IsCounted(posted) /\ IsCounted(said)
  /\ batch = [q \in Posters |-> batch[q]] /\ kept = [q \in Posters |-> kept[q]]
  /\ \A q \in Posters : IsCounted(batch[q]) /\ IsCounted(kept[q])

\* Whatever was said is owed, with a poster or posted, also what was never said.
Conserved ==
  \A n : Addressee(n) \notin absent =>
           Count(n, said) = Count(n, owed) + Count(n, posted) + SumFunction(HeldBy(n))

LEMMA CountsAdd ==
  ASSUME NEW a, NEW b, IsCounted(a), IsCounted(b)
  PROVE  /\ IsCounted(a (+) b)
         /\ \A n : /\ Count(n, a) \in Nat /\ Count(n, b) \in Nat
                   /\ Count(n, a (+) b) = Count(n, a) + Count(n, b)
  BY DEF IsCounted, Count, BagIn, BagToSet, (+)

LEMMA CountsOfSet ==
  ASSUME NEW S
  PROVE  /\ IsCounted(SetToBag(S))
         /\ \A n : Count(n, SetToBag(S)) = IF n \in S THEN 1 ELSE 0
  BY DEF IsCounted, Count, BagIn, BagToSet, SetToBag

LEMMA CountsOfNone ==
  IsCounted(EmptyBag) /\ \A n : Count(n, EmptyBag) = 0
  BY CountsOfSet DEF EmptyBag

LEMMA CountsTake ==
  ASSUME NEW b, NEW m, IsCounted(b), BagIn(m, b)
  PROVE  /\ IsCounted(b (-) SetToBag({m}))
         /\ \A n : Count(n, b) = Count(n, b (-) SetToBag({m})) + (IF n = m THEN 1 ELSE 0)
<1> DEFINE rest == b (-) SetToBag({m})
<1>1. /\ DOMAIN rest = {d \in DOMAIN b : d # m \/ b[d] > 1}
      /\ \A d \in DOMAIN rest : rest[d] = IF d = m THEN b[d] - 1 ELSE b[d]
  BY DEF IsCounted, BagIn, BagToSet, SetToBag, (-)
<1> HIDE DEF rest
<1>2. IsCounted(rest)
  BY <1>1 DEF IsCounted
<1>3. \A n : Count(n, b) = Count(n, rest) + (IF n = m THEN 1 ELSE 0)
  BY <1>1 DEF IsCounted, Count, BagIn, BagToSet
<1>4. QED
  BY <1>2, <1>3 DEF rest

LEMMA HeldType ==
  ASSUME Counted, NEW n
  PROVE  /\ HeldBy(n) \in [Posters -> Nat]
         /\ SumFunction(HeldBy(n)) \in Nat
         /\ Count(n, owed) \in Nat /\ Count(n, posted) \in Nat /\ Count(n, said) \in Nat
         /\ \A q \in Posters : Count(n, batch[q]) \in Nat /\ Count(n, kept[q]) \in Nat
<1>1. /\ Count(n, owed) \in Nat /\ Count(n, posted) \in Nat /\ Count(n, said) \in Nat
      /\ \A q \in Posters : Count(n, batch[q]) \in Nat /\ Count(n, kept[q]) \in Nat
  BY DEF Counted, IsCounted, Count, BagIn, BagToSet
<1>2. HeldBy(n) \in [Posters -> Nat]
  BY <1>1 DEF HeldBy
<1>3. SumFunction(HeldBy(n)) \in Nat
  <2> DEFINE f == HeldBy(n)
  <2> HIDE DEF f
  <2>1. f \in [Posters -> Nat] /\ IsFiniteSet(Posters)
    BY <1>2, NoticeConstants DEF f
  <2>2. SumFunction(f) \in Nat
    BY <2>1, SumType
  <2>3. QED
    BY <2>2 DEF f
<1>4. QED
  BY <1>1, <1>2, <1>3

\* A step of one poster moves the sum by what its own holding changes.
LEMMA HeldMove ==
  ASSUME Counted, Counted', NEW q \in Posters, NEW n,
         \A p \in Posters \ {q} : batch'[p] = batch[p] /\ kept'[p] = kept[p]
  PROVE  /\ SumFunction(HeldBy(n))' \in Nat
         /\ SumFunction(HeldBy(n))' + Count(n, batch[q]) + Count(n, kept[q])
              = SumFunction(HeldBy(n)) + Count(n, batch'[q]) + Count(n, kept'[q])
<1> DEFINE f == HeldBy(n)
           h == [p \in Posters |-> Count(n, batch'[p]) + Count(n, kept'[p])]
<1>1. HeldBy(n)' = h
  BY DEF HeldBy, Count
<1>2. f \in [Posters -> Nat] /\ h \in [Posters -> Nat]
  BY <1>1, HeldType DEF Counted, IsCounted, Count, BagIn, BagToSet
<1>3. \A p \in Posters \ {q} : h[p] = f[p]
  BY DEF HeldBy
<1>4. f[q] = Count(n, batch[q]) + Count(n, kept[q]) /\ h[q] = Count(n, batch'[q]) + Count(n, kept'[q])
  BY DEF HeldBy
<1>5. SumFunction(HeldBy(n))' = SumFunction(h)
  BY <1>1
<1>6. /\ Count(n, batch[q]) \in Nat /\ Count(n, kept[q]) \in Nat
      /\ Count(n, batch'[q]) \in Nat /\ Count(n, kept'[q]) \in Nat
  BY HeldType DEF Counted, IsCounted, Count, BagIn, BagToSet
<1>7. SumFunction(HeldBy(n)) = SumFunction(f) /\ IsFiniteSet(Posters)
  BY NoticeConstants
<1> HIDE DEF f, h
<1>8. /\ SumFunction(f) \in Nat /\ SumFunction(h) \in Nat
      /\ SumFunction(h) + f[q] = SumFunction(f) + h[q]
  BY <1>2, <1>3, <1>7, SumMove
<1>9. QED
  BY <1>4, <1>5, <1>6, <1>7, <1>8

LEMMA ConservedInit == Init => Counted /\ Conserved
<1> SUFFICES ASSUME Init PROVE Counted /\ Conserved
  OBVIOUS
<1>1. /\ owed = EmptyBag /\ posted = EmptyBag /\ said = EmptyBag
      /\ batch = [q \in Posters |-> EmptyBag] /\ kept = [q \in Posters |-> EmptyBag]
  BY DEF Init
<1>2. Counted
  BY <1>1, CountsOfNone DEF Counted
<1>3. ASSUME NEW n
      PROVE  SumFunction(HeldBy(n)) = 0
  <2> DEFINE f == HeldBy(n)
  <2>1. f = [q \in Posters |-> 0] /\ IsFiniteSet(Posters)
    BY <1>1, CountsOfNone, NoticeConstants DEF HeldBy
  <2> HIDE DEF f
  <2>2. SumFunction(f) = 0
    BY <2>1, SumZero
  <2>3. QED
    BY <2>2 DEF f
<1>4. Conserved
  BY <1>1, <1>3, CountsOfNone DEF Conserved
<1>5. QED
  BY <1>2, <1>4

\* What is owed is said, and held by nobody.
LEMMA OwingConserves ==
  ASSUME Counted, Conserved, UNCHANGED <<batch, kept, posted, absent>>,
         Silent \/ \E ns : Owe(ns)
  PROVE  Counted' /\ Conserved'
<1>1. \A n : HeldBy(n)' = HeldBy(n)
  BY DEF HeldBy
<1>2. CASE Silent
  BY <1>1, <1>2 DEF Silent, Counted, Conserved
<1>3. CASE \E ns : Owe(ns)
  <2>1. PICK ns : Owe(ns)
    BY <1>3
  <2> DEFINE new == SetToBag(ns)
  <2>2. IsCounted(new) /\ owed' = owed (+) new /\ said' = said (+) new
    BY <2>1, CountsOfSet DEF Owe
  <2> HIDE DEF new
  <2>3. /\ IsCounted(owed') /\ IsCounted(said')
        /\ \A n : /\ Count(n, new) \in Nat
                  /\ Count(n, owed') = Count(n, owed) + Count(n, new)
                  /\ Count(n, said') = Count(n, said) + Count(n, new)
    BY <2>2, CountsAdd DEF Counted
  <2>4. Counted'
    BY <2>3 DEF Counted
  <2>5. Conserved'
    BY <1>1, <2>3, HeldType DEF Conserved
  <2>6. QED
    BY <2>4, <2>5
<1>4. QED
  BY <1>2, <1>3

\* A poster's step conserves when what it puts down it had taken up.
LEMMA PosterConserves ==
  ASSUME Counted, Conserved, Counted', NEW q \in Posters, UNCHANGED <<said, absent>>,
         \A p \in Posters \ {q} : batch'[p] = batch[p] /\ kept'[p] = kept[p],
         \A n : Addressee(n) \notin absent =>
                  Count(n, owed') + Count(n, posted') + Count(n, batch'[q]) + Count(n, kept'[q])
                    = Count(n, owed) + Count(n, posted) + Count(n, batch[q]) + Count(n, kept[q])
  PROVE  Conserved'
<1>1. ASSUME NEW n, Addressee(n) \notin absent
      PROVE  Count(n, said') = Count(n, owed') + Count(n, posted') + SumFunction(HeldBy(n))'
  <2>1. /\ SumFunction(HeldBy(n))' \in Nat
        /\ SumFunction(HeldBy(n))' + Count(n, batch[q]) + Count(n, kept[q])
             = SumFunction(HeldBy(n)) + Count(n, batch'[q]) + Count(n, kept'[q])
    BY HeldMove
  <2>2. Count(n, said') = Count(n, owed) + Count(n, posted) + SumFunction(HeldBy(n))
    BY <1>1 DEF Conserved
  <2>3. Count(n, owed') + Count(n, posted') + Count(n, batch'[q]) + Count(n, kept'[q])
          = Count(n, owed) + Count(n, posted) + Count(n, batch[q]) + Count(n, kept[q])
    BY <1>1
  <2>4. /\ Count(n, owed') \in Nat /\ Count(n, posted') \in Nat
        /\ Count(n, batch'[q]) \in Nat /\ Count(n, kept'[q]) \in Nat
    BY DEF Counted, IsCounted, Count, BagIn, BagToSet
  <2>5. /\ Count(n, owed) \in Nat /\ Count(n, posted) \in Nat
        /\ Count(n, batch[q]) \in Nat /\ Count(n, kept[q]) \in Nat
        /\ SumFunction(HeldBy(n)) \in Nat
    BY HeldType
  <2>6. QED
    BY <2>1, <2>2, <2>3, <2>4, <2>5
<1>2. QED
  BY <1>1 DEF Conserved

LEMMA TakeConserves ==
  ASSUME Counted, Conserved, NEW q \in Posters, TakeOwed(q)
  PROVE  Counted' /\ Conserved'
<1>1. /\ batch' = [batch EXCEPT ![q] = owed] /\ batch[q] = EmptyBag
      /\ owed' = EmptyBag /\ UNCHANGED <<kept, posted, said, absent>>
  BY DEF TakeOwed, lives
<1>2. /\ \A p \in Posters \ {q} : batch'[p] = batch[p] /\ kept'[p] = kept[p]
      /\ batch'[q] = owed
      /\ batch' = [p \in Posters |-> batch'[p]]
  BY <1>1 DEF Counted
<1>3. Counted'
  BY <1>1, <1>2, CountsOfNone DEF Counted
<1>4. \A n : Count(n, owed') + Count(n, posted') + Count(n, batch'[q]) + Count(n, kept'[q])
              = Count(n, owed) + Count(n, posted) + Count(n, batch[q]) + Count(n, kept[q])
  BY <1>1, <1>2, CountsOfNone, HeldType
<1>5. QED
  BY <1>1, <1>2, <1>3, <1>4, PosterConserves

LEMMA GiveBackConserves ==
  ASSUME Counted, Conserved, NEW q \in Posters, GiveBack(q)
  PROVE  Counted' /\ Conserved'
<1>1. /\ kept' = [kept EXCEPT ![q] = EmptyBag]
      /\ owed' = kept[q] (+) owed /\ UNCHANGED <<batch, posted, said, absent>>
  BY DEF GiveBack, lives
<1>2. /\ \A p \in Posters \ {q} : batch'[p] = batch[p] /\ kept'[p] = kept[p]
      /\ kept'[q] = EmptyBag
      /\ kept' = [p \in Posters |-> kept'[p]]
  BY <1>1 DEF Counted
<1>3. IsCounted(owed') /\ \A n : Count(n, owed') = Count(n, kept[q]) + Count(n, owed)
  BY <1>1, CountsAdd DEF Counted
<1>4. Counted'
  BY <1>1, <1>2, <1>3, CountsOfNone DEF Counted
<1>5. \A n : Count(n, owed') + Count(n, posted') + Count(n, batch'[q]) + Count(n, kept'[q])
              = Count(n, owed) + Count(n, posted) + Count(n, batch[q]) + Count(n, kept[q])
  BY <1>1, <1>2, <1>3, CountsOfNone, HeldType
<1>6. QED
  BY <1>1, <1>2, <1>4, <1>5, PosterConserves

\* One notice leaves the batch: posted, kept, or dropped as its orchestrator is
\* gone.
LEMMA PostConserves ==
  ASSUME Counted, Conserved, NEW q \in Posters, NEW m, NEW room \in BOOLEAN, PostOne(q, m, room)
  PROVE  Counted' /\ Conserved'
<1> DEFINE rest == batch[q] (-) SetToBag({m})
           one == SetToBag({m})
<1>1. /\ batch' = [batch EXCEPT ![q] = rest] /\ BagIn(m, batch[q])
      /\ UNCHANGED <<owed, said, absent>>
      /\ \/ Addressee(m) \in absent /\ UNCHANGED <<kept, posted>>
         \/ posted' = posted (+) one /\ UNCHANGED kept
         \/ kept' = [kept EXCEPT ![q] = kept[q] (+) one] /\ UNCHANGED posted
  BY DEF PostOne, lives
<1>2. /\ IsCounted(rest)
      /\ \A n : Count(n, batch[q]) = Count(n, rest) + (IF n = m THEN 1 ELSE 0)
  BY <1>1, CountsTake DEF Counted
<1>3. IsCounted(one) /\ \A n : Count(n, one) = IF n = m THEN 1 ELSE 0
  BY CountsOfSet
<1> HIDE DEF rest, one
<1>4. /\ \A p \in Posters \ {q} : batch'[p] = batch[p] /\ kept'[p] = kept[p]
      /\ batch'[q] = rest
      /\ batch' = [p \in Posters |-> batch'[p]] /\ kept' = [p \in Posters |-> kept'[p]]
  BY <1>1 DEF Counted
<1>5. \A n : Count(n, rest) \in Nat
  BY <1>2 DEF IsCounted, Count, BagIn, BagToSet
<1>6. CASE Addressee(m) \in absent /\ UNCHANGED <<kept, posted>>
  <2>1. Counted'
    BY <1>1, <1>2, <1>4, <1>6 DEF Counted
  <2>2. \A n : Addressee(n) \notin absent =>
                 Count(n, owed') + Count(n, posted') + Count(n, batch'[q]) + Count(n, kept'[q])
                   = Count(n, owed) + Count(n, posted) + Count(n, batch[q]) + Count(n, kept[q])
    BY <1>1, <1>2, <1>4, <1>5, <1>6, HeldType
  <2>3. QED
    BY <1>1, <1>4, <2>1, <2>2, PosterConserves
<1>7. CASE posted' = posted (+) one /\ UNCHANGED kept
  <2>1. IsCounted(posted') /\ \A n : Count(n, posted') = Count(n, posted) + Count(n, one)
    BY <1>3, <1>7, CountsAdd DEF Counted
  <2>2. Counted'
    BY <1>1, <1>2, <1>4, <1>7, <2>1 DEF Counted
  <2>3. \A n : Count(n, owed') + Count(n, posted') + Count(n, batch'[q]) + Count(n, kept'[q])
                = Count(n, owed) + Count(n, posted) + Count(n, batch[q]) + Count(n, kept[q])
    BY <1>1, <1>2, <1>3, <1>4, <1>5, <1>7, <2>1, HeldType
  <2>4. QED
    BY <1>1, <1>4, <2>2, <2>3, PosterConserves
<1>8. CASE kept' = [kept EXCEPT ![q] = kept[q] (+) one] /\ UNCHANGED posted
  <2>1. kept'[q] = kept[q] (+) one
    BY <1>8 DEF Counted
  <2>2. IsCounted(kept'[q]) /\ \A n : Count(n, kept'[q]) = Count(n, kept[q]) + Count(n, one)
    BY <1>3, <2>1, CountsAdd DEF Counted
  <2>3. Counted'
    BY <1>1, <1>2, <1>4, <1>8, <2>2 DEF Counted
  <2>4. \A n : Count(n, owed') + Count(n, posted') + Count(n, batch'[q]) + Count(n, kept'[q])
                = Count(n, owed) + Count(n, posted) + Count(n, batch[q]) + Count(n, kept[q])
    BY <1>1, <1>2, <1>3, <1>4, <1>5, <1>8, <2>2, HeldType
  <2>5. QED
    BY <1>1, <1>4, <2>3, <2>4, PosterConserves
<1>9. QED
  BY <1>1, <1>6, <1>7, <1>8

LEMMA ConservedStep == Counted /\ Conserved /\ [Next]_vars => Counted' /\ Conserved'
<1> SUFFICES ASSUME Counted, Conserved, [Next]_vars
             PROVE  Counted' /\ Conserved'
  OBVIOUS
<1>1. CASE UNCHANGED vars
  BY <1>1, OwingConserves DEF vars, posting, lives, Silent
<1>2. CASE Delegating
  BY <1>2, OwingConserves DEF Delegating, Delegate, RetireForRestart, SupersedeForRestart,
     posting, lives
<1>3. CASE Delivering
  <2>1. UNCHANGED <<batch, kept, posted, absent>>
    BY <1>3 DEF Delivering, HandOut, Requeue, OutOfAttempts, Lapse, Regain, CancelDone, Commit,
       Cancel, Overdue, posting, lives
  <2>2. Silent \/ \E ns : Owe(ns)
    BY <1>3 DEF Delivering, HandOut, Requeue, OutOfAttempts, Lapse, Regain, CancelDone, Commit,
       Cancel, Overdue, EndCopy
  <2>3. QED
    BY <2>1, <2>2, OwingConserves
<1>4. CASE Reporting
  <2>1. UNCHANGED <<batch, kept, posted, absent>>
    BY <1>4 DEF Reporting, Exit, Claim, CommitClaim, FailClaim, posting, lives
  <2>2. Silent \/ \E ns : Owe(ns)
    BY <1>4 DEF Reporting, Exit, Claim, CommitClaim, FailClaim
  <2>3. QED
    BY <2>1, <2>2, OwingConserves
<1>5. CASE Posting
  <2>1. ASSUME NEW o \in Leaving, Depart(o)
        PROVE  Counted' /\ Conserved'
    <3>1. UNCHANGED <<owed, said, batch, kept, posted>> /\ absent \subseteq absent'
      BY <2>1 DEF Depart, Silent, posting
    <3>2. \A n : HeldBy(n)' = HeldBy(n)
      BY <3>1 DEF HeldBy
    <3>3. QED
      BY <3>1, <3>2 DEF Counted, Conserved
  <2>2. QED
    BY <1>5, <2>1, TakeConserves, GiveBackConserves, PostConserves DEF Posting
<1>6. QED
  BY <1>1, <1>2, <1>3, <1>4, <1>5 DEF Next

\* However many threads post at once, what an orchestrator in its pane was ever
\* owed is owed still, with a poster, or posted, and counted once.
THEOREM NoticesStayKept == Spec => []NoticesKept
<1>1. Conserved => NoticesKept
  BY DEF Conserved, NoticesKept, HeldBy
<1>2. QED
  BY <1>1, ConservedInit, ConservedStep, PTL DEF Spec
=============================================================================
