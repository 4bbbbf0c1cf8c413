--------------------------- MODULE AttemptsProofs ---------------------------
(***************************************************************************)
(* Proofs about the attempts of one agent generation, for any messages,    *)
(* receivers and limits, and that they implement Delivery.                 *)
(*                                                                         *)
(* Every step maps each message through operators on its attempts and then *)
(* through the finalizer.  Good says what holds of a message between two   *)
(* steps, Sound what holds of it at every point inside one; Leg relates a  *)
(* message before and after any part of a step and is transitive, so that  *)
(* a step of many parts, as the tick is, is the composition of its parts.  *)
(***************************************************************************)
EXTENDS Attempts, SetFacts, FiniteSetTheorems, TLAPS

-----------------------------------------------------------------------------
(* What holds of an attempt, of a message, and of a generation.             *)

TokenType == [kind : {"None", "Auto", "Manual"}, current : BOOLEAN]

MsgType ==
  [offer : BOOLEAN, a : Nat \ {0}, state : States, attempts : Seq(AttemptType),
   latch : BOOLEAN, auto_repeats : Nat, requeues : Nat, token : TokenType,
   waiting : {"No", "Since", "Over"}, corrected : BOOLEAN]

RxType ==
  [slot : Slots, state : {"Live", "Retired", "Gone"}, held : SUBSET (Ids \X Nat \X Nat),
   hold : BOOLEAN, closed : BOOLEAN, spent : BOOLEAN]

\* Of an attempt by itself: a check that counts missed no receipt it could have
\* found; a resume answer is owed only of an open attempt of a stream; a withheld
\* attempt is a once-waiter's, and nobody has seen it.
Whole(at) ==
  /\ at.cleared \/ at.checking # "No" => at.receipt # "Covered"
  /\ at.resume_pending => ~is_final(at.stage) /\ at.slot \in Streams
  /\ at.withheld => /\ at.slot = "OnceWaiter" /\ at.stage \in {"Issued", "Fenced"}
                    /\ at.receipt = "None" /\ ~at.found
                    /\ at.checking = "No" /\ ~at.reclaimed

\* Of an attempt of a message in state s, at assignment a: a fenced attempt keeps
\* its verifier until its message settles or its files are gone.
AttemptOK(R, s, a, at) ==
  /\ at \in AttemptType
  /\ Whole(at)
  /\ at.a <= a
  /\ at.rx \in DOMAIN R /\ R[at.rx].slot = at.slot
  /\ at.stage = "Fenced" /\ ~at.reclaimed /\ s # "Settled" => at.verifier
  /\ at.checking = "Verify" => is_terminal(s)

Autos(attempts) == {e \in DOMAIN attempts : IsAuto(attempts[e])}

\* The counters: a scheduled repeat has its place, an open message its requeue.
Counted(m) ==
  /\ m.auto_repeats <= MaxAutoRepeats
  /\ m.token.kind = "Auto" => m.auto_repeats < MaxAutoRepeats
  /\ m.requeues <= MaxDeliver
  /\ ~is_terminal(m.state) => m.requeues < MaxDeliver
  /\ Cardinality(Autos(m.attempts)) = m.auto_repeats
  /\ Len(m.attempts) <= MaxAttempts

\* Only an open message has a repeat scheduled, and nothing that is withheld
\* is repeated.
Scheduled(m) ==
  /\ m.token.kind # "None" => m.state \in {"Queued", "Attempting"}
  /\ m.token.kind = "Auto" => \A e \in Current(m) : ~m.attempts[e].withheld
  /\ is_terminal(m.state) => m.waiting = "No"

Sound(R, id, m) ==
  /\ m \in MsgType
  /\ m.offer = (id \in Offers)
  /\ m.state # "Exited"
  /\ \A e \in DOMAIN m.attempts : AttemptOK(R, m.state, m.a, m.attempts[e])
  /\ Counted(m)
  /\ Scheduled(m)

HasCommit(m) == \E e \in Current(m) : m.attempts[e].stage = "Committed"

Decided(m) ==
  HasCommit(m) =>
    \/ m.state = "Settled"
    \/ m.state = "Cancelled" /\ m.corrected
    \/ m.state = "MaxDeliver" /\ m.offer /\ m.corrected

Latched(m) == ~is_terminal(m.state) => (m.latch <=> m.state = "CancelHeld")

Good(R, id, m) == Sound(R, id, m) /\ Decided(m) /\ Latched(m)

\* Of a message whose agent is gone.
Over(id, m) ==
  /\ m \in MsgType /\ m.offer = (id \in Offers)
  /\ m.attempts = <<>> /\ is_terminal(m.state) /\ m.waiting = "No"
  /\ m.auto_repeats <= MaxAutoRepeats /\ m.requeues <= MaxDeliver

\* The attempts that reserve evidence
Reserving ==
  UNION {{<<id, e>> : e \in {f \in DOMAIN msgs[id].attempts :
                               ~msgs[id].attempts[f].reclaimed}} : id \in Known}

\* Every name handed out is behind what its message is at.
Behind(u) ==
  LET m == msgs[u[1]]
  IN /\ m = NoMsg => u[2] <= forgotten
     /\ m # NoMsg => u[2] < m.a \/ (u[2] = m.a /\ u[3] <= Len(m.attempts))

Shapes ==
  /\ DOMAIN msgs = Ids
  /\ rxs \in Seq(RxType)
  /\ forgotten \in 0..MaxForgotten
  /\ phase \in {"Idle", "Read"}
  /\ busy \in BOOLEAN
  /\ exited \in BOOLEAN
  /\ used \subseteq Ids \X Nat \X Nat

\* The inductive invariant.
IInv ==
  /\ Shapes
  /\ \A id \in Known : IF exited THEN Over(id, msgs[id]) ELSE Good(rxs, id, msgs[id])
  /\ ~exited => \A u \in used : Behind(u)
  /\ IsFiniteSet(Reserving) /\ Cardinality(Reserving) <= EvidenceRoom

-----------------------------------------------------------------------------
(* What a part of a step may do.                                            *)

OpenStates == {"Queued", "Attempting", "Lapsed", "OutOfAttempts"}

\* at becomes bt, of a message that was latched or not and comes to state s
Stays(latch, s, at, bt) ==
  /\ bt.a = at.a /\ bt.kind = at.kind /\ bt.slot = at.slot
  /\ at.reclaimed => bt.reclaimed
  /\ is_final(at.stage) => is_final(bt.stage)
  /\ at.stage = "Committed" => bt.stage = "Committed"
  /\ bt.withheld => at.withheld
  /\ latch /\ at.withheld /\ ~bt.withheld => is_final(bt.stage)
  /\ at.stage = "Fenced" /\ ~at.reclaimed /\ at.receipt = "Covered" =>
       \/ bt.stage = "Fenced" /\ ~bt.reclaimed /\ bt.receipt = "Covered"
       \/ bt.stage = "Committed" \/ s = "Settled"

Leg(m, n) ==
  /\ DOMAIN n.attempts = DOMAIN m.attempts
  /\ n.a >= m.a /\ n.auto_repeats = m.auto_repeats
  /\ m.latch => n.latch
  /\ m.state = "Settled" => n.state = "Settled"
  /\ \A e \in DOMAIN m.attempts : Stays(m.latch, n.state, m.attempts[e], n.attempts[e])

\* Nothing new was committed
Turn(m, n) ==
  /\ n.corrected = m.corrected
  /\ is_terminal(m.state) => n.state = m.state
  /\ m.state = "CancelHeld" => n.state \in {"CancelHeld", "Cancelled"}
  /\ m.state \in OpenStates => n.state \in OpenStates \cup {"CancelHeld", "Cancelled", "MaxDeliver"}

\* A commit was learned
Learn(m, n) ==
  \/ m.state \in {"Queued", "Attempting"} /\ n.state = "Settled" /\ n.corrected = m.corrected
  \/ m.state \in UncertainStates \cup {"CancelHeld"} /\ n.state = "Settled" /\ n.corrected
  \/ m.state = "MaxDeliver" /\ ~m.offer /\ n.state = "Settled" /\ n.corrected
  \/ m.state \in {"Cancelled", "MaxDeliver"} /\ n.state = m.state /\ n.corrected
  \/ m.state = "Settled" /\ n.state = "Settled" /\ n.corrected = m.corrected

Moves(m, n) == Leg(m, n) /\ (Turn(m, n) \/ Learn(m, n))

\* A step that hands out and forgets nothing
Ordinary ==
  /\ forgotten' = forgotten /\ used' = used /\ ~exited /\ ~exited'
  /\ \A id \in Ids : IF id \in Known THEN Good(rxs', id, msgs'[id]) /\ Moves(msgs[id], msgs'[id])
                                     ELSE msgs'[id] = NoMsg


USE DEF is_terminal, TerminalStates, is_final, UncertainStates

-----------------------------------------------------------------------------
(* Attempts: what the operators on one attempt keep.                        *)

\* bt may take at's place in a message in state s at assignment a.
Fits(R, s, a, latch, at, bt) == AttemptOK(R, s, a, bt) /\ Stays(latch, s, at, bt)

\* An attempt may be left as it is.
LEMMA LeftAlone ==
  ASSUME NEW R, NEW s, NEW a, NEW latch, NEW at, AttemptOK(R, s, a, at)
  PROVE  Fits(R, s, a, latch, at, at)
BY DEF Fits, Stays, AttemptOK, AttemptType

\* Only the slots of the receivers matter.
SameSlots(R, Q) == \A r \in DOMAIN R : r \in DOMAIN Q /\ Q[r].slot = R[r].slot

LEMMA OtherReceivers ==
  ASSUME NEW R, NEW Q, SameSlots(R, Q), NEW s, NEW a, NEW at, AttemptOK(R, s, a, at)
  PROVE  AttemptOK(Q, s, a, at)
BY DEF SameSlots, AttemptOK

\* What reclaim makes of an attempt of a message in state s.
Reclaimed(s, at) ==
  IF \/ at.reclaimed
     \/ /\ is_terminal(s) /\ is_final(at.stage) /\ ~at.resume_pending
        /\ ~(at.verifier /\ s # "Settled") /\ ~at.withheld
  THEN Bare(at) ELSE [at EXCEPT !.verifier = at.verifier /\ s # "Settled"]

\* Reclaiming keeps a receipt that would be found, unless the message settled.
LEMMA ReclaimFits ==
  ASSUME NEW R, NEW s, NEW a, NEW latch, NEW at, AttemptOK(R, s, a, at)
  PROVE  Fits(R, s, a, latch, at, Reclaimed(s, at)) /\ Reclaimed(s, at).stage = at.stage
<1>1. CASE Reclaimed(s, at) = Bare(at)
  <2>1. at \in AttemptType /\ Bare(at) \in AttemptType
    BY DEF AttemptOK, AttemptType, Bare
  <2>2. /\ Bare(at).stage = at.stage /\ Bare(at).a = at.a /\ Bare(at).kind = at.kind
        /\ Bare(at).slot = at.slot /\ Bare(at).rx = at.rx /\ Bare(at).reclaimed
        /\ Bare(at).withheld = at.withheld /\ Bare(at).checking = "No" /\ ~Bare(at).cleared
        /\ Bare(at).resume_pending = at.resume_pending
    BY <2>1 DEF AttemptType, Bare
  <2>3. ~at.withheld
    BY <1>1, <2>2 DEF Reclaimed, AttemptOK, AttemptType, Whole
  <2>4. AttemptOK(R, s, a, Bare(at))
    BY <2>1, <2>2, <2>3 DEF AttemptOK, Whole
  <2>5. Stays(latch, s, at, Bare(at))
    <3>1. CASE at.stage = "Fenced" /\ ~at.reclaimed /\ at.receipt = "Covered"
      <4>1. s = "Settled"
        BY <3>1, <1>1, <2>2 DEF Reclaimed, AttemptOK, AttemptType
      <4> QED BY <4>1, <2>2, <2>3 DEF Stays
    <3>2. CASE ~(at.stage = "Fenced" /\ ~at.reclaimed /\ at.receipt = "Covered")
      BY <3>2, <2>2, <2>3 DEF Stays
    <3> QED BY <3>1, <3>2
  <2> QED BY <1>1, <2>2, <2>4, <2>5 DEF Fits
<1>2. CASE Reclaimed(s, at) = [at EXCEPT !.verifier = at.verifier /\ s # "Settled"]
  BY <1>2 DEF Fits, AttemptOK, AttemptType, Whole, Stays
<1> QED BY <1>1, <1>2 DEF Reclaimed

\* Whatever is checked again keeps its receipts.
LEMMA RecheckFits ==
  ASSUME NEW R, NEW s, NEW a, NEW latch, NEW at, AttemptOK(R, s, a, at)
  PROVE  Fits(R, s, a, latch, at, recheck(at)) /\ recheck(at).stage = at.stage
BY DEF Fits, AttemptOK, AttemptType, Whole, Stays, recheck

\* An open attempt that owes no answer may be fenced.
LEMMA FenceFits ==
  ASSUME NEW R, NEW s, NEW a, NEW latch, NEW at, AttemptOK(R, s, a, at),
         ~is_final(at.stage), ~at.resume_pending
  PROVE  Fits(R, s, a, latch, at, fence(at)) /\ fence(at).stage = "Fenced"
BY DEF Fits, AttemptOK, AttemptType, Whole, Stays, recheck, fence, Stages

\* Whether an approval is in use says nothing else of the attempt.
LEMMA StillInUse ==
  ASSUME NEW R, NEW s, NEW a, NEW latch, NEW at, NEW bt, Fits(R, s, a, latch, at, bt)
  PROVE  Fits(R, s, a, latch, at, [bt EXCEPT !.in_use = TRUE])
<1>1. bt \in AttemptType
  BY DEF Fits, AttemptOK
<1> DEFINE ct == [bt EXCEPT !.in_use = TRUE]
<1>2. ct \in AttemptType
  BY <1>1 DEF AttemptType
<1>3. /\ ct.a = bt.a /\ ct.rx = bt.rx /\ ct.slot = bt.slot /\ ct.stage = bt.stage
      /\ ct.kind = bt.kind /\ ct.cleared = bt.cleared /\ ct.checking = bt.checking
      /\ ct.found = bt.found /\ ct.receipt = bt.receipt /\ ct.verifier = bt.verifier
      /\ ct.resume_pending = bt.resume_pending /\ ct.reclaimed = bt.reclaimed
      /\ ct.withheld = bt.withheld
  BY <1>1 DEF AttemptType
<1> HIDE DEF ct
<1>4. AttemptOK(R, s, a, ct) /\ Stays(latch, s, at, ct)
  BY <1>2, <1>3 DEF Fits, AttemptOK, Whole, Stays
<1> QED BY <1>4 DEF Fits, ct

LEMMA ShotClosedFits ==
  ASSUME NEW R, NEW s, NEW a, NEW latch, NEW at, AttemptOK(R, s, a, at), one_shot(at.slot)
  PROVE  /\ Fits(R, s, a, latch, at, ShotClosed(at))
         /\ ShotClosed(at).stage = "Committed" => at.stage = "Committed"
<1>1. CASE is_final(at.stage)
  BY <1>1, LeftAlone DEF ShotClosed
<1>2. CASE ~is_final(at.stage)
  <2>1. ~at.resume_pending
    BY DEF AttemptOK, Whole, one_shot, Streams
  <2>2. Fits(R, s, a, latch, at, fence(at)) /\ fence(at).stage = "Fenced"
    BY <1>2, <2>1, FenceFits
  <2>3. Fits(R, s, a, latch, at, [fence(at) EXCEPT !.in_use = TRUE])
    BY <2>2, StillInUse
  <2>4. [fence(at) EXCEPT !.in_use = TRUE].stage = "Fenced"
    BY <2>2 DEF Fits, AttemptOK, AttemptType
  <2> QED BY <1>2, <2>3, <2>4 DEF ShotClosed
<1> QED BY <1>1, <1>2

\* An attempt that its deck or receiver knows was not handed.
LEMMA RefusedFits ==
  ASSUME NEW R, NEW s, NEW a, NEW latch, NEW at, AttemptOK(R, s, a, at),
         ~is_final(at.stage), ~at.resume_pending, ~at.withheld
  PROVE  Fits(R, s, a, latch, at, Refused(at)) /\ Refused(at).stage = "NotHanded"
BY DEF Fits, AttemptOK, AttemptType, Whole, Stays, Refused, Stages

\* The deck's own witness, on an attempt with no receipt: no longer withheld.
LEMMA WitnessFits ==
  ASSUME NEW R, NEW s, NEW a, NEW latch, NEW at, AttemptOK(R, s, a, at),
         at.withheld \/ (/\ at.stage \in {"Issued", "Fenced"} /\ at.receipt = "None"
                         /\ ~at.resume_pending)
  PROVE  /\ Fits(R, s, a, latch, at, DeckWitness(Released(at)))
         /\ DeckWitness(Released(at)).stage = "NotHanded"
<1> DEFINE bt == DeckWitness(Released(at))
<1>1. at \in AttemptType /\ at.stage \in {"Issued", "Fenced"} /\ at.receipt = "None"
  BY DEF AttemptOK, Whole
<1>2. bt \in AttemptType
  BY <1>1 DEF DeckWitness, Released, Refused, AttemptType, Stages
<1>3. /\ bt.a = at.a /\ bt.rx = at.rx /\ bt.slot = at.slot /\ bt.stage = "NotHanded"
      /\ bt.kind = at.kind /\ bt.checking = at.checking /\ bt.receipt = "None"
      /\ bt.resume_pending = at.resume_pending /\ bt.reclaimed = at.reclaimed
      /\ ~bt.withheld /\ ~bt.cleared
  BY <1>1 DEF DeckWitness, Released, Refused, AttemptType
<1>4. ~at.resume_pending
  BY DEF AttemptOK, Whole, Streams
<1> HIDE DEF bt
<1>5. AttemptOK(R, s, a, bt) /\ Stays(latch, s, at, bt)
  BY <1>1, <1>2, <1>3, <1>4 DEF AttemptOK, Whole, Stays
<1> QED BY <1>3, <1>5 DEF Fits, bt

\* A withheld attempt of a message that is not cancelled may be released.
LEMMA ReleasedFits ==
  ASSUME NEW R, NEW s, NEW a, NEW at, AttemptOK(R, s, a, at), at.withheld
  PROVE  Fits(R, s, a, FALSE, at, Released(at)) /\ Released(at).stage = at.stage
BY DEF Fits, AttemptOK, AttemptType, Whole, Stays, Released, Streams

\* An attempt of which a receipt was found, or a commit told.
LEMMA CommittedFits ==
  ASSUME NEW R, NEW s, NEW a, NEW latch, NEW at, AttemptOK(R, s, a, at), ~at.withheld
  PROVE  Fits(R, s, a, latch, at, Committed(at)) /\ Committed(at).stage = "Committed"
<1> DEFINE bt == Committed(at)
<1>1. at \in AttemptType
  BY DEF AttemptOK
<1>2. bt \in AttemptType
  BY <1>1 DEF Committed, AttemptType, Stages
<1>3. /\ bt.a = at.a /\ bt.rx = at.rx /\ bt.slot = at.slot /\ bt.stage = "Committed"
      /\ bt.kind = at.kind /\ bt.checking = "No" /\ ~bt.resume_pending
      /\ bt.reclaimed = at.reclaimed /\ bt.withheld = at.withheld /\ ~bt.cleared
  BY <1>1 DEF Committed, AttemptType
<1> HIDE DEF bt
<1>4. AttemptOK(R, s, a, bt) /\ Stays(latch, s, at, bt)
  BY <1>1, <1>2, <1>3 DEF AttemptOK, Whole, Stays
<1> QED BY <1>3, <1>4 DEF Fits, bt

-----------------------------------------------------------------------------
(* Messages: changing attempts, changing the rest, and composing the parts. *)

Remap(m, f) == [m EXCEPT !.attempts = f]

\* f gives each attempt of m one that fits, with the receivers Q.
Replaces(Q, m, f) ==
  /\ f = [e \in DOMAIN m.attempts |-> f[e]]
  /\ \A e \in DOMAIN m.attempts : Fits(Q, m.state, m.a, m.latch, m.attempts[e], f[e])

\* f commits nothing that was not committed.
CommitsNothing(m, f) ==
  \A e \in DOMAIN m.attempts : f[e].stage = "Committed" => m.attempts[e].stage = "Committed"

\* Other attempts leave the rest of the record, and the number of attempts.
LEMMA RemapFields ==
  ASSUME NEW m \in MsgType, NEW f \in [DOMAIN m.attempts -> AttemptType]
  PROVE  LET n == Remap(m, f)
         IN /\ n \in MsgType /\ n.attempts = f
            /\ DOMAIN f = DOMAIN m.attempts /\ Len(f) = Len(m.attempts)
            /\ n.offer = m.offer /\ n.a = m.a /\ n.state = m.state /\ n.latch = m.latch
            /\ n.auto_repeats = m.auto_repeats /\ n.requeues = m.requeues
            /\ n.token = m.token /\ n.waiting = m.waiting /\ n.corrected = m.corrected
<1>1. m.attempts \in Seq(AttemptType)
  BY DEF MsgType
<1>2. f \in Seq(AttemptType) /\ Len(f) = Len(m.attempts) /\ DOMAIN f = DOMAIN m.attempts
  BY <1>1
<1> QED BY <1>2 DEF MsgType, Remap

\* A message with attempts that fit is as sound as it was, and unless something
\* was committed as good.
LEMMA RemapSound ==
  ASSUME NEW R, NEW Q, NEW id, NEW m, Sound(R, id, m), NEW f, Replaces(Q, m, f)
  PROVE  /\ Sound(Q, id, Remap(m, f)) /\ Leg(m, Remap(m, f)) /\ Turn(m, Remap(m, f))
         /\ Remap(m, f).attempts = f /\ Current(Remap(m, f)) = Current(m)
         /\ Remap(m, f).state = m.state /\ Remap(m, f).latch = m.latch
         /\ Remap(m, f).token = m.token /\ Remap(m, f).a = m.a
         /\ Remap(m, f).corrected = m.corrected
         /\ Latched(m) => Latched(Remap(m, f))
         /\ CommitsNothing(m, f) /\ Decided(m) => Decided(Remap(m, f))
<1> DEFINE n == Remap(m, f)
<1>1. m \in MsgType
  BY DEF Sound
<1>2. f \in [DOMAIN m.attempts -> AttemptType]
  BY DEF Replaces, Fits, AttemptOK
<1>3. /\ n \in MsgType /\ n.attempts = f
      /\ DOMAIN f = DOMAIN m.attempts /\ Len(f) = Len(m.attempts)
      /\ n.offer = m.offer /\ n.a = m.a /\ n.state = m.state /\ n.latch = m.latch
      /\ n.auto_repeats = m.auto_repeats /\ n.requeues = m.requeues
      /\ n.token = m.token /\ n.waiting = m.waiting /\ n.corrected = m.corrected
  BY <1>1, <1>2, RemapFields
<1> HIDE DEF n
<1>4. \A e \in DOMAIN m.attempts : /\ AttemptOK(Q, n.state, n.a, f[e])
                                   /\ Stays(m.latch, n.state, m.attempts[e], f[e])
  BY <1>3 DEF Replaces, Fits
<1>5. \A e \in DOMAIN m.attempts : /\ f[e].a = m.attempts[e].a
                                   /\ f[e].kind = m.attempts[e].kind
                                   /\ f[e].withheld => m.attempts[e].withheld
  BY <1>4 DEF Stays
<1>6. Current(n) = Current(m) /\ Autos(n.attempts) = Autos(m.attempts)
  BY <1>3, <1>5 DEF Current, Autos, IsAuto
<1>7. Counted(n)
  BY <1>3, <1>6 DEF Sound, Counted
<1>8. Scheduled(n)
  <2>1. \A e \in Current(m) : e \in DOMAIN m.attempts
    BY DEF Current
  <2> QED BY <2>1, <1>3, <1>5, <1>6 DEF Sound, Scheduled
<1>9. Sound(Q, id, n)
  BY <1>3, <1>4, <1>7, <1>8 DEF Sound
<1>10. Leg(m, n)
  BY <1>1, <1>3, <1>4 DEF Leg, MsgType
<1>11. Turn(m, n)
  <2>1. m.state \in States
    BY <1>1 DEF MsgType
  <2> QED BY <2>1, <1>3 DEF Turn, OpenStates, States
<1>12. CommitsNothing(m, f) /\ Decided(m) => Decided(n)
  <2>1. \A e \in Current(m) : e \in DOMAIN m.attempts
    BY DEF Current
  <2> QED BY <2>1, <1>3, <1>6 DEF CommitsNothing, Decided, HasCommit
<1>13. Latched(m) => Latched(n)
  BY <1>3 DEF Latched
<1> QED BY <1>3, <1>6, <1>9, <1>10, <1>11, <1>12, <1>13 DEF n

\* A record changed in the fields that the rules assign.
LEMMA Restated ==
  ASSUME NEW R, NEW id, NEW m, Sound(R, id, m), NEW n, n \in MsgType,
         n.attempts = m.attempts, n.offer = m.offer, n.a >= m.a, n.latch = m.latch,
         n.auto_repeats = m.auto_repeats, n.state # "Exited",
         m.state = "Settled" => n.state = "Settled",
         is_terminal(m.state) => is_terminal(n.state),
         Counted(n), Scheduled(n)
  PROVE  Sound(R, id, n) /\ Leg(m, n)
<1>1. \A e \in DOMAIN m.attempts :
        AttemptOK(R, n.state, n.a, m.attempts[e]) /\ m.attempts[e].a <= n.a
  <2>1. SUFFICES ASSUME NEW e \in DOMAIN m.attempts
                 PROVE  AttemptOK(R, n.state, n.a, m.attempts[e]) /\ m.attempts[e].a <= n.a
    OBVIOUS
  <2>2. AttemptOK(R, m.state, m.a, m.attempts[e])
    BY DEF Sound
  <2>3. m.a \in Nat /\ n.a \in Nat /\ m.attempts[e].a \in Nat
    BY <2>2 DEF Sound, MsgType, AttemptOK, AttemptType
  <2> QED BY <2>2, <2>3 DEF AttemptOK
<1>2. \A e \in DOMAIN m.attempts : Stays(m.latch, n.state, m.attempts[e], n.attempts[e])
  BY <1>1, LeftAlone DEF Fits
<1> QED BY <1>1, <1>2 DEF Sound, Leg

\* The parts of a step compose.
LEMMA LegTrans ==
  ASSUME NEW m, NEW n, NEW o, Leg(m, n), Leg(n, o),
         m.a \in Nat, n.a \in Nat, o.a \in Nat
  PROVE  Leg(m, o)
<1>1. \A e \in DOMAIN m.attempts : Stays(m.latch, o.state, m.attempts[e], o.attempts[e])
  <2>1. SUFFICES ASSUME NEW e \in DOMAIN m.attempts
                 PROVE  Stays(m.latch, o.state, m.attempts[e], o.attempts[e])
    OBVIOUS
  <2>2. /\ Stays(m.latch, n.state, m.attempts[e], n.attempts[e])
        /\ Stays(n.latch, o.state, n.attempts[e], o.attempts[e])
        /\ m.latch => n.latch
        /\ n.state = "Settled" => o.state = "Settled"
    BY DEF Leg
  <2> QED BY <2>2 DEF Stays
<1> QED BY <1>1 DEF Leg

Quiet(m, n) == Leg(m, n) /\ Turn(m, n)

LEMMA QuietTrans ==
  ASSUME NEW m \in MsgType, NEW n \in MsgType, NEW o \in MsgType, Quiet(m, n), Quiet(n, o)
  PROVE  Quiet(m, o)
<1>1. Leg(m, o)
  BY LegTrans DEF Quiet, MsgType
<1>2. m.state \in States /\ n.state \in States
  BY DEF MsgType
<1>3. Turn(m, o)
  BY <1>2 DEF Quiet, Turn, States, OpenStates
<1> QED BY <1>1, <1>3 DEF Quiet

LEMMA MovesTrans ==
  ASSUME NEW m \in MsgType, NEW n \in MsgType, NEW o \in MsgType, Moves(m, n), Quiet(n, o)
  PROVE  Moves(m, o)
<1>1. Leg(m, o)
  BY LegTrans DEF Quiet, Moves, MsgType
<1>2. m.state \in States /\ n.state \in States
  BY DEF MsgType
<1>3. CASE Turn(m, n)
  BY <1>1, <1>3, QuietTrans DEF Quiet, Moves
<1>4. CASE Learn(m, n)
  BY <1>1, <1>2, <1>4 DEF Quiet, Moves, Turn, Learn
<1> QED BY <1>3, <1>4 DEF Moves

-----------------------------------------------------------------------------
(* The finalizer.                                                           *)

\* What the finalizer reads.
LEMMA FactsAre ==
  ASSUME NEW R, NEW b, NEW id, NEW m
  PROVE  LET f == Facts(R, b, id, m)
         IN /\ f.committed <=> HasCommit(m)
            /\ f.none_issued <=> Current(m) = {}
            /\ f.all_not_handed <=> /\ Current(m) # {}
                                    /\ \A e \in Current(m) : m.attempts[e].stage = "NotHanded"
            /\ f.resuming <=> \E e \in Current(m) : m.attempts[e].resume_pending
                                                    \/ m.attempts[e].withheld
            /\ f.held <=> \E e \in Current(m) : possessed(R, b, id, e, m.attempts[e])
BY DEF Facts, HasCommit

\* What every rule leaves of a message.
Rest(m, n) ==
  /\ n \in MsgType
  /\ n.attempts = m.attempts /\ n.offer = m.offer /\ n.latch = m.latch
  /\ n.auto_repeats = m.auto_repeats

\* Setting the state resets the revision of the token at most.
LEMMA SetState ==
  ASSUME NEW m \in MsgType, NEW s \in States
  PROVE  LET n == set_state(m, s)
         IN /\ Rest(m, n) /\ n.state = s /\ n.a = m.a /\ n.requeues = m.requeues
            /\ n.token.kind = m.token.kind /\ n.waiting = m.waiting
            /\ n.corrected = m.corrected
BY DEF set_state, MsgType, TokenType, Rest

LEMMA UnscheduledIs ==
  ASSUME NEW m \in MsgType
  PROVE  LET n == Unscheduled(m)
         IN /\ Rest(m, n) /\ n.state = m.state /\ n.a = m.a /\ n.requeues = m.requeues
            /\ n.token.kind = "None" /\ n.waiting = "No" /\ n.corrected = m.corrected
BY DEF Unscheduled, NoToken, MsgType, TokenType, Rest

\* Rule 1
LEMMA CommittedRule ==
  ASSUME NEW R, NEW id, NEW m, Sound(R, id, m)
  PROVE  LET n == RuleCommitted(m)
         IN /\ Rest(m, n) /\ n.a = m.a /\ Sound(R, id, n) /\ Leg(m, n)
            /\ is_terminal(n.state)
            /\ \/ n.state = "Settled"
               \/ n.state = "Cancelled" /\ n.corrected
               \/ n.state = "MaxDeliver" /\ n.offer /\ n.corrected
            /\ Latched(m) => Learn(m, n)
            /\ Decided(m) /\ HasCommit(m) => Turn(m, n)
<1> DEFINE n == RuleCommitted(m)
           u == Unscheduled(m)
           s == set_state(u, "Settled")
           t == set_state(m, "Settled")
<1>1. m \in MsgType /\ m.state \in States /\ m.state # "Exited"
  BY DEF Sound, MsgType
<1>2. "Settled" \in States
  BY DEF States
<1>3. /\ Rest(m, u) /\ u.state = m.state /\ u.a = m.a /\ u.requeues = m.requeues
      /\ u.token.kind = "None" /\ u.waiting = "No" /\ u.corrected = m.corrected
  BY <1>1, UnscheduledIs
<1>4. /\ Rest(m, s) /\ s.state = "Settled" /\ s.a = m.a /\ s.requeues = m.requeues
      /\ s.token.kind = "None" /\ s.waiting = "No" /\ s.corrected = m.corrected
  <2>1. u \in MsgType
    BY <1>3 DEF Rest
  <2> QED BY <1>2, <1>3, <2>1, SetState DEF Rest
<1>5. /\ Rest(m, t) /\ t.state = "Settled" /\ t.a = m.a /\ t.requeues = m.requeues
      /\ t.token.kind = m.token.kind /\ t.waiting = m.waiting
  BY <1>1, <1>2, SetState
<1>6. /\ Rest(m, n) /\ n.a = m.a /\ n.requeues = m.requeues
      /\ is_terminal(n.state) /\ n.state # "Exited"
      /\ m.state = "Settled" => n.state = "Settled"
      /\ n.token.kind = "None" /\ n.waiting = "No"
      /\ IF is_terminal(m.state)
         THEN IF m.state = "MaxDeliver" /\ ~m.offer
              THEN n.state = "Settled" /\ n.corrected
              ELSE n.state = m.state /\ n.corrected = (m.corrected \/ m.state \in {"Cancelled", "MaxDeliver"})
         ELSE n.state = "Settled" /\ n.corrected = (m.corrected \/ m.latch \/ m.state \in UncertainStates)
  <2> HIDE DEF u, s, t
  <2>1. CASE m.state = "MaxDeliver" /\ ~m.offer
    <3>1. n = [t EXCEPT !.corrected = TRUE]
      BY <2>1 DEF RuleCommitted, t
    <3>2. m.token.kind = "None" /\ m.waiting = "No"
      BY <2>1 DEF Sound, Scheduled, MsgType, TokenType
    <3> QED BY <2>1, <3>1, <3>2, <1>5 DEF Rest, MsgType
  <2>2. CASE ~(m.state = "MaxDeliver" /\ ~m.offer) /\ is_terminal(m.state)
    <3>1. n = [m EXCEPT !.corrected = @ \/ m.state \in {"Cancelled", "MaxDeliver"}]
      BY <2>2 DEF RuleCommitted
    <3>2. m.token.kind = "None" /\ m.waiting = "No"
      BY <2>2 DEF Sound, Scheduled, MsgType, TokenType
    <3> QED BY <1>1, <2>2, <3>1, <3>2 DEF Rest, MsgType
  <2>3. CASE ~is_terminal(m.state)
    <3>1. n = [s EXCEPT !.corrected = @ \/ m.latch \/ m.state \in UncertainStates]
      BY <2>3 DEF RuleCommitted, s, u
    <3> QED BY <2>3, <3>1, <1>1, <1>4 DEF Rest, MsgType
  <2> QED BY <2>1, <2>2, <2>3
<1> HIDE DEF n
<1>7. Counted(n) /\ Scheduled(n)
  BY <1>6 DEF Sound, Counted, Scheduled, Rest
<1>8. Sound(R, id, n) /\ Leg(m, n)
  <2>1. n.a >= m.a
    BY <1>1, <1>6 DEF MsgType
  <2> QED BY <1>1, <1>6, <1>7, <2>1, Restated DEF Rest
<1>9. \/ n.state = "Settled"
      \/ n.state = "Cancelled" /\ n.corrected
      \/ n.state = "MaxDeliver" /\ n.offer /\ n.corrected
  BY <1>1, <1>6 DEF States, Rest
<1>10. ASSUME Latched(m) PROVE Learn(m, n)
  BY <1>1, <1>6, <1>10 DEF Latched, Learn, States, MsgType
<1>11. ASSUME Decided(m), HasCommit(m) PROVE Turn(m, n)
  BY <1>1, <1>6, <1>11 DEF Decided, Turn, OpenStates, MsgType
<1> QED BY <1>6, <1>8, <1>9, <1>10, <1>11 DEF n

\* What the other rules make of a message that has not ended.
Ruled(R, id, m, n) ==
  /\ Rest(m, n) /\ Sound(R, id, n) /\ Leg(m, n) /\ n.corrected = m.corrected

\* From what a rule assigns to what it keeps.
LEMMA RuledBy ==
  ASSUME NEW R, NEW id, NEW m, Sound(R, id, m), NEW n, Rest(m, n), n.a >= m.a,
         n.corrected = m.corrected, ~is_terminal(m.state), n.state # "Exited",
         Counted(n), Scheduled(n)
  PROVE  Ruled(R, id, m, n)
<1>1. Sound(R, id, n) /\ Leg(m, n)
  BY Restated DEF Rest
<1> QED BY <1>1 DEF Ruled

\* Rule 2
LEMMA LatchedRule ==
  ASSUME NEW R, NEW id, NEW m, Sound(R, id, m), ~is_terminal(m.state), NEW f
  PROVE  LET n == RuleLatched(m, f)
         IN /\ Ruled(R, id, m, n) /\ n.a = m.a
            /\ n.state \in {"Cancelled", "CancelHeld"}
<1> DEFINE n == RuleLatched(m, f)
           u == Unscheduled(m)
           to == IF f.all_final THEN "Cancelled" ELSE "CancelHeld"
<1>1. m \in MsgType /\ to \in States
  BY DEF Sound, States
<1>2. /\ Rest(m, u) /\ u.state = m.state /\ u.a = m.a /\ u.requeues = m.requeues
      /\ u.token.kind = "None" /\ u.waiting = "No" /\ u.corrected = m.corrected
  BY <1>1, UnscheduledIs
<1>3. n = set_state(u, to)
  BY DEF RuleLatched
<1> HIDE DEF n, u
<1>4. /\ Rest(m, n) /\ n.state = to /\ n.a = m.a /\ n.requeues = m.requeues
      /\ n.token.kind = "None" /\ n.waiting = "No" /\ n.corrected = m.corrected
  <2>1. u \in MsgType
    BY <1>2 DEF Rest
  <2> QED BY <1>1, <1>2, <1>3, <2>1, SetState DEF Rest
<1>5. Counted(n) /\ Scheduled(n)
  BY <1>4 DEF Sound, Counted, Scheduled, Rest
<1>6. n.a >= m.a
  BY <1>1, <1>4 DEF MsgType
<1>7. Ruled(R, id, m, n)
  BY <1>4, <1>5, <1>6, RuledBy
<1> QED BY <1>4, <1>7 DEF n

\* Rule 3
LEMMA NotHandedRule ==
  ASSUME NEW R, NEW id, NEW m, Sound(R, id, m), ~is_terminal(m.state)
  PROVE  LET n == RuleNotHanded(m)
         IN /\ Ruled(R, id, m, n) /\ n.a \in {m.a, m.a + 1}
            /\ n.state \in {"Queued", "MaxDeliver"}
<1> DEFINE n == RuleNotHanded(m)
           u == Unscheduled(m)
           v == [u EXCEPT !.requeues = @ + 1]
           w == [v EXCEPT !.a = IF m.offer THEN @ + 1 ELSE @]
<1>1. m \in MsgType /\ {"Queued", "MaxDeliver"} \subseteq States
  BY DEF Sound, States
<1>2. /\ Rest(m, u) /\ u.state = m.state /\ u.a = m.a /\ u.requeues = m.requeues
      /\ u.token.kind = "None" /\ u.waiting = "No" /\ u.corrected = m.corrected
  BY <1>1, UnscheduledIs
<1>3. /\ Rest(m, v) /\ v.a = m.a /\ v.requeues = m.requeues + 1
      /\ v.token.kind = "None" /\ v.waiting = "No" /\ v.corrected = m.corrected
  <2> HIDE DEF u
  <2> QED BY <1>2 DEF Rest, MsgType
<1>4. /\ Rest(m, w) /\ w.a \in {m.a, m.a + 1} /\ w.requeues = m.requeues + 1
      /\ w.token.kind = "None" /\ w.waiting = "No" /\ w.corrected = m.corrected
  <2>1. m.a \in Nat \ {0}
    BY <1>1 DEF MsgType
  <2> HIDE DEF v
  <2> QED BY <2>1, <1>3 DEF Rest, MsgType
<1>5. MaxDeliver \in Nat /\ m.requeues \in Nat /\ m.requeues < MaxDeliver
  BY <1>1, AttemptConstants DEF Sound, Counted, MsgType
<1>6. /\ Rest(m, n) /\ n.a \in {m.a, m.a + 1} /\ n.state \in {"Queued", "MaxDeliver"}
      /\ n.token.kind = "None" /\ n.waiting = "No" /\ n.corrected = m.corrected
      /\ n.requeues <= MaxDeliver
      /\ n.state = "Queued" => n.requeues < MaxDeliver
  <2> HIDE DEF u, v, w
  <2>1. CASE m.state = "Queued"
    <3>1. n = u
      BY <2>1 DEF RuleNotHanded, u
    <3> QED BY <2>1, <3>1, <1>2, <1>5
  <2>2. CASE m.state # "Queued" /\ (v.requeues >= MaxDeliver \/ Len(m.attempts) >= MaxAttempts)
    <3>1. n = set_state(v, "MaxDeliver")
      BY <2>2 DEF RuleNotHanded, u, v
    <3>2. v \in MsgType
      BY <1>3 DEF Rest
    <3>3. /\ Rest(v, n) /\ n.state = "MaxDeliver" /\ n.a = v.a /\ n.requeues = v.requeues
          /\ n.token.kind = v.token.kind /\ n.waiting = v.waiting /\ n.corrected = v.corrected
      BY <1>1, <3>1, <3>2, SetState
    <3> QED BY <3>3, <1>3, <1>5 DEF Rest
  <2>3. CASE m.state # "Queued" /\ ~(v.requeues >= MaxDeliver \/ Len(m.attempts) >= MaxAttempts)
    <3>1. n = set_state(w, "Queued")
      BY <2>3 DEF RuleNotHanded, u, v, w
    <3>2. w \in MsgType
      BY <1>4 DEF Rest
    <3>3. /\ Rest(w, n) /\ n.state = "Queued" /\ n.a = w.a /\ n.requeues = w.requeues
          /\ n.token.kind = w.token.kind /\ n.waiting = w.waiting /\ n.corrected = w.corrected
      BY <1>1, <3>1, <3>2, SetState
    <3>4. n.requeues < MaxDeliver
      BY <2>3, <3>3, <1>3, <1>4, <1>5
    <3> QED BY <3>3, <3>4, <1>4, <1>5 DEF Rest
  <2> QED BY <2>1, <2>2, <2>3
<1> HIDE DEF n
<1>7. Counted(n) /\ Scheduled(n)
  BY <1>6 DEF Sound, Counted, Scheduled, Rest
<1>8. n.a >= m.a
  BY <1>1, <1>6 DEF MsgType
<1>9. Ruled(R, id, m, n)
  BY <1>6, <1>7, <1>8, RuledBy
<1> QED BY <1>6, <1>9 DEF n

\* Rule 4
LEMMA HeldRule ==
  ASSUME NEW R, NEW id, NEW m, Sound(R, id, m), ~is_terminal(m.state)
  PROVE  LET n == RuleHeld(m)
         IN /\ Ruled(R, id, m, n) /\ n.a = m.a
            /\ n.state = "Attempting" /\ n.token.kind # "Auto"
<1> DEFINE n == RuleHeld(m)
           u == [m EXCEPT !.token = IF @.kind = "Auto" THEN NoToken ELSE @, !.waiting = "No"]
<1>1. m \in MsgType /\ "Attempting" \in States
  BY DEF Sound, States
<1>2. /\ Rest(m, u) /\ u.a = m.a /\ u.requeues = m.requeues
      /\ u.token.kind # "Auto" /\ u.waiting = "No" /\ u.corrected = m.corrected
  BY <1>1 DEF Rest, MsgType, TokenType, NoToken
<1>3. n = set_state(u, "Attempting")
  BY DEF RuleHeld
<1> HIDE DEF n, u
<1>4. /\ Rest(m, n) /\ n.state = "Attempting" /\ n.a = m.a /\ n.requeues = m.requeues
      /\ n.token.kind # "Auto" /\ n.corrected = m.corrected
  <2>1. u \in MsgType
    BY <1>2 DEF Rest
  <2> QED BY <1>1, <1>2, <1>3, <2>1, SetState DEF Rest
<1>5. Counted(n) /\ Scheduled(n)
  BY <1>4 DEF Sound, Counted, Scheduled, Rest
<1>6. n.a >= m.a
  BY <1>1, <1>4 DEF MsgType
<1>7. Ruled(R, id, m, n)
  BY <1>4, <1>5, <1>6, RuledBy
<1> QED BY <1>4, <1>7 DEF n

\* Rule 5: of what may be repeated nothing is withheld
LEMMA LapsedRule ==
  ASSUME NEW R, NEW id, NEW m, Sound(R, id, m), ~is_terminal(m.state), NEW f,
         \A e \in Current(m) : ~m.attempts[e].withheld
  PROVE  LET n == RuleLapsed(m, f)
         IN /\ Ruled(R, id, m, n) /\ n.a = m.a
            /\ n.state \in {"Attempting", "Lapsed", "OutOfAttempts"}
<1> DEFINE n == RuleLapsed(m, f)
           u == [m EXCEPT !.waiting = IF @ = "No" THEN "Since" ELSE @]
           v == [u EXCEPT !.token = NoToken]
           at == set_state(u, "Attempting")
<1>1. /\ m \in MsgType /\ {"Attempting", "Lapsed", "OutOfAttempts"} \subseteq States
      /\ m.token.kind \in {"None", "Auto", "Manual"}
  BY DEF Sound, States, MsgType, TokenType
<1>2. /\ Rest(m, u) /\ u.state = m.state /\ u.a = m.a /\ u.requeues = m.requeues
      /\ u.token = m.token /\ u.corrected = m.corrected
  BY <1>1 DEF Rest, MsgType
<1>3. /\ Rest(m, v) /\ v.a = m.a /\ v.requeues = m.requeues
      /\ v.token.kind = "None" /\ v.corrected = m.corrected
  <2> HIDE DEF u
  <2> QED BY <1>2 DEF Rest, MsgType, TokenType, NoToken
<1> HIDE DEF u, v
<1>4. ASSUME NEW s \in {"Attempting", "Lapsed", "OutOfAttempts"}
      PROVE  /\ LET x == set_state(u, s)
                IN /\ Rest(m, x) /\ x.state = s /\ x.a = m.a /\ x.requeues = m.requeues
                   /\ x.token.kind = m.token.kind /\ x.corrected = m.corrected
             /\ LET x == set_state(v, s)
                IN /\ Rest(m, x) /\ x.state = s /\ x.a = m.a /\ x.requeues = m.requeues
                   /\ x.token.kind = "None" /\ x.corrected = m.corrected
  <2>1. u \in MsgType /\ v \in MsgType /\ s \in States
    BY <1>1, <1>2, <1>3 DEF Rest
  <2>2. LET x == set_state(u, s)
        IN /\ Rest(m, x) /\ x.state = s /\ x.a = m.a /\ x.requeues = m.requeues
           /\ x.token.kind = m.token.kind /\ x.corrected = m.corrected
    BY <1>2, <2>1, SetState DEF Rest
  <2>3. LET x == set_state(v, s)
        IN /\ Rest(m, x) /\ x.state = s /\ x.a = m.a /\ x.requeues = m.requeues
           /\ x.token.kind = "None" /\ x.corrected = m.corrected
    BY <1>3, <2>1, SetState DEF Rest
  <2> QED BY <2>2, <2>3
<1> DEFINE x == [at EXCEPT !.token = [kind |-> "Auto", current |-> TRUE]]
<1>5. /\ Rest(m, x) /\ x.state = "Attempting" /\ x.a = m.a /\ x.requeues = m.requeues
      /\ x.token.kind = "Auto" /\ x.corrected = m.corrected
  <2>1. /\ Rest(m, at) /\ at.state = "Attempting" /\ at.a = m.a /\ at.requeues = m.requeues
        /\ at.corrected = m.corrected
    BY <1>4
  <2> HIDE DEF at
  <2> QED BY <2>1 DEF Rest, MsgType, TokenType
<1> HIDE DEF x
<1>6. /\ Rest(m, n) /\ n.a = m.a /\ n.requeues = m.requeues /\ n.corrected = m.corrected
      /\ n.state \in {"Attempting", "Lapsed", "OutOfAttempts"}
      /\ n.token.kind # "None" => n.state = "Attempting"
      /\ n.token.kind = "Auto" => m.token.kind = "Auto" \/ m.auto_repeats < MaxAutoRepeats
  <2>1. CASE m.token.kind # "None" /\ TokenLapses(m)
    <3>1. n = set_state(v, "Lapsed")
      BY <2>1 DEF RuleLapsed, u, v
    <3> QED BY <3>1, <1>4
  <2>2. CASE m.token.kind # "None" /\ ~TokenLapses(m)
    <3>1. n = set_state(u, "Attempting")
      BY <2>2 DEF RuleLapsed, u
    <3> QED BY <3>1, <1>4, <1>1
  <2>3. CASE m.token.kind = "None"
    <3>1. CASE m.state \in UncertainStates
      <4>1. n = u
        BY <2>3, <3>1 DEF RuleLapsed, u
      <4> QED BY <4>1, <3>1, <2>3, <1>2
    <3>2. CASE m.state \notin UncertainStates
      <4>1. \/ n \in {set_state(u, "OutOfAttempts"), set_state(u, "Lapsed"), set_state(u, "Attempting")}
            \/ n = x /\ m.auto_repeats < MaxAutoRepeats
        BY <2>3, <3>2 DEF RuleLapsed, u, x, MayRepeat
      <4> QED BY <4>1, <2>3, <1>4, <1>5
    <3> QED BY <3>1, <3>2
  <2> QED BY <2>1, <2>2, <2>3, <1>1
<1> HIDE DEF n
<1>7. Counted(n)
  BY <1>6 DEF Sound, Counted, Rest
<1>8. Scheduled(n)
  <2>1. Current(n) = Current(m) /\ n.attempts = m.attempts
    BY <1>6 DEF Current, Rest
  <2> QED BY <1>6, <2>1 DEF Scheduled
<1>9. n.a >= m.a
  BY <1>1, <1>6 DEF MsgType
<1>10. Ruled(R, id, m, n)
  BY <1>6, <1>7, <1>8, <1>9, RuledBy
<1> QED BY <1>6, <1>10 DEF n

\* No attempt is of a later assignment.
LEMMA NextAssignment ==
  ASSUME NEW R, NEW id, NEW m, Sound(R, id, m), NEW n, n.attempts = m.attempts,
         n.a = m.a + 1
  PROVE  Current(n) = {}
<1>1. SUFFICES ASSUME NEW e \in DOMAIN m.attempts, m.attempts[e].a = m.a + 1
               PROVE  FALSE
  BY DEF Current
<1>2. AttemptOK(R, m.state, m.a, m.attempts[e])
  BY DEF Sound
<1>3. m.a \in Nat /\ m.attempts[e].a \in Nat /\ m.attempts[e].a <= m.a
  BY <1>2 DEF AttemptOK, AttemptType, Sound, MsgType
<1> QED BY <1>1, <1>3

\* The rules decide every commit and keep the latch and the state together.
LEMMA RulesDecide ==
  ASSUME NEW R, NEW b, NEW id, NEW m, Sound(R, id, m)
  PROVE  LET f == Facts(R, b, id, m)
             n == Rules(m, f)
         IN /\ n.attempts = m.attempts /\ Good(R, id, n) /\ Leg(m, n)
            /\ HasCommit(m) /\ Latched(m) => Learn(m, n)
            /\ Decided(m) /\ (m.state = "CancelHeld" => m.latch) => Turn(m, n)
            /\ /\ ~HasCommit(m) /\ ~is_terminal(m.state) /\ ~m.latch
               /\ \E e \in Current(m) : m.attempts[e].stage = "Issued"
               => /\ n.state \in {"Attempting", "Lapsed", "OutOfAttempts"}
                  /\ n.corrected = m.corrected
                  /\ (\E e \in Current(m) : possessed(R, b, id, e, m.attempts[e]))
                       => n.token.kind # "Auto"
<1> DEFINE f == Facts(R, b, id, m)
           n == Rules(m, f)
<1>1. m \in MsgType /\ m.state \in States /\ m.state # "Exited"
  BY DEF Sound, MsgType
<1>2. /\ f.committed <=> HasCommit(m)
      /\ f.none_issued <=> Current(m) = {}
      /\ f.all_not_handed <=> /\ Current(m) # {}
                              /\ \A e \in Current(m) : m.attempts[e].stage = "NotHanded"
      /\ f.resuming <=> \E e \in Current(m) : m.attempts[e].resume_pending
                                              \/ m.attempts[e].withheld
      /\ f.held <=> \E e \in Current(m) : possessed(R, b, id, e, m.attempts[e])
  BY FactsAre
<1> HIDE DEF f
<1>3. CASE f.committed
  <2>1. n = RuleCommitted(m)
    BY <1>3 DEF Rules
  <2> HIDE DEF n
  <2>2. /\ Rest(m, n) /\ n.a = m.a /\ Sound(R, id, n) /\ Leg(m, n)
        /\ is_terminal(n.state)
        /\ \/ n.state = "Settled"
           \/ n.state = "Cancelled" /\ n.corrected
           \/ n.state = "MaxDeliver" /\ n.offer /\ n.corrected
        /\ Latched(m) => Learn(m, n)
        /\ Decided(m) /\ HasCommit(m) => Turn(m, n)
    BY <2>1, CommittedRule
  <2>3. Decided(n) /\ Latched(n)
    BY <2>2 DEF Decided, Latched
  <2> QED BY <2>2, <2>3, <1>2, <1>3 DEF Good, Rest, n, f
<1>4. CASE ~f.committed /\ is_terminal(m.state)
  <2>1. n = m
    BY <1>4 DEF Rules
  <2> HIDE DEF n
  <2>2. Leg(m, m)
    BY <1>1, LeftAlone DEF Leg, Sound, Fits, MsgType
  <2>3. Decided(m) /\ Latched(m)
    BY <1>2, <1>4 DEF Decided, Latched
  <2>4. Turn(m, m)
    BY <1>1 DEF Turn, States, OpenStates
  <2> QED BY <2>1, <2>2, <2>3, <2>4, <1>2, <1>4 DEF Good, n, f
<1>5. CASE ~f.committed /\ ~is_terminal(m.state)
  <2>1. ASSUME Ruled(R, id, m, n), n.a = m.a \/ n.a = m.a + 1,
               m.latch => n.state \in {"Cancelled", "CancelHeld"},
               ~m.latch => n.state \in OpenStates \cup {"MaxDeliver"}
        PROVE  /\ n.attempts = m.attempts /\ Good(R, id, n) /\ Leg(m, n)
               /\ (m.state = "CancelHeld" => m.latch) => Turn(m, n)
    <3> HIDE DEF n
    <3>1. Current(n) = Current(m) \/ Current(n) = {}
      <4>1. n.attempts = m.attempts
        BY <2>1 DEF Ruled, Rest
      <4>2. CASE n.a = m.a
        BY <4>1, <4>2 DEF Current
      <4>3. CASE n.a = m.a + 1
        BY <4>1, <4>3, NextAssignment
      <4> QED BY <2>1, <4>2, <4>3
    <3>2. Decided(n)
      BY <3>1, <2>1, <1>2, <1>5 DEF Decided, HasCommit, Ruled, Rest
    <3>3. Latched(n)
      BY <2>1 DEF Latched, OpenStates, Ruled, Rest, MsgType
    <3>4. (m.state = "CancelHeld" => m.latch) => Turn(m, n)
      BY <2>1, <1>5, <1>1 DEF Turn, Ruled, OpenStates, MsgType, States
    <3> QED BY <3>2, <3>3, <3>4, <2>1 DEF Good, Ruled, Rest
  <2>2. CASE m.latch
    <3>1. n = RuleLatched(m, f)
      BY <1>5, <2>2 DEF Rules
    <3>2. Ruled(R, id, m, n) /\ n.a = m.a /\ n.state \in {"Cancelled", "CancelHeld"}
      <4> HIDE DEF n
      <4> QED BY <3>1, <1>5, LatchedRule
    <3> HIDE DEF n
    <3> QED BY <3>2, <2>1, <2>2, <1>2, <1>5 DEF n, f
  <2>3. CASE ~m.latch /\ f.none_issued
    <3>1. n = set_state(m, "Queued")
      BY <1>5, <2>3 DEF Rules
    <3> HIDE DEF n
    <3>2. "Queued" \in States
      BY DEF States
    <3>3. /\ Rest(m, n) /\ n.state = "Queued" /\ n.a = m.a /\ n.requeues = m.requeues
          /\ n.token.kind = m.token.kind /\ n.waiting = m.waiting
          /\ n.corrected = m.corrected
      BY <3>1, <3>2, <1>1, SetState
    <3>4. Counted(n)
      BY <3>3, <1>5 DEF Sound, Counted, Rest
    <3>5. Scheduled(n)
      BY <3>3, <2>3, <1>2 DEF Scheduled, Rest, Current
    <3>6. n.a >= m.a
      BY <3>3, <1>1 DEF MsgType
    <3>7. Ruled(R, id, m, n)
      BY <3>3, <3>4, <3>5, <3>6, <1>5, RuledBy
    <3> QED BY <3>3, <3>7, <2>1, <2>3, <1>2, <1>5 DEF n, f, OpenStates
  <2>4. CASE ~m.latch /\ ~f.none_issued /\ f.all_not_handed
    <3>1. n = RuleNotHanded(m)
      BY <1>5, <2>4 DEF Rules
    <3> HIDE DEF n
    <3>2. Ruled(R, id, m, n) /\ n.a \in {m.a, m.a + 1} /\ n.state \in {"Queued", "MaxDeliver"}
      BY <3>1, <1>5, NotHandedRule
    <3>3. \A e \in Current(m) : m.attempts[e].stage # "Issued"
      BY <2>4, <1>2
    <3> QED BY <3>2, <3>3, <2>1, <2>4, <1>2, <1>5 DEF n, f, OpenStates
  <2>5. CASE ~m.latch /\ ~f.none_issued /\ ~f.all_not_handed /\ (f.held \/ f.resuming)
    <3>1. n = RuleHeld(m)
      BY <1>5, <2>5 DEF Rules
    <3> HIDE DEF n
    <3>2. Ruled(R, id, m, n) /\ n.a = m.a /\ n.state = "Attempting" /\ n.token.kind # "Auto"
      BY <3>1, <1>5, HeldRule
    <3> QED BY <3>2, <2>1, <2>5, <1>2, <1>5 DEF n, f, OpenStates, Ruled
  <2>6. CASE ~m.latch /\ ~f.none_issued /\ ~f.all_not_handed /\ ~(f.held \/ f.resuming)
    <3>1. n = RuleLapsed(m, f)
      BY <1>5, <2>6 DEF Rules
    <3> HIDE DEF n
    <3>2. \A e \in Current(m) : ~m.attempts[e].withheld
      BY <2>6, <1>2
    <3>3. Ruled(R, id, m, n) /\ n.a = m.a /\ n.state \in {"Attempting", "Lapsed", "OutOfAttempts"}
      BY <3>1, <3>2, <1>5, LapsedRule
    <3> QED BY <3>3, <2>1, <2>6, <1>2, <1>5 DEF n, f, OpenStates, Ruled
  <2> QED BY <2>2, <2>3, <2>4, <2>5, <2>6
<1> QED BY <1>3, <1>4, <1>5

\* reclaim, as a change of attempts.
LEMMA ReclaimIs ==
  ASSUME NEW m
  PROVE  reclaim(m) = Remap(m, [e \in DOMAIN m.attempts |-> Reclaimed(m.state, m.attempts[e])])
BY DEF reclaim, MapAttempts, Remap, Reclaimed

LEMMA ReclaimKeeps ==
  ASSUME NEW R, NEW id, NEW m, Good(R, id, m)
  PROVE  LET n == reclaim(m)
         IN /\ Good(R, id, n) /\ Quiet(m, n)
            /\ n.state = m.state /\ n.corrected = m.corrected /\ n.token = m.token
            /\ n.attempts = [e \in DOMAIN m.attempts |-> Reclaimed(m.state, m.attempts[e])]
<1> DEFINE f == [e \in DOMAIN m.attempts |-> Reclaimed(m.state, m.attempts[e])]
<1>1. Sound(R, id, m) /\ Decided(m) /\ Latched(m)
  BY DEF Good
<1>2. \A e \in DOMAIN m.attempts :
        /\ Fits(R, m.state, m.a, m.latch, m.attempts[e], f[e])
        /\ f[e].stage = m.attempts[e].stage
  BY <1>1, ReclaimFits DEF Sound
<1>3. Replaces(R, m, f) /\ CommitsNothing(m, f)
  BY <1>2 DEF Replaces, CommitsNothing
<1> HIDE DEF f
<1>4. reclaim(m) = Remap(m, f)
  BY ReclaimIs DEF f
<1>5. /\ Sound(R, id, Remap(m, f)) /\ Leg(m, Remap(m, f)) /\ Turn(m, Remap(m, f))
      /\ Remap(m, f).attempts = f
      /\ Remap(m, f).state = m.state /\ Remap(m, f).token = m.token
      /\ Remap(m, f).corrected = m.corrected
      /\ Latched(Remap(m, f)) /\ Decided(Remap(m, f))
  BY <1>1, <1>3, RemapSound
<1> QED BY <1>4, <1>5 DEF Good, Quiet, f

\* A message with an attempt just issued stays open or becomes uncertain, and no
\* repeat is scheduled while one is possessed.
Outstanding(R, b, id, m, n) ==
  /\ n.state \in {"Attempting", "Lapsed", "OutOfAttempts"} /\ n.corrected = m.corrected
  /\ (\E e \in Current(m) : possessed(R, b, id, e, m.attempts[e])) => n.token.kind # "Auto"

\* The finalizer makes a sound message good.
LEMMA FinalizeDecides ==
  ASSUME NEW R, NEW b, NEW id, NEW m, Sound(R, id, m)
  PROVE  LET n == finalize(R, b, id, m)
         IN /\ Good(R, id, n) /\ Leg(m, n)
            /\ HasCommit(m) /\ Latched(m) => Learn(m, n)
            /\ Decided(m) /\ (m.state = "CancelHeld" => m.latch) => Turn(m, n)
            /\ /\ ~HasCommit(m) /\ ~is_terminal(m.state) /\ ~m.latch
               /\ \E e \in Current(m) : m.attempts[e].stage = "Issued"
               => Outstanding(R, b, id, m, n)
            /\ n.attempts = [e \in DOMAIN m.attempts |-> Reclaimed(n.state, m.attempts[e])]
<1> DEFINE r == Rules(m, Facts(R, b, id, m))
           n == finalize(R, b, id, m)
<1>1. /\ r.attempts = m.attempts /\ Good(R, id, r) /\ Leg(m, r)
      /\ HasCommit(m) /\ Latched(m) => Learn(m, r)
      /\ Decided(m) /\ (m.state = "CancelHeld" => m.latch) => Turn(m, r)
      /\ /\ ~HasCommit(m) /\ ~is_terminal(m.state) /\ ~m.latch
         /\ \E e \in Current(m) : m.attempts[e].stage = "Issued"
         => /\ r.state \in {"Attempting", "Lapsed", "OutOfAttempts"}
            /\ r.corrected = m.corrected
            /\ (\E e \in Current(m) : possessed(R, b, id, e, m.attempts[e]))
                 => r.token.kind # "Auto"
  BY RulesDecide
<1>2. n = reclaim(r)
  BY DEF finalize
<1> HIDE DEF r, n
<1>3. /\ Good(R, id, n) /\ Quiet(r, n)
      /\ n.state = r.state /\ n.corrected = r.corrected /\ n.token = r.token
      /\ n.attempts = [e \in DOMAIN r.attempts |-> Reclaimed(r.state, r.attempts[e])]
  BY <1>1, <1>2, ReclaimKeeps
<1>4. m.a \in Nat /\ r.a \in Nat /\ n.a \in Nat
  BY <1>1, <1>3 DEF Good, Sound, MsgType
<1>5. Leg(m, n)
  BY <1>1, <1>3, <1>4, LegTrans DEF Quiet
<1>6. Learn(m, r) => Learn(m, n)
  BY <1>3 DEF Learn
<1>7. Turn(m, r) => Turn(m, n)
  BY <1>3 DEF Turn
<1> QED BY <1>1, <1>3, <1>5, <1>6, <1>7 DEF n, Outstanding

-----------------------------------------------------------------------------
(* Parts of steps.                                                          *)

LEMMA FitsTrans ==
  ASSUME NEW R, NEW s, NEW a, NEW latch, NEW at, NEW bt, NEW ct,
         Fits(R, s, a, latch, at, bt), Fits(R, s, a, latch, bt, ct)
  PROVE  Fits(R, s, a, latch, at, ct)
BY DEF Fits, Stays

\* Attempts change and the message is finalized.
LEMMA Refinalized ==
  ASSUME NEW R, NEW Q, NEW b, NEW id, NEW m, Good(R, id, m), NEW f,
         Replaces(Q, m, f), CommitsNothing(m, f)
  PROVE  LET n == finalize(Q, b, id, Remap(m, f))
         IN Good(Q, id, n) /\ Quiet(m, n)
<1> DEFINE r == Remap(m, f)
           n == finalize(Q, b, id, r)
<1>1. Sound(R, id, m) /\ Decided(m) /\ Latched(m)
  BY DEF Good
<1>2. /\ Sound(Q, id, r) /\ Leg(m, r) /\ Turn(m, r) /\ Latched(r) /\ Decided(r)
  BY <1>1, RemapSound
<1> HIDE DEF r
<1>3. r.state = "CancelHeld" => r.latch
  BY <1>2 DEF Latched
<1>4. Good(Q, id, n) /\ Leg(r, n) /\ Turn(r, n)
  BY <1>2, <1>3, FinalizeDecides
<1> HIDE DEF n
<1>5. m \in MsgType /\ r \in MsgType /\ n \in MsgType
  BY <1>1, <1>2, <1>4 DEF Good, Sound
<1>6. Quiet(m, n)
  BY <1>2, <1>4, <1>5, QuietTrans DEF Quiet
<1> QED BY <1>4, <1>6 DEF n, r

\* Attempts change and the message is left so.
LEMMA Remapped ==
  ASSUME NEW R, NEW Q, NEW id, NEW m, Good(R, id, m), NEW f,
         Replaces(Q, m, f), CommitsNothing(m, f)
  PROVE  Good(Q, id, Remap(m, f)) /\ Quiet(m, Remap(m, f))
BY RemapSound DEF Good, Quiet

\* Other receivers with the same slots, and nothing else.
LEMMA Undisturbed ==
  ASSUME NEW R, NEW Q, SameSlots(R, Q), NEW id, NEW m, Good(R, id, m)
  PROVE  Good(Q, id, m) /\ Quiet(m, m)
<1>1. \A e \in DOMAIN m.attempts : AttemptOK(Q, m.state, m.a, m.attempts[e])
  BY OtherReceivers DEF Good, Sound
<1>2. \A e \in DOMAIN m.attempts : Stays(m.latch, m.state, m.attempts[e], m.attempts[e])
  BY <1>1, LeftAlone DEF Fits
<1>3. m.a \in Nat /\ m.state \in States
  BY DEF Good, Sound, MsgType
<1>4. Leg(m, m) /\ Turn(m, m)
  BY <1>2, <1>3 DEF Leg, Turn, States, OpenStates
<1> QED BY <1>1, <1>4 DEF Good, Sound, Quiet

\* A good message is finalized as it is.
LEMMA FinalizeQuiet ==
  ASSUME NEW R, NEW b, NEW id, NEW m, Good(R, id, m)
  PROVE  LET n == finalize(R, b, id, m)
         IN Good(R, id, n) /\ Quiet(m, n)
<1>1. Sound(R, id, m) /\ Decided(m) /\ (m.state = "CancelHeld" => m.latch)
  BY DEF Good, Latched
<1> QED BY <1>1, FinalizeDecides DEF Quiet

\* Commits are learned: those of the current assignment decide.
LEMMA CommitAllMoves ==
  ASSUME NEW R, NEW b, NEW id, NEW m, Good(R, id, m), NEW S, S \subseteq DOMAIN m.attempts,
         \A e \in S : ~m.attempts[e].withheld
  PROVE  LET n == CommitAll(R, b, id, m, S)
         IN Good(R, id, n) /\ Moves(m, n)
<1> DEFINE f == [e \in DOMAIN m.attempts |->
                   IF e \in S THEN Committed(m.attempts[e]) ELSE m.attempts[e]]
           r == Remap(m, f)
           n == CommitAll(R, b, id, m, S)
<1>1. Sound(R, id, m) /\ Decided(m) /\ Latched(m)
  BY DEF Good
<1>2. \A e \in DOMAIN m.attempts :
        /\ Fits(R, m.state, m.a, m.latch, m.attempts[e], f[e])
        /\ e \in S => f[e].stage = "Committed"
        /\ e \notin S => f[e] = m.attempts[e]
  BY <1>1, CommittedFits, LeftAlone DEF Sound
<1>3. Replaces(R, m, f)
  BY <1>2 DEF Replaces
<1>4. n = IF S \cap Current(m) # {} THEN finalize(R, b, id, r) ELSE reclaim(r)
  BY DEF CommitAll, MapAttempts, Remap
<1> HIDE DEF f, n
<1>5. /\ Sound(R, id, r) /\ Leg(m, r) /\ Turn(m, r) /\ r.attempts = f
      /\ Current(r) = Current(m) /\ r.state = m.state /\ r.latch = m.latch
      /\ r.corrected = m.corrected /\ Latched(r)
  BY <1>1, <1>3, RemapSound
<1> HIDE DEF r
<1>6. m \in MsgType /\ r \in MsgType
  BY <1>1, <1>5 DEF Sound
<1>7. CASE S \cap Current(m) # {}
  <2>1. HasCommit(r)
    BY <1>7, <1>2, <1>5 DEF HasCommit
  <2>2. n = finalize(R, b, id, r)
    BY <1>4, <1>7
  <2>3. Good(R, id, n) /\ Leg(r, n) /\ Learn(r, n)
    BY <2>1, <2>2, <1>5, FinalizeDecides
  <2>4. n \in MsgType
    BY <2>3 DEF Good, Sound
  <2>5. Leg(m, n)
    BY <2>3, <2>4, <1>5, <1>6, LegTrans DEF MsgType
  <2>6. r.offer = m.offer
    BY <1>1, <1>5 DEF Sound
  <2>7. Learn(m, n)
    BY <2>3, <2>6, <1>5 DEF Learn
  <2> QED BY <2>3, <2>5, <2>7 DEF Moves, n
<1>8. CASE S \cap Current(m) = {}
  <2>1. HasCommit(r) => HasCommit(m)
    BY <1>8, <1>2, <1>5 DEF HasCommit, Current
  <2>2. r.offer = m.offer
    BY <1>1, <1>5 DEF Sound
  <2>3. Good(R, id, r)
    BY <2>1, <2>2, <1>1, <1>5 DEF Good, Decided
  <2>4. Good(R, id, n) /\ Quiet(r, n)
    BY <2>3, <1>4, <1>8, ReclaimKeeps
  <2>5. n \in MsgType
    BY <2>4 DEF Good, Sound
  <2>6. Quiet(m, n)
    BY <2>4, <2>5, <1>5, <1>6, QuietTrans DEF Quiet
  <2> QED BY <2>4, <2>6 DEF Quiet, Moves, n
<1> QED BY <1>7, <1>8

-----------------------------------------------------------------------------
(* Steps on one message.                                                    *)

\* The state of a generation that has not exited.
Running == IInv /\ ~exited

LEMMA RunningGood ==
  ASSUME Running, NEW id \in Known
  PROVE  id \in Ids /\ Good(rxs, id, msgs[id])
BY DEF Running, IInv, Known

LEMMA SlotsAsTheyAre == ASSUME NEW R PROVE SameSlots(R, R)
BY DEF SameSlots

\* One message moves.
LEMMA OneMoves ==
  ASSUME Running, NEW id \in Known, NEW n,
         msgs' = [msgs EXCEPT ![id] = n], UNCHANGED <<rxs, forgotten, exited, used>>,
         Good(rxs, id, n), Moves(msgs[id], n)
  PROVE  Ordinary
<1>1. DOMAIN msgs = Ids
  BY DEF Running, IInv, Shapes
<1>2. SUFFICES ASSUME NEW k \in Ids
               PROVE  IF k \in Known THEN Good(rxs', k, msgs'[k]) /\ Moves(msgs[k], msgs'[k])
                                     ELSE msgs'[k] = NoMsg
  BY DEF Ordinary, Running
<1>3. CASE k = id
  BY <1>1, <1>3
<1>4. CASE k # id /\ k \in Known
  <2>1. Good(rxs, k, msgs[k])
    BY <1>4, RunningGood
  <2>2. Good(rxs, k, msgs[k]) /\ Quiet(msgs[k], msgs[k])
    BY <2>1, SlotsAsTheyAre, Undisturbed
  <2> QED BY <1>1, <1>4, <2>2 DEF Quiet, Moves
<1>5. CASE k # id /\ k \notin Known
  BY <1>1, <1>5 DEF Known
<1> QED BY <1>3, <1>4, <1>5

\* One attempt of a message becomes bt.
LEMMA OneReplaces ==
  ASSUME Running, NEW id \in Known, NEW e \in AttemptsOf(id), NEW bt,
         Fits(rxs, msgs[id].state, msgs[id].a, msgs[id].latch, msgs[id].attempts[e], bt),
         bt.stage = "Committed" => msgs[id].attempts[e].stage = "Committed"
  PROVE  LET m == msgs[id]
             f == [m.attempts EXCEPT ![e] = bt]
         IN /\ Replaces(rxs, m, f) /\ CommitsNothing(m, f)
            /\ [m EXCEPT !.attempts[e] = bt] = Remap(m, f)
<1> DEFINE m == msgs[id]
           f == [m.attempts EXCEPT ![e] = bt]
<1>1. Good(rxs, id, m)
  BY RunningGood
<1>2. m.attempts \in Seq(AttemptType) /\ e \in DOMAIN m.attempts
  BY <1>1 DEF Good, Sound, MsgType, AttemptsOf
<1>3. /\ f = [d \in DOMAIN m.attempts |-> f[d]]
      /\ f[e] = bt /\ \A d \in DOMAIN m.attempts : d # e => f[d] = m.attempts[d]
  BY <1>2
<1>4. \A d \in DOMAIN m.attempts : Fits(rxs, m.state, m.a, m.latch, m.attempts[d], m.attempts[d])
  BY <1>1, LeftAlone DEF Good, Sound
<1>5. Replaces(rxs, m, f) /\ CommitsNothing(m, f)
  BY <1>2, <1>3, <1>4 DEF Replaces, CommitsNothing
<1>6. [m EXCEPT !.attempts[e] = bt] = Remap(m, f)
  BY DEF Remap
<1> QED BY <1>5, <1>6

LEMMA OneAttemptMoves ==
  ASSUME Running, NEW id \in Known, NEW e \in AttemptsOf(id), NEW bt, OneAttempt(id, e, bt),
         Fits(rxs, msgs[id].state, msgs[id].a, msgs[id].latch, msgs[id].attempts[e], bt),
         bt.stage = "Committed" => msgs[id].attempts[e].stage = "Committed"
  PROVE  Ordinary
<1> DEFINE m == msgs[id]
           f == [m.attempts EXCEPT ![e] = bt]
           n == finalize(rxs, busy, id, Remap(m, f))
<1>1. /\ Replaces(rxs, m, f) /\ CommitsNothing(m, f)
      /\ [m EXCEPT !.attempts[e] = bt] = Remap(m, f)
  BY OneReplaces
<1>2. msgs' = [msgs EXCEPT ![id] = n] /\ UNCHANGED <<rxs, forgotten, exited, used>>
  BY <1>1 DEF OneAttempt
<1>3. Good(rxs, id, m)
  BY RunningGood
<1> HIDE DEF f, m
<1>4. Good(rxs, id, n) /\ Quiet(m, n)
  BY <1>1, <1>3, Refinalized
<1> HIDE DEF n
<1> QED BY <1>2, <1>4, OneMoves DEF Quiet, Moves, m

LEMMA AttemptIsOK ==
  ASSUME Running, NEW id \in Known, NEW e \in AttemptsOf(id)
  PROVE  AttemptOK(rxs, msgs[id].state, msgs[id].a, msgs[id].attempts[e])
BY RunningGood DEF Good, Sound, AttemptsOf

LEMMA CommitStep ==
  ASSUME Running, NEW id \in Known, NEW e \in AttemptsOf(id), commit(id, e)
  PROVE  Ordinary
<1> DEFINE m == msgs[id]
           n == CommitAll(rxs, busy, id, m, {e})
<1>1. AttemptOK(rxs, m.state, m.a, m.attempts[e]) /\ Good(rxs, id, m)
  BY AttemptIsOK, RunningGood
<1>2. ~m.attempts[e].withheld
  BY <1>1 DEF commit, commit_target, commit_admissible, AttemptOK, Whole, Streams
<1>3. {e} \subseteq DOMAIN m.attempts
  BY DEF AttemptsOf
<1>4. Good(rxs, id, n) /\ Moves(m, n)
  BY <1>1, <1>2, <1>3, CommitAllMoves
<1>5. msgs' = [msgs EXCEPT ![id] = n] /\ UNCHANGED <<rxs, forgotten, exited, used>>
  BY DEF commit
<1> HIDE DEF n
<1> QED BY <1>4, <1>5, OneMoves

LEMMA HandedFits ==
  ASSUME NEW R, NEW s, NEW a, NEW latch, NEW at, AttemptOK(R, s, a, at),
         ~is_final(at.stage), ~at.resume_pending, ~at.withheld,
         NEW new \in {"Handed", "HandedInert"}
  PROVE  LET bt == [at EXCEPT !.stage = new, !.verifier = @ \/ new = "HandedInert"]
         IN Fits(R, s, a, latch, at, bt) /\ bt.stage = new
BY DEF Fits, AttemptOK, AttemptType, Whole, Stays, Stages

LEMMA StageStep ==
  ASSUME Running, NEW id \in Known, NEW e \in AttemptsOf(id),
         NEW reported \in {"Handed", "NotHanded", "HandedInert"}, stage(id, e, reported)
  PROVE  Ordinary
<1> DEFINE m == msgs[id]
           at == m.attempts[e]
           new == IF reported = "Handed" /\ at.slot = "OnceWaiter" THEN "HandedInert" ELSE reported
           bt == IF new = "NotHanded" THEN Refused(at)
                 ELSE [at EXCEPT !.stage = new, !.verifier = @ \/ new = "HandedInert"]
<1>1. AttemptOK(rxs, m.state, m.a, at)
  BY AttemptIsOK
<1>2. ~is_final(at.stage) /\ ~at.resume_pending /\ ~at.withheld /\ OneAttempt(id, e, bt)
  BY DEF stage
<1>3. new \in {"Handed", "NotHanded", "HandedInert"}
  OBVIOUS
<1> HIDE DEF new, at
<1>4. Fits(rxs, m.state, m.a, m.latch, at, bt) /\ bt.stage # "Committed"
  BY <1>1, <1>2, <1>3, RefusedFits, HandedFits
<1> HIDE DEF bt
<1> QED BY <1>2, <1>4, OneAttemptMoves DEF at

LEMMA ReleaseStep ==
  ASSUME Running, NEW id \in Known, NEW e \in AttemptsOf(id),
         NEW written \in BOOLEAN, release(id, e, written)
  PROVE  Ordinary
<1> DEFINE m == msgs[id]
           at == m.attempts[e]
<1>1. AttemptOK(rxs, m.state, m.a, at) /\ at.withheld
  BY AttemptIsOK DEF release
<1>2. CASE written /\ may_hand_over(m, id, e, at.rx)
  <2>1. ~m.latch
    BY <1>2 DEF may_hand_over
  <2>2. m.latch \in BOOLEAN
    BY RunningGood DEF Good, Sound, MsgType
  <2>3. Fits(rxs, m.state, m.a, m.latch, at, Released(at)) /\ Released(at).stage = at.stage
    BY <1>1, <2>1, <2>2, ReleasedFits
  <2>4. OneAttempt(id, e, Released(at))
    BY <1>2 DEF release
  <2> QED BY <2>3, <2>4, OneAttemptMoves
<1>3. CASE ~(written /\ may_hand_over(m, id, e, at.rx))
  <2>1. /\ Fits(rxs, m.state, m.a, m.latch, at, DeckWitness(Released(at)))
        /\ DeckWitness(Released(at)).stage = "NotHanded"
    BY <1>1, WitnessFits
  <2>2. OneAttempt(id, e, DeckWitness(Released(at)))
    BY <1>3 DEF release
  <2> QED BY <2>1, <2>2, OneAttemptMoves
<1> QED BY <1>2, <1>3

LEMMA ExpireStagingStep ==
  ASSUME Running, NEW id \in Known, NEW e \in AttemptsOf(id), expire_staging(id, e)
  PROVE  Ordinary
<1> DEFINE m == msgs[id]
           at == m.attempts[e]
<1>1. AttemptOK(rxs, m.state, m.a, at) /\ at.withheld
  BY AttemptIsOK DEF expire_staging
<1>2. /\ Fits(rxs, m.state, m.a, m.latch, at, DeckWitness(Released(at)))
      /\ DeckWitness(Released(at)).stage = "NotHanded"
  BY <1>1, WitnessFits
<1> QED BY <1>2, OneAttemptMoves DEF expire_staging

LEMMA DeckNotHandedStep ==
  ASSUME Running, NEW id \in Known, NEW e \in AttemptsOf(id), deck_not_handed(id, e)
  PROVE  Ordinary
<1> DEFINE m == msgs[id]
           at == m.attempts[e]
<1>1. AttemptOK(rxs, m.state, m.a, at)
  BY AttemptIsOK
<1>2. /\ ~at.withheld /\ at.stage \in {"Issued", "Fenced"} /\ at.receipt = "None"
      /\ one_shot(at.slot) /\ OneAttempt(id, e, DeckWitness(at))
  BY DEF deck_not_handed
<1>3. ~at.resume_pending
  BY <1>1, <1>2 DEF AttemptOK, Whole, one_shot, Streams
<1>4. Released(at) = at
  BY <1>1, <1>2 DEF Released, AttemptOK, AttemptType
<1>5. /\ Fits(rxs, m.state, m.a, m.latch, at, DeckWitness(at))
      /\ DeckWitness(at).stage = "NotHanded"
  BY <1>1, <1>2, <1>3, <1>4, WitnessFits
<1> QED BY <1>2, <1>5, OneAttemptMoves

\* A receipt that is published is news, unless nobody was given the attempt.
LEMMA PublishFits ==
  ASSUME NEW R, NEW s, NEW a, NEW latch, NEW at, AttemptOK(R, s, a, at),
         at.receipt = "None", ~at.withheld
  PROVE  LET bt == [at EXCEPT !.receipt = "New"]
         IN Fits(R, s, a, latch, at, bt) /\ bt.stage = at.stage
BY DEF Fits, AttemptOK, AttemptType, Whole, Stays

\* One attempt changes and the message is not finalized.
LEMMA OneLeft ==
  ASSUME Running, NEW id \in Known, NEW e \in AttemptsOf(id), NEW bt,
         msgs' = [msgs EXCEPT ![id] = [msgs[id] EXCEPT !.attempts[e] = bt]],
         UNCHANGED <<rxs, forgotten, exited, used>>,
         Fits(rxs, msgs[id].state, msgs[id].a, msgs[id].latch, msgs[id].attempts[e], bt),
         bt.stage = "Committed" => msgs[id].attempts[e].stage = "Committed"
  PROVE  Ordinary
<1> DEFINE m == msgs[id]
           f == [m.attempts EXCEPT ![e] = bt]
           n == Remap(m, f)
<1>1. /\ Replaces(rxs, m, f) /\ CommitsNothing(m, f)
      /\ [m EXCEPT !.attempts[e] = bt] = n
  BY OneReplaces
<1>2. msgs' = [msgs EXCEPT ![id] = n]
  BY <1>1
<1>3. Good(rxs, id, m)
  BY RunningGood
<1> HIDE DEF f, m
<1>4. Good(rxs, id, n) /\ Quiet(m, n)
  BY <1>1, <1>3, Remapped
<1> HIDE DEF n
<1> QED BY <1>2, <1>4, OneMoves DEF Quiet, Moves, m

LEMMA PublishStep ==
  ASSUME Running, NEW id \in Known, NEW e \in AttemptsOf(id), publish(id, e)
  PROVE  Ordinary
<1> DEFINE m == msgs[id]
           at == m.attempts[e]
           bt == [at EXCEPT !.receipt = "New"]
<1>1. AttemptOK(rxs, m.state, m.a, at)
  BY AttemptIsOK
<1>2. Fits(rxs, m.state, m.a, m.latch, at, bt) /\ bt.stage = at.stage
  BY <1>1, PublishFits DEF publish
<1>3. /\ msgs' = [msgs EXCEPT ![id] = [m EXCEPT !.attempts[e] = bt]]
      /\ UNCHANGED <<rxs, forgotten, exited, used>>
  BY DEF publish
<1> HIDE DEF bt
<1> QED BY <1>2, <1>3, OneLeft

LEMMA ExpiresStep ==
  ASSUME Running, NEW id \in Known, Expires(id, "grace") \/ Expires(id, "in_use")
  PROVE  Ordinary
<1> DEFINE m == msgs[id]
<1>1. CASE Expires(id, "grace")
  <2>1. PICK e \in AttemptsOf(id) :
          msgs' = [msgs EXCEPT ![id] = [m EXCEPT !.attempts[e] = [m.attempts[e] EXCEPT !.grace = FALSE]]]
    BY <1>1 DEF Expires, AttemptsOf
  <2>2. AttemptOK(rxs, m.state, m.a, m.attempts[e])
    BY AttemptIsOK
  <2>3. LET bt == [m.attempts[e] EXCEPT !.grace = FALSE]
        IN Fits(rxs, m.state, m.a, m.latch, m.attempts[e], bt) /\ bt.stage = m.attempts[e].stage
    BY <2>2 DEF Fits, AttemptOK, AttemptType, Whole, Stays
  <2> QED BY <1>1, <2>1, <2>3, OneLeft DEF Expires
<1>2. CASE Expires(id, "in_use")
  <2>1. PICK e \in AttemptsOf(id) :
          msgs' = [msgs EXCEPT ![id] = [m EXCEPT !.attempts[e] = [m.attempts[e] EXCEPT !.in_use = FALSE]]]
    BY <1>2 DEF Expires, AttemptsOf
  <2>2. AttemptOK(rxs, m.state, m.a, m.attempts[e])
    BY AttemptIsOK
  <2>3. LET bt == [m.attempts[e] EXCEPT !.in_use = FALSE]
        IN Fits(rxs, m.state, m.a, m.latch, m.attempts[e], bt) /\ bt.stage = m.attempts[e].stage
    BY <2>2 DEF Fits, AttemptOK, AttemptType, Whole, Stays
  <2> QED BY <1>2, <2>1, <2>3, OneLeft DEF Expires
<1> QED BY <1>1, <1>2

\* An answer that is no longer owed.
LEMMA BackFits ==
  ASSUME NEW R, NEW s, NEW a, NEW latch, NEW at, AttemptOK(R, s, a, at)
  PROVE  LET bt == [at EXCEPT !.resume_pending = FALSE]
         IN Fits(R, s, a, latch, at, bt) /\ bt.stage = at.stage /\ ~bt.resume_pending
            /\ bt.withheld = at.withheld /\ bt.slot = at.slot
BY DEF Fits, AttemptOK, AttemptType, Whole, Stays

\* A retained attempt is another incarnation's, of the same slot.
LEMMA ResumeAnswerStep ==
  ASSUME Running, NEW id \in Known, NEW e \in AttemptsOf(id), NEW rx \in DOMAIN rxs,
         NEW answer \in {"Retained", "NotHanded", "Unknown"}, resume_answer(rx, id, e, answer)
  PROVE  Ordinary
<1> DEFINE m == msgs[id]
           at == m.attempts[e]
           back == [at EXCEPT !.resume_pending = FALSE]
           kept == [recheck(back) EXCEPT !.rx = rx, !.grace = TRUE]
           bt == IF answer = "Retained" THEN kept
                 ELSE IF answer = "NotHanded" THEN Refused(back)
                 ELSE fence(back)
<1>1. AttemptOK(rxs, m.state, m.a, at) /\ at.resume_pending
  BY AttemptIsOK DEF resume_answer
<1>2. /\ Fits(rxs, m.state, m.a, m.latch, at, back) /\ back.stage = at.stage
      /\ ~back.resume_pending /\ back.withheld = at.withheld /\ back.slot = at.slot
  BY <1>1, BackFits
<1>3. ~is_final(at.stage) /\ ~at.withheld
  BY <1>1 DEF AttemptOK, Whole, Streams
<1>4. OneAttempt(id, e, bt)
  BY DEF resume_answer
<1>5. rx \in Nat \ {0} /\ rxs[rx].slot = at.slot
  BY <1>1 DEF Running, IInv, Shapes, resume_answer, AttemptOK
<1> HIDE DEF at, back
<1>6. AttemptOK(rxs, m.state, m.a, back)
  BY <1>2 DEF Fits
<1>7. Fits(rxs, m.state, m.a, m.latch, back, kept) /\ kept.stage = at.stage
  <2> DEFINE rc == recheck(back)
  <2>1. Fits(rxs, m.state, m.a, m.latch, back, rc) /\ rc.stage = back.stage
    BY <1>6, RecheckFits
  <2> HIDE DEF rc
  <2>2. AttemptOK(rxs, m.state, m.a, rc) /\ rc.slot = at.slot
    BY <2>1, <1>2 DEF Fits, Stays
  <2>3. kept = [rc EXCEPT !.rx = rx, !.grace = TRUE]
    BY DEF rc
  <2>4. Fits(rxs, m.state, m.a, m.latch, rc, kept) /\ kept.stage = rc.stage
    <3>1. AttemptOK(rxs, m.state, m.a, rc) /\ rx \in DOMAIN rxs /\ rx \in Nat \ {0}
          /\ rxs[rx].slot = rc.slot
      BY <2>2, <1>5
    <3> HIDE DEF kept
    <3> QED BY <3>1, <2>3 DEF Fits, AttemptOK, AttemptType, Whole, Stays
  <2> HIDE DEF kept
  <2> QED BY <2>1, <2>4, <1>2, FitsTrans
<1>8. Fits(rxs, m.state, m.a, m.latch, back, bt) /\ bt.stage # "Committed"
  <2> HIDE DEF kept
  <2> QED BY <1>2, <1>3, <1>6, <1>7, RefusedFits, FenceFits
<1> HIDE DEF bt, kept
<1>9. Fits(rxs, m.state, m.a, m.latch, at, bt)
  BY <1>2, <1>8, FitsTrans
<1> QED BY <1>4, <1>8, <1>9, OneAttemptMoves DEF at

\* A message that has not ended has no commit of its assignment.
LEMMA OpenUncommitted ==
  ASSUME NEW R, NEW id, NEW m, Good(R, id, m), ~is_terminal(m.state)
  PROVE  ~HasCommit(m)
BY DEF Good, Decided

\* A record in which the user, or issue, changed the token, the latch or the state,
\* and then the finalizer.
LEMMA Reworded ==
  ASSUME NEW R, NEW b, NEW id, NEW m, Good(R, id, m), ~is_terminal(m.state),
         NEW n, n \in MsgType, n.attempts = m.attempts, n.offer = m.offer, n.a = m.a,
         m.latch => n.latch, n.auto_repeats = m.auto_repeats, n.requeues = m.requeues,
         n.corrected = m.corrected, n.waiting \in {m.waiting, "No"},
         n.state = m.state \/ (m.state \in OpenStates /\ n.state = "Attempting"),
         n.token.kind = "None" \/ (n.token.kind = "Manual" /\ n.state = "Attempting")
  PROVE  LET o == finalize(R, b, id, n)
         IN Good(R, id, o) /\ Quiet(m, o)
<1> DEFINE o == finalize(R, b, id, n)
<1>1. Sound(R, id, m) /\ Latched(m) /\ ~HasCommit(m) /\ m \in MsgType
  BY OpenUncommitted DEF Good, Sound
<1>2. Current(n) = Current(m)
  BY DEF Current
<1>3. ~is_terminal(n.state) /\ n.state # "Exited"
  BY DEF OpenStates
<1>4. Counted(n)
  BY <1>1 DEF Sound, Counted
<1>5. Scheduled(n)
  BY <1>3 DEF Scheduled
<1>6. \A e \in DOMAIN m.attempts : AttemptOK(R, n.state, n.a, n.attempts[e])
  BY <1>1, <1>3 DEF Sound, AttemptOK
<1>7. Sound(R, id, n)
  BY <1>1, <1>3, <1>4, <1>5, <1>6 DEF Sound
<1>8. \A e \in DOMAIN m.attempts : Stays(m.latch, n.state, m.attempts[e], n.attempts[e])
  BY <1>6, LeftAlone DEF Fits
<1>9. Leg(m, n)
  BY <1>1, <1>8 DEF Leg, MsgType
<1>10. Turn(m, n)
  BY DEF Turn, OpenStates
<1>11. Decided(n)
  BY <1>1, <1>2 DEF Decided, HasCommit
<1>12. n.state = "CancelHeld" => n.latch
  BY <1>1 DEF Latched, OpenStates
<1>13. Good(R, id, o) /\ Leg(n, o) /\ Turn(n, o)
  BY <1>7, <1>11, <1>12, FinalizeDecides
<1> HIDE DEF o
<1>14. o \in MsgType
  BY <1>13 DEF Good, Sound
<1>15. Quiet(m, o)
  BY <1>1, <1>9, <1>10, <1>13, <1>14, QuietTrans DEF Quiet
<1> QED BY <1>13, <1>15 DEF o

LEMMA RetryStep ==
  ASSUME Running, NEW id \in Known, retry(id)
  PROVE  Ordinary
<1> DEFINE m == msgs[id]
           t == set_state(m, "Attempting")
           n == [t EXCEPT !.token = [kind |-> "Manual", current |-> TRUE], !.waiting = "No"]
           o == finalize(rxs, busy, id, n)
<1>1. Good(rxs, id, m) /\ m \in MsgType /\ "Attempting" \in States
  BY RunningGood DEF Good, Sound, States
<1>2. m.state \in OpenStates
  BY DEF retry, attention, OpenStates
<1>3. ~is_terminal(m.state)
  BY <1>2 DEF OpenStates
<1>4. /\ Rest(m, t) /\ t.state = "Attempting" /\ t.a = m.a /\ t.requeues = m.requeues
      /\ t.corrected = m.corrected
  BY <1>1, SetState
<1>5. /\ Rest(m, n) /\ n.state = "Attempting" /\ n.a = m.a /\ n.requeues = m.requeues
      /\ n.corrected = m.corrected /\ n.token.kind = "Manual" /\ n.waiting = "No"
  <2> HIDE DEF t
  <2> QED BY <1>4 DEF Rest, MsgType, TokenType
<1>6. msgs' = [msgs EXCEPT ![id] = o] /\ UNCHANGED <<rxs, forgotten, exited, used>>
  BY DEF retry
<1> HIDE DEF n
<1>7. Good(rxs, id, o) /\ Quiet(m, o)
  BY <1>1, <1>2, <1>3, <1>5, Reworded DEF Rest
<1> HIDE DEF o
<1> QED BY <1>6, <1>7, OneMoves DEF Quiet, Moves

LEMMA CancelStep ==
  ASSUME Running, NEW id \in Known, cancel(id)
  PROVE  Ordinary
<1> DEFINE m == msgs[id]
           n == [m EXCEPT !.latch = TRUE, !.token = NoToken]
           o == finalize(rxs, busy, id, n)
<1>1. Good(rxs, id, m) /\ m \in MsgType /\ ~is_terminal(m.state)
  BY RunningGood DEF Good, Sound, cancel
<1>2. /\ n \in MsgType /\ n.attempts = m.attempts /\ n.offer = m.offer /\ n.a = m.a
      /\ n.latch /\ n.auto_repeats = m.auto_repeats /\ n.requeues = m.requeues
      /\ n.corrected = m.corrected /\ n.waiting = m.waiting /\ n.state = m.state
      /\ n.token.kind = "None"
  BY <1>1 DEF MsgType, TokenType, NoToken
<1>3. msgs' = [msgs EXCEPT ![id] = o] /\ UNCHANGED <<rxs, forgotten, exited, used>>
  BY DEF cancel
<1> HIDE DEF n
<1>4. Good(rxs, id, o) /\ Quiet(m, o)
  BY <1>1, <1>2, Reworded
<1> HIDE DEF o
<1> QED BY <1>3, <1>4, OneMoves DEF Quiet, Moves

LEMMA WaitedStep ==
  ASSUME Running, NEW id \in Known, Waited(id)
  PROVE  Ordinary
<1> DEFINE m == msgs[id]
           n == [m EXCEPT !.waiting = "Over"]
<1>1. Sound(rxs, id, m) /\ Decided(m) /\ Latched(m) /\ m \in MsgType /\ m.waiting = "Since"
  BY RunningGood DEF Good, Sound, Waited
<1>2. ~is_terminal(m.state)
  BY <1>1 DEF Sound, Scheduled
<1>3. /\ Rest(m, n) /\ n.state = m.state /\ n.a = m.a /\ n.requeues = m.requeues
      /\ n.token = m.token /\ n.corrected = m.corrected
  BY <1>1 DEF Rest, MsgType
<1>4. msgs' = [msgs EXCEPT ![id] = n] /\ UNCHANGED <<rxs, forgotten, exited, used>>
  BY DEF Waited
<1> HIDE DEF n
<1>5. Current(n) = Current(m) /\ n.attempts = m.attempts
  BY <1>3 DEF Current, Rest
<1>6. Counted(n) /\ Scheduled(n)
  BY <1>1, <1>2, <1>3, <1>5 DEF Sound, Counted, Scheduled, Rest
<1>7. n.a >= m.a /\ n.state # "Exited"
  BY <1>1, <1>2, <1>3 DEF MsgType
<1>8. Ruled(rxs, id, m, n)
  BY <1>1, <1>2, <1>3, <1>6, <1>7, RuledBy
<1>9. Decided(n) /\ Latched(n)
  BY <1>1, <1>3, <1>5 DEF Decided, Latched, HasCommit, Rest
<1>10. Turn(m, n)
  BY <1>1, <1>3 DEF Turn, MsgType, States, OpenStates
<1>11. Good(rxs, id, n) /\ Moves(m, n)
  BY <1>8, <1>9, <1>10 DEF Good, Moves, Ruled
<1> QED BY <1>4, <1>11, OneMoves

-----------------------------------------------------------------------------
(* Steps on every message.                                                  *)

\* Every message has its attempts replaced, and may be finalized.
LEMMA ManyMove ==
  ASSUME Running, NEW b, NEW g, UNCHANGED <<forgotten, exited, used>>,
         \A id \in Known : /\ Replaces(rxs', msgs[id], g[id]) /\ CommitsNothing(msgs[id], g[id])
                           /\ \/ msgs'[id] = finalize(rxs', b, id, Remap(msgs[id], g[id]))
                              \/ msgs'[id] = Remap(msgs[id], g[id]),
         \A id \in Ids \ Known : msgs'[id] = msgs[id]
  PROVE  Ordinary
<1>1. SUFFICES ASSUME NEW id \in Ids
               PROVE  IF id \in Known THEN Good(rxs', id, msgs'[id]) /\ Moves(msgs[id], msgs'[id])
                                      ELSE msgs'[id] = NoMsg
  BY DEF Ordinary, Running
<1>2. CASE id \in Known
  <2> DEFINE m == msgs[id]
             f == g[id]
  <2>1. Good(rxs, id, m) /\ Replaces(rxs', m, f) /\ CommitsNothing(m, f)
    BY <1>2, RunningGood
  <2> HIDE DEF m, f
  <2>2. LET n == finalize(rxs', b, id, Remap(m, f)) IN Good(rxs', id, n) /\ Quiet(m, n)
    BY <2>1, Refinalized
  <2>3. LET n == Remap(m, f) IN Good(rxs', id, n) /\ Quiet(m, n)
    BY <2>1, Remapped
  <2> QED BY <1>2, <2>2, <2>3 DEF Quiet, Moves, m, f
<1>3. CASE id \notin Known
  BY <1>3 DEF Known
<1> QED BY <1>2, <1>3

\* Nothing happens to messages.
LEMMA NoneMoves ==
  ASSUME Running, UNCHANGED <<msgs, forgotten, exited, used>>, SameSlots(rxs, rxs')
  PROVE  Ordinary
<1>1. SUFFICES ASSUME NEW id \in Ids
               PROVE  IF id \in Known THEN Good(rxs', id, msgs[id]) /\ Moves(msgs[id], msgs[id])
                                      ELSE msgs[id] = NoMsg
  BY DEF Ordinary, Running
<1>2. CASE id \in Known
  <2>1. Good(rxs, id, msgs[id])
    BY <1>2, RunningGood
  <2> QED BY <1>2, <2>1, Undisturbed DEF Quiet, Moves
<1> QED BY <1>2 DEF Known

\* Attempts are as good with other receivers of the same slots.
LEMMA AttemptStaysOK ==
  ASSUME Running, NEW Q, SameSlots(rxs, Q), NEW id \in Known, NEW e \in AttemptsOf(id)
  PROVE  AttemptOK(Q, msgs[id].state, msgs[id].a, msgs[id].attempts[e])
BY AttemptIsOK, OtherReceivers

LEMMA GraceFits ==
  ASSUME NEW R, NEW s, NEW a, NEW latch, NEW at, NEW bt, Fits(R, s, a, latch, at, bt),
         NEW grace \in BOOLEAN, NEW ct, ct = [bt EXCEPT !.grace = grace]
  PROVE  Fits(R, s, a, latch, at, ct) /\ ct.stage = bt.stage
<1>1. bt \in AttemptType
  BY DEF Fits, AttemptOK
<1>2. ct \in AttemptType
  BY <1>1 DEF AttemptType
<1>3. /\ ct.a = bt.a /\ ct.rx = bt.rx /\ ct.slot = bt.slot /\ ct.stage = bt.stage
      /\ ct.kind = bt.kind /\ ct.cleared = bt.cleared /\ ct.checking = bt.checking
      /\ ct.found = bt.found /\ ct.receipt = bt.receipt /\ ct.verifier = bt.verifier
      /\ ct.resume_pending = bt.resume_pending /\ ct.reclaimed = bt.reclaimed
      /\ ct.withheld = bt.withheld
  BY <1>1 DEF AttemptType
<1>4. AttemptOK(R, s, a, ct) /\ Stays(latch, s, at, ct)
  BY <1>2, <1>3 DEF Fits, AttemptOK, Whole, Stays
<1> QED BY <1>3, <1>4 DEF Fits

\* The receivers after one of them changed in what is not its slot.
LEMMA OneReceiver ==
  ASSUME rxs \in Seq(RxType), NEW rx \in DOMAIN rxs, NEW r \in RxType, r.slot = rxs[rx].slot
  PROVE  /\ [rxs EXCEPT ![rx] = r] \in Seq(RxType)
         /\ SameSlots(rxs, [rxs EXCEPT ![rx] = r])
BY DEF SameSlots

LEMMA StreamClosedStep ==
  ASSUME Running, NEW rx \in DOMAIN rxs, stream_closed(rx)
  PROVE  Ordinary /\ rxs' \in Seq(RxType)
<1>1. rxs \in Seq(RxType) /\ DOMAIN msgs = Ids
  BY DEF Running, IInv, Shapes
<1> DEFINE r == [rxs[rx] EXCEPT !.closed = TRUE]
           Q == [rxs EXCEPT ![rx] = r]
           g == [id \in Known |-> msgs[id].attempts]
<1>2. r \in RxType /\ r.slot = rxs[rx].slot
  <2>1. rxs[rx] \in RxType
    BY <1>1
  <2> QED BY <2>1 DEF RxType
<1>3. rxs' = Q /\ UNCHANGED <<forgotten, exited, used>>
  BY DEF stream_closed
<1>4. Q \in Seq(RxType) /\ SameSlots(rxs, Q)
  <2> HIDE DEF r
  <2> QED BY <1>1, <1>2, OneReceiver
<1> HIDE DEF Q
<1>5. ASSUME NEW id \in Known
      PROVE  /\ Replaces(Q, msgs[id], g[id]) /\ CommitsNothing(msgs[id], g[id])
             /\ Remap(msgs[id], g[id]) = msgs[id]
  <2>1. msgs[id] \in MsgType
    BY RunningGood DEF Good, Sound
  <2>2. \A e \in AttemptsOf(id) :
          Fits(Q, msgs[id].state, msgs[id].a, msgs[id].latch, msgs[id].attempts[e], msgs[id].attempts[e])
    BY <1>4, AttemptStaysOK, LeftAlone
  <2>3. g[id] = msgs[id].attempts
    OBVIOUS
  <2>4. Remap(msgs[id], msgs[id].attempts) = msgs[id]
    BY <2>1 DEF Remap, MsgType
  <2>5. msgs[id].attempts = [e \in DOMAIN msgs[id].attempts |-> msgs[id].attempts[e]]
    BY <2>1 DEF MsgType
  <2>6. Replaces(Q, msgs[id], msgs[id].attempts) /\ CommitsNothing(msgs[id], msgs[id].attempts)
    BY <2>2, <2>5 DEF Replaces, CommitsNothing, AttemptsOf
  <2> QED BY <2>3, <2>4, <2>6
<1>6. \A id \in Known : \/ msgs'[id] = finalize(Q, busy, id, msgs[id])
                        \/ msgs'[id] = msgs[id]
  BY <1>1, <1>3 DEF stream_closed, Finalized, Known
<1>7. \A id \in Ids \ Known : msgs'[id] = msgs[id]
  BY <1>1 DEF stream_closed, Finalized, BoundTo
<1> HIDE DEF g
<1>8. Ordinary
  BY <1>3, <1>5, <1>6, <1>7, ManyMove
<1> QED BY <1>3, <1>4, <1>8

LEMMA ConnectionClosedStep ==
  ASSUME Running, NEW rx \in DOMAIN rxs, connection_closed(rx)
  PROVE  Ordinary /\ rxs' \in Seq(RxType)
<1>1. rxs \in Seq(RxType) /\ DOMAIN msgs = Ids /\ one_shot(rxs[rx].slot)
  BY DEF Running, IInv, Shapes, connection_closed
<1> DEFINE r == Gone(rxs[rx])
           Q == [rxs EXCEPT ![rx] = r]
           F(at) == IF at.rx = rx THEN ShotClosed(at) ELSE at
           g == [id \in Known |-> [e \in DOMAIN msgs[id].attempts |-> F(msgs[id].attempts[e])]]
<1>2. r \in RxType /\ r.slot = rxs[rx].slot
  <2>1. rxs[rx] \in RxType
    BY <1>1
  <2> QED BY <2>1 DEF RxType, Gone
<1>3. rxs' = Q /\ UNCHANGED <<forgotten, exited, used>>
  BY DEF connection_closed
<1>4. Q \in Seq(RxType) /\ SameSlots(rxs, Q)
  <2> HIDE DEF r
  <2> QED BY <1>1, <1>2, OneReceiver
<1>5. \A id \in Known :
        /\ g[id] = [e \in DOMAIN msgs[id].attempts |-> g[id][e]]
        /\ \A e \in DOMAIN msgs[id].attempts : g[id][e] = F(msgs[id].attempts[e])
  OBVIOUS
<1>6. \A id \in Known : \/ msgs'[id] = finalize(Q, busy, id, Remap(msgs[id], g[id]))
                        \/ msgs'[id] = Remap(msgs[id], g[id])
  BY <1>1 DEF connection_closed, Finalized, OnAttempts, MapAttempts, Remap, Known
<1>7. \A id \in Ids \ Known : msgs'[id] = msgs[id]
  BY <1>1 DEF connection_closed, Finalized, BoundTo, OnAttempts
<1> HIDE DEF Q, g
<1>8. ASSUME NEW id \in Known
      PROVE  Replaces(Q, msgs[id], g[id]) /\ CommitsNothing(msgs[id], g[id])
  <2>1. ASSUME NEW e \in AttemptsOf(id)
        PROVE  LET at == msgs[id].attempts[e]
               IN /\ Fits(Q, msgs[id].state, msgs[id].a, msgs[id].latch, at, F(at))
                  /\ F(at).stage = "Committed" => at.stage = "Committed"
    <3> DEFINE at == msgs[id].attempts[e]
    <3>1. AttemptOK(Q, msgs[id].state, msgs[id].a, at) /\ AttemptOK(rxs, msgs[id].state, msgs[id].a, at)
      BY <1>4, AttemptStaysOK, AttemptIsOK
    <3> HIDE DEF at
    <3>2. CASE at.rx = rx
      <4>1. one_shot(at.slot)
        BY <1>1, <3>1, <3>2 DEF AttemptOK
      <4> QED BY <3>1, <3>2, <4>1, ShotClosedFits DEF at
    <3>3. CASE at.rx # rx
      BY <3>1, <3>3, LeftAlone DEF at
    <3> QED BY <3>2, <3>3
  <2> HIDE DEF F
  <2> QED BY <2>1, <1>5 DEF Replaces, CommitsNothing, AttemptsOf
<1>9. Ordinary
  BY <1>3, <1>6, <1>7, <1>8, ManyMove
<1> QED BY <1>3, <1>4, <1>9

LEMMA ReceiverTimeStep ==
  ASSUME Running, NEW rx \in DOMAIN rxs, ReceiverTime(rx)
  PROVE  Ordinary /\ rxs' \in Seq(RxType)
<1>1. rxs \in Seq(RxType)
  BY DEF Running, IInv, Shapes
<1>2. rxs[rx] \in RxType
  BY <1>1
<1>3. \E r \in RxType : r.slot = rxs[rx].slot /\ rxs' = [rxs EXCEPT ![rx] = r]
  <2>1. CASE rxs' = [rxs EXCEPT ![rx].held = {}]
    <3> DEFINE r == [rxs[rx] EXCEPT !.held = {}]
    <3>1. r \in RxType /\ r.slot = rxs[rx].slot
      BY <1>2 DEF RxType
    <3>2. rxs' = [rxs EXCEPT ![rx] = r]
      BY <2>1
    <3> QED BY <3>1, <3>2
  <2>2. CASE rxs' = [rxs EXCEPT ![rx].hold = FALSE]
    <3> DEFINE r == [rxs[rx] EXCEPT !.hold = FALSE]
    <3>1. r \in RxType /\ r.slot = rxs[rx].slot
      BY <1>2 DEF RxType
    <3>2. rxs' = [rxs EXCEPT ![rx] = r]
      BY <2>2
    <3> QED BY <3>1, <3>2
  <2> QED BY <2>1, <2>2 DEF ReceiverTime
<1>4. rxs' \in Seq(RxType) /\ SameSlots(rxs, rxs')
  BY <1>1, <1>3, OneReceiver
<1>5. Ordinary
  BY <1>4, NoneMoves DEF ReceiverTime
<1> QED BY <1>4, <1>5

\* What a step makes of every attempt fits: the messages may be finalized.
Fitting(Q, g) ==
  \A id \in Known :
    /\ g[id] = [e \in DOMAIN msgs[id].attempts |-> g[id][e]]
    /\ \A e \in AttemptsOf(id) :
         /\ Fits(Q, msgs[id].state, msgs[id].a, msgs[id].latch, msgs[id].attempts[e], g[id][e])
         /\ g[id][e].stage = "Committed" => msgs[id].attempts[e].stage = "Committed"

LEMMA FittingMoves ==
  ASSUME Running, NEW b, NEW g, UNCHANGED <<forgotten, exited, used>>, Fitting(rxs', g),
         \A id \in Known : \/ msgs'[id] = finalize(rxs', b, id, Remap(msgs[id], g[id]))
                           \/ msgs'[id] = Remap(msgs[id], g[id]),
         \A id \in Ids \ Known : msgs'[id] = msgs[id]
  PROVE  Ordinary
<1>1. \A id \in Known : Replaces(rxs', msgs[id], g[id]) /\ CommitsNothing(msgs[id], g[id])
  BY DEF Fitting, Replaces, CommitsNothing, AttemptsOf
<1> QED BY <1>1, ManyMove

LEMMA SnapshotStep ==
  ASSUME Running, NEW rx \in DOMAIN rxs, NEW held, held \subseteq Ids \X Nat \X Nat,
         NEW seen, snapshot(rx, held, seen)
  PROVE  Ordinary /\ rxs' \in Seq(RxType)
<1>1. rxs \in Seq(RxType) /\ DOMAIN msgs = Ids
  BY DEF Running, IInv, Shapes
<1> DEFINE r == [rxs[rx] EXCEPT !.held = held]
           Q == [rxs EXCEPT ![rx] = r]
           Listed(id, e, at) == IF <<id, at.a, e>> \in held THEN recheck(at) ELSE at
           F(id, e, at) == IF at.rx # rx THEN at
                           ELSE [Listed(id, e, at) EXCEPT !.grace = @ /\ <<id, at.a, e>> \notin seen]
           g == [id \in Known |-> [e \in DOMAIN msgs[id].attempts |-> F(id, e, msgs[id].attempts[e])]]
<1>2. r \in RxType /\ r.slot = rxs[rx].slot
  <2>1. rxs[rx] \in RxType
    BY <1>1
  <2> QED BY <2>1 DEF RxType
<1>3. rxs' = Q /\ UNCHANGED <<forgotten, exited, used>>
  BY DEF snapshot
<1>4. Q \in Seq(RxType) /\ SameSlots(rxs, Q)
  <2> HIDE DEF r
  <2> QED BY <1>1, <1>2, OneReceiver
<1>5. \A id \in Known :
        /\ g[id] = [e \in DOMAIN msgs[id].attempts |-> g[id][e]]
        /\ \A e \in DOMAIN msgs[id].attempts : g[id][e] = F(id, e, msgs[id].attempts[e])
  <2> HIDE DEF F
  <2> QED OBVIOUS
<1>6. \A id \in Known : \/ msgs'[id] = finalize(Q, busy, id, Remap(msgs[id], g[id]))
                        \/ msgs'[id] = Remap(msgs[id], g[id])
  BY <1>1 DEF snapshot, Finalized, OnAttempts, MapAttempts, Remap, Known
<1>7. \A id \in Ids \ Known : msgs'[id] = msgs[id]
  BY <1>1 DEF snapshot, Finalized, BoundTo, OnAttempts
<1> HIDE DEF Q, g
<1>8. ASSUME NEW id \in Known, NEW e \in AttemptsOf(id)
      PROVE  LET at == msgs[id].attempts[e]
             IN /\ Fits(Q, msgs[id].state, msgs[id].a, msgs[id].latch, at, F(id, e, at))
                /\ F(id, e, at).stage = "Committed" => at.stage = "Committed"
  <2> DEFINE at == msgs[id].attempts[e]
             bt == Listed(id, e, at)
             grace == bt.grace /\ <<id, at.a, e>> \notin seen
  <2>1. AttemptOK(Q, msgs[id].state, msgs[id].a, at)
    BY <1>4, AttemptStaysOK
  <2> HIDE DEF at
  <2>2. Fits(Q, msgs[id].state, msgs[id].a, msgs[id].latch, at, bt) /\ bt.stage = at.stage
    BY <2>1, LeftAlone, RecheckFits
  <2>3. CASE at.rx = rx
    <3>1. F(id, e, at) = [bt EXCEPT !.grace = grace]
      BY <2>3
    <3>2. grace \in BOOLEAN
      OBVIOUS
    <3> HIDE DEF bt, grace, F
    <3> QED BY <2>2, <3>1, <3>2, GraceFits DEF at
  <2>4. CASE at.rx # rx
    BY <2>1, <2>4, LeftAlone DEF at
  <2> QED BY <2>3, <2>4
<1>9. Fitting(Q, g)
  <2> HIDE DEF F
  <2> QED BY <1>5, <1>8 DEF Fitting, AttemptsOf
<1>10. Ordinary
  BY <1>3, <1>6, <1>7, <1>9, FittingMoves
<1> QED BY <1>3, <1>4, <1>10

LEMMA TurnStep ==
  ASSUME Running, turn
  PROVE  Ordinary
<1>1. DOMAIN msgs = Ids
  BY DEF Running, IInv, Shapes
<1> DEFINE F(at) == IF ~once_held(at) THEN at
                    ELSE IF busy THEN [at EXCEPT !.grace = TRUE] ELSE recheck(at)
           g == [id \in Known |-> [e \in DOMAIN msgs[id].attempts |-> F(msgs[id].attempts[e])]]
<1>2. rxs' = rxs /\ UNCHANGED <<forgotten, exited, used>>
  BY DEF turn
<1>3. \A id \in Known :
        /\ g[id] = [e \in DOMAIN msgs[id].attempts |-> g[id][e]]
        /\ \A e \in DOMAIN msgs[id].attempts : g[id][e] = F(msgs[id].attempts[e])
  <2> HIDE DEF F
  <2> QED OBVIOUS
<1>4. \A id \in Known : \/ msgs'[id] = finalize(rxs, ~busy, id, Remap(msgs[id], g[id]))
                        \/ msgs'[id] = Remap(msgs[id], g[id])
  BY <1>1 DEF turn, Finalized, OnAttempts, MapAttempts, Remap, Known
<1>5. \A id \in Ids \ Known : msgs'[id] = msgs[id]
  BY <1>1 DEF turn, Finalized, OnAttempts
<1> HIDE DEF g
<1>6. ASSUME NEW id \in Known, NEW e \in AttemptsOf(id)
      PROVE  LET at == msgs[id].attempts[e]
             IN /\ Fits(rxs, msgs[id].state, msgs[id].a, msgs[id].latch, at, F(at))
                /\ F(at).stage = "Committed" => at.stage = "Committed"
  <2> DEFINE at == msgs[id].attempts[e]
             ct == [at EXCEPT !.grace = TRUE]
  <2>1. AttemptOK(rxs, msgs[id].state, msgs[id].a, at)
    BY AttemptIsOK
  <2>2. Fits(rxs, msgs[id].state, msgs[id].a, msgs[id].latch, at, ct) /\ ct.stage = at.stage
    <3> HIDE DEF at
    <3> DEFINE grace == TRUE
    <3>1. ct = [at EXCEPT !.grace = grace] /\ grace \in BOOLEAN
      OBVIOUS
    <3>2. Fits(rxs, msgs[id].state, msgs[id].a, msgs[id].latch, at, at)
      BY <2>1, LeftAlone
    <3> HIDE DEF ct, grace
    <3> QED BY <3>1, <3>2, GraceFits
  <2>3. F(at) \in {at, ct, recheck(at)}
    OBVIOUS
  <2> HIDE DEF at, ct, F
  <2> QED BY <2>1, <2>2, <2>3, LeftAlone, RecheckFits DEF at
<1>7. Fitting(rxs, g)
  <2> HIDE DEF F
  <2> QED BY <1>3, <1>6 DEF Fitting, AttemptsOf
<1> QED BY <1>2, <1>4, <1>5, <1>7, FittingMoves

Looked(at, checking) == [at EXCEPT !.found = at.receipt # "None", !.checking = checking]

\* A look in the spool marks what it found, and what it looked for in vain.
LEMMA LookedFits ==
  ASSUME NEW R, NEW s, NEW a, NEW latch, NEW at, AttemptOK(R, s, a, at),
         NEW checking \in {"No", "Lapse", "Verify"},
         at.receipt # "None" => checking = "No",
         checking = "Verify" => is_terminal(s), at.withheld => checking = "No"
  PROVE  LET ct == Looked(at, checking)
         IN Fits(R, s, a, latch, at, ct) /\ ct.stage = at.stage
<1> DEFINE ct == Looked(at, checking)
<1>1. at \in AttemptType
  BY DEF AttemptOK
<1>2. ct \in AttemptType
  BY <1>1 DEF AttemptType, Looked
<1>3. /\ ct.a = at.a /\ ct.rx = at.rx /\ ct.slot = at.slot /\ ct.stage = at.stage
      /\ ct.kind = at.kind /\ ct.cleared = at.cleared /\ ct.checking = checking
      /\ ct.found = (at.receipt # "None") /\ ct.receipt = at.receipt /\ ct.verifier = at.verifier
      /\ ct.resume_pending = at.resume_pending /\ ct.reclaimed = at.reclaimed
      /\ ct.withheld = at.withheld
  BY <1>1 DEF AttemptType, Looked
<1> HIDE DEF ct
<1>4. AttemptOK(R, s, a, ct)
  BY <1>2, <1>3 DEF AttemptOK, Whole
<1>5. Stays(latch, s, at, ct)
  BY <1>2, <1>3 DEF AttemptOK, Whole, Stays
<1> QED BY <1>3, <1>4, <1>5 DEF Fits, ct

LEMMA LapseChecksStep ==
  ASSUME Running, LapseChecks
  PROVE  Ordinary
<1>1. DOMAIN msgs = Ids
  BY DEF Running, IInv, Shapes
<1>2. PICK told \in SUBSET Unseen : lapse_checks(told)
  BY DEF LapseChecks
<1> DEFINE Found(at) == at.receipt # "None"
           Check(id, e, at) == IF Found(at) THEN "No"
                               ELSE IF lapse_candidate(id, e) THEN "Lapse"
                               ELSE IF verify_candidate(id, e) THEN "Verify"
                               ELSE "No"
           F(id, e, at) == IF <<id, e>> \in told
                           THEN [at EXCEPT !.found = Found(at), !.checking = Check(id, e, at)]
                           ELSE at
           g == [id \in Known |-> [e \in DOMAIN msgs[id].attempts |-> F(id, e, msgs[id].attempts[e])]]
<1>3. rxs' = rxs /\ UNCHANGED <<forgotten, exited, used>>
  BY <1>2 DEF lapse_checks
<1>4. \A id \in Known :
        /\ g[id] = [e \in DOMAIN msgs[id].attempts |-> g[id][e]]
        /\ \A e \in DOMAIN msgs[id].attempts : g[id][e] = F(id, e, msgs[id].attempts[e])
  <2> HIDE DEF F
  <2> QED OBVIOUS
<1>5. \A id \in Known : msgs'[id] = Remap(msgs[id], g[id])
  BY <1>1, <1>2 DEF lapse_checks, OnAttempts, MapAttempts, Remap, Known
<1>6. \A id \in Ids \ Known : msgs'[id] = msgs[id]
  BY <1>1, <1>2 DEF lapse_checks, OnAttempts
<1> HIDE DEF g
<1>7. ASSUME NEW id \in Known, NEW e \in AttemptsOf(id)
      PROVE  LET at == msgs[id].attempts[e]
             IN /\ Fits(rxs, msgs[id].state, msgs[id].a, msgs[id].latch, at, F(id, e, at))
                /\ F(id, e, at).stage = "Committed" => at.stage = "Committed"
  <2> DEFINE at == msgs[id].attempts[e]
             checking == Check(id, e, at)
  <2>1. AttemptOK(rxs, msgs[id].state, msgs[id].a, at)
    BY AttemptIsOK
  <2>2. lapse_candidate(id, e) => ~at.withheld
    BY DEF lapse_candidate, needs_clearance
  <2>3. verify_candidate(id, e) => ~at.withheld /\ is_terminal(msgs[id].state)
    BY DEF verify_candidate
  <2> HIDE DEF at
  <2>5. /\ checking \in {"No", "Lapse", "Verify"} /\ (at.receipt # "None" => checking = "No")
        /\ checking = "Verify" => is_terminal(msgs[id].state)
        /\ at.withheld => checking = "No"
    BY <2>2, <2>3
  <2>6. CASE <<id, e>> \in told
    <3>1. F(id, e, at) = Looked(at, checking)
      BY <2>6 DEF Looked
    <3> HIDE DEF checking, F
    <3> QED BY <2>1, <2>5, <3>1, LookedFits DEF at
  <2>7. CASE <<id, e>> \notin told
    BY <2>1, <2>7, LeftAlone DEF at
  <2> QED BY <2>6, <2>7
<1>8. Fitting(rxs, g)
  <2> HIDE DEF F
  <2> QED BY <1>4, <1>7 DEF Fitting, AttemptsOf
<1> QED BY <1>3, <1>5, <1>6, <1>8, FittingMoves

LEMMA SnapshotsStep ==
  ASSUME Running, NEW rx \in DOMAIN rxs, Snapshot(rx)
  PROVE  Ordinary /\ rxs' \in Seq(RxType)
<1> DEFINE P(at) == at.rx = rx /\ at.stage \in {"Issued", "Handed", "HandedInert"}
           listed == RefsOn(P)
<1>1. listed \subseteq Ids \X Nat \X Nat
  <2>1. SUFFICES ASSUME NEW id \in Known, NEW e \in AttemptsOf(id)
                 PROVE  <<id, msgs[id].attempts[e].a, e>> \in Ids \X Nat \X Nat
    BY DEF RefsOn
  <2>2. msgs[id].attempts[e].a \in Nat
    BY AttemptIsOK DEF AttemptOK, AttemptType
  <2>3. msgs[id].attempts \in Seq(AttemptType) /\ id \in Ids
    BY RunningGood DEF Good, Sound, MsgType
  <2>4. e \in Nat
    BY <2>3 DEF AttemptsOf
  <2> QED BY <2>2, <2>3, <2>4
<1>2. \E held \in SUBSET listed : \E seen : snapshot(rx, held, seen)
  BY DEF Snapshot
<1> HIDE DEF listed
<1> QED BY <1>1, <1>2, SnapshotStep

\* A new incarnation of a stream's slot takes over what a retired one had.
LEMMA HandBackFits ==
  ASSUME NEW Q, NEW s, NEW a, NEW latch, NEW at, AttemptOK(Q, s, a, at),
         NEW R, NEW slot \in Streams, NEW replaced, NEW rx \in Nat
  PROVE  LET bt == HandBack(R, slot, replaced, rx, at)
         IN Fits(Q, s, a, latch, at, bt) /\ bt.stage = at.stage
<1> DEFINE bt == HandBack(R, slot, replaced, rx, at)
<1>1. at \in AttemptType
  BY DEF AttemptOK
<1>2. CASE bt = at
  BY <1>2, LeftAlone
<1>3. CASE /\ at.slot = slot /\ ~is_final(at.stage)
           /\ bt = [at EXCEPT !.resume_pending = @ \/ replaced, !.grace = @ /\ ~replaced]
  <2>1. bt \in AttemptType
    BY <1>1, <1>3 DEF AttemptType
  <2>2. /\ bt.a = at.a /\ bt.rx = at.rx /\ bt.slot = at.slot /\ bt.stage = at.stage
        /\ bt.kind = at.kind /\ bt.cleared = at.cleared /\ bt.checking = at.checking
        /\ bt.found = at.found /\ bt.receipt = at.receipt /\ bt.verifier = at.verifier
        /\ bt.reclaimed = at.reclaimed /\ bt.withheld = at.withheld
    BY <1>1, <1>3 DEF AttemptType
  <2> HIDE DEF bt
  <2>3. AttemptOK(Q, s, a, bt)
    BY <1>3, <2>1, <2>2 DEF AttemptOK, Whole
  <2>4. Stays(latch, s, at, bt)
    BY <1>3, <2>2 DEF Stays
  <2> QED BY <2>2, <2>3, <2>4 DEF Fits, bt
<1>4. CASE bt = [recheck(at) EXCEPT !.correcting = rx]
  <2> DEFINE ct == recheck(at)
  <2>1. Fits(Q, s, a, latch, at, ct) /\ ct.stage = at.stage
    BY RecheckFits
  <2>2. ct \in AttemptType
    BY <2>1 DEF Fits, AttemptOK
  <2> HIDE DEF ct
  <2>3. bt \in AttemptType
    BY <1>4, <2>2 DEF AttemptType, ct
  <2>4. /\ bt.a = ct.a /\ bt.rx = ct.rx /\ bt.slot = ct.slot /\ bt.stage = ct.stage
        /\ bt.kind = ct.kind /\ bt.cleared = ct.cleared /\ bt.checking = ct.checking
        /\ bt.found = ct.found /\ bt.receipt = ct.receipt /\ bt.verifier = ct.verifier
        /\ bt.resume_pending = ct.resume_pending /\ bt.reclaimed = ct.reclaimed
        /\ bt.withheld = ct.withheld
    BY <1>4, <2>2 DEF AttemptType, ct
  <2> HIDE DEF bt
  <2>5. AttemptOK(Q, s, a, bt) /\ Stays(latch, s, at, bt)
    BY <2>1, <2>3, <2>4 DEF Fits, AttemptOK, Whole, Stays
  <2> QED BY <2>1, <2>4, <2>5 DEF Fits, bt
<1> QED BY <1>2, <1>3, <1>4 DEF HandBack

LEMMA ManyReceivers ==
  ASSUME rxs \in Seq(RxType), NEW f \in [DOMAIN rxs -> RxType],
         \A r \in DOMAIN rxs : f[r].slot = rxs[r].slot
  PROVE  /\ f \in Seq(RxType) /\ Len(f) = Len(rxs) /\ DOMAIN f = DOMAIN rxs
         /\ SameSlots(rxs, f)
<1>1. f \in Seq(RxType) /\ Len(f) = Len(rxs) /\ DOMAIN f = DOMAIN rxs
  OBVIOUS
<1> QED BY <1>1 DEF SameSlots

LEMMA OneMoreReceiver ==
  ASSUME rxs \in Seq(RxType), NEW f \in Seq(RxType), SameSlots(rxs, f), NEW q \in RxType,
         DOMAIN f = DOMAIN rxs
  PROVE  Append(f, q) \in Seq(RxType) /\ SameSlots(rxs, Append(f, q))
<1>1. Append(f, q) \in Seq(RxType)
  OBVIOUS
<1>2. \A r \in DOMAIN f : r \in DOMAIN Append(f, q) /\ Append(f, q)[r] = f[r]
  OBVIOUS
<1> QED BY <1>1, <1>2 DEF SameSlots

LEMMA RegisterStep ==
  ASSUME Running, NEW slot \in Slots, register(slot)
  PROVE  Ordinary /\ rxs' \in Seq(RxType)
<1>1. rxs \in Seq(RxType) /\ DOMAIN msgs = Ids /\ Len(rxs) \in Nat
  BY DEF Running, IInv, Shapes
<1> DEFINE rx == Len(rxs) + 1
           old == IF slot = "Hook" THEN {} ELSE LiveIn(slot)
           replaced == old # {}
           f == [r \in DOMAIN rxs |-> IF r \notin old THEN rxs[r]
                                      ELSE IF one_shot(slot) THEN Gone(rxs[r])
                                      ELSE Retired(rxs[r])]
           Q == Append(f, NewReceiver(slot))
           F(at) == IF one_shot(slot) THEN IF at.rx \in old THEN ShotClosed(at) ELSE at
                    ELSE HandBack(Q, slot, replaced, rx, at)
           g == [id \in Known |-> [e \in DOMAIN msgs[id].attempts |-> F(msgs[id].attempts[e])]]
<1>2. \A r \in DOMAIN rxs : f[r] \in RxType /\ f[r].slot = rxs[r].slot
  <2>1. SUFFICES ASSUME NEW r \in DOMAIN rxs
                 PROVE  f[r] \in RxType /\ f[r].slot = rxs[r].slot
    OBVIOUS
  <2>2. rxs[r] \in RxType
    BY <1>1
  <2>3. /\ Gone(rxs[r]) \in RxType /\ Gone(rxs[r]).slot = rxs[r].slot
        /\ Retired(rxs[r]) \in RxType /\ Retired(rxs[r]).slot = rxs[r].slot
    BY <2>2 DEF RxType, Gone, Retired
  <2> QED BY <2>2, <2>3
<1>3. f \in Seq(RxType) /\ DOMAIN f = DOMAIN rxs /\ SameSlots(rxs, f)
  <2>1. f = [r \in DOMAIN rxs |-> f[r]]
    OBVIOUS
  <2> HIDE DEF f
  <2>2. f \in [DOMAIN rxs -> RxType]
    BY <2>1, <1>2
  <2> QED BY <2>2, <1>1, <1>2, ManyReceivers
<1>4. NewReceiver(slot) \in RxType
  BY DEF NewReceiver, RxType
<1>5. Q \in Seq(RxType) /\ SameSlots(rxs, Q)
  <2> HIDE DEF f
  <2> QED BY <1>1, <1>3, <1>4, OneMoreReceiver
<1>6. rxs' = Q /\ UNCHANGED <<forgotten, exited, used>>
  BY DEF register
<1> HIDE DEF f
<1>7. \A id \in Known :
        /\ g[id] = [e \in DOMAIN msgs[id].attempts |-> g[id][e]]
        /\ \A e \in DOMAIN msgs[id].attempts : g[id][e] = F(msgs[id].attempts[e])
  <2> HIDE DEF F
  <2> QED OBVIOUS
<1>8. \A id \in Known : msgs'[id] = finalize(Q, busy, id, Remap(msgs[id], g[id]))
  BY <1>1 DEF register, Finalized, OnAttempts, MapAttempts, Remap, Known, f
<1>9. \A id \in Ids \ Known : msgs'[id] = msgs[id]
  BY <1>1 DEF register, Finalized, OnAttempts
<1>10. \A r \in old : one_shot(slot) => r \in DOMAIN rxs /\ one_shot(rxs[r].slot)
  BY DEF LiveIn
<1>11. ~one_shot(slot) => slot \in Streams
  BY AttemptConstants DEF one_shot, Streams
<1>12. rx \in Nat
  BY <1>1
<1> HIDE DEF Q, g, old, rx
<1>13. ASSUME NEW id \in Known, NEW e \in AttemptsOf(id)
       PROVE  LET at == msgs[id].attempts[e]
              IN /\ Fits(Q, msgs[id].state, msgs[id].a, msgs[id].latch, at, F(at))
                 /\ F(at).stage = "Committed" => at.stage = "Committed"
  <2> DEFINE at == msgs[id].attempts[e]
  <2>1. AttemptOK(Q, msgs[id].state, msgs[id].a, at) /\ AttemptOK(rxs, msgs[id].state, msgs[id].a, at)
    BY <1>5, AttemptStaysOK, AttemptIsOK
  <2> HIDE DEF at
  <2>2. CASE one_shot(slot) /\ at.rx \in old
    <3>1. one_shot(at.slot)
      BY <1>10, <2>1, <2>2 DEF AttemptOK
    <3>2. F(at) = ShotClosed(at)
      BY <2>2
    <3> HIDE DEF F
    <3> QED BY <2>1, <3>1, <3>2, ShotClosedFits DEF at
  <2>3. CASE one_shot(slot) /\ at.rx \notin old
    BY <2>1, <2>3, LeftAlone DEF at
  <2>4. CASE ~one_shot(slot)
    <3>1. F(at) = HandBack(Q, slot, replaced, rx, at)
      BY <2>4
    <3> HIDE DEF F, replaced
    <3> QED BY <2>1, <2>4, <3>1, <1>11, <1>12, HandBackFits DEF at
  <2> QED BY <2>2, <2>3, <2>4
<1>14. Fitting(Q, g)
  <2> HIDE DEF F
  <2> QED BY <1>7, <1>13 DEF Fitting, AttemptsOf
<1>15. Ordinary
  BY <1>6, <1>8, <1>9, <1>14, FittingMoves
<1> QED BY <1>5, <1>6, <1>15

-----------------------------------------------------------------------------
(* The tick, part by part, and composed.                                    *)

\* A message whose attempts all fit again is as good as it was, finalized or not.
LEMMA EachFits ==
  ASSUME NEW R, NEW Q, SameSlots(R, Q), NEW b, NEW id, NEW m, Good(R, id, m), NEW f,
         f = [e \in DOMAIN m.attempts |-> f[e]],
         \A e \in DOMAIN m.attempts :
           LET at == m.attempts[e]
           IN AttemptOK(R, m.state, m.a, at) /\ AttemptOK(Q, m.state, m.a, at) =>
                /\ Fits(Q, m.state, m.a, m.latch, at, f[e])
                /\ f[e].stage = "Committed" => at.stage = "Committed"
  PROVE  /\ Good(Q, id, Remap(m, f)) /\ Quiet(m, Remap(m, f))
         /\ Good(Q, id, finalize(Q, b, id, Remap(m, f)))
         /\ Quiet(m, finalize(Q, b, id, Remap(m, f)))
<1>1. \A e \in DOMAIN m.attempts : /\ AttemptOK(R, m.state, m.a, m.attempts[e])
                                   /\ AttemptOK(Q, m.state, m.a, m.attempts[e])
  BY OtherReceivers DEF Good, Sound
<1>2. Replaces(Q, m, f) /\ CommitsNothing(m, f)
  BY <1>1 DEF Replaces, CommitsNothing
<1> QED BY <1>2, Remapped, Refinalized

LEMMA TickCommittedMoves ==
  ASSUME NEW id, NEW m, Good(rxs, id, m)
  PROVE  Good(rxs, id, TickCommitted(id, m)) /\ Moves(m, TickCommitted(id, m))
<1> DEFINE S == {e \in DOMAIN m.attempts : m.attempts[e].found /\ m.attempts[e].stage # "Committed"}
<1>1. \A e \in S : ~m.attempts[e].withheld
  BY DEF Good, Sound, AttemptOK, Whole
<1>2. S \subseteq DOMAIN m.attempts
  OBVIOUS
<1>3. TickCommitted(id, m) = IF S = {} THEN m ELSE CommitAll(rxs, busy, id, m, S)
  BY DEF TickCommitted
<1> HIDE DEF S
<1>4. Good(rxs, id, m) /\ Quiet(m, m)
  BY SlotsAsTheyAre, Undisturbed
<1>5. /\ Good(rxs, id, CommitAll(rxs, busy, id, m, S))
      /\ Moves(m, CommitAll(rxs, busy, id, m, S))
  BY <1>1, <1>2, CommitAllMoves
<1> QED BY <1>3, <1>4, <1>5 DEF Quiet, Moves

\* A verifier is cleared only where a check of an ended message found nothing.
Verified(at) == [at EXCEPT !.verifier = @ /\ ~(at.checking = "Verify" /\ at.stage = "Fenced")]

LEMMA VerifiedFits ==
  ASSUME NEW R, NEW s, NEW a, NEW latch, NEW at, AttemptOK(R, s, a, at)
  PROVE  LET ct == Reclaimed(s, Verified(at))
         IN Fits(R, s, a, latch, at, ct) /\ ct.stage = at.stage
<1>1. at \in AttemptType
  BY DEF AttemptOK
<1>2. CASE at.checking = "Verify" /\ at.stage = "Fenced"
  <2> DEFINE bt == Verified(at)
             ct == Bare(bt)
  <2>1. bt \in AttemptType /\ ct \in AttemptType
    BY <1>1, <1>2 DEF Verified, Bare, AttemptType
  <2>2. /\ ~bt.verifier /\ bt.stage = at.stage /\ bt.resume_pending = at.resume_pending
        /\ bt.withheld = at.withheld /\ bt.reclaimed = at.reclaimed
    BY <1>1, <1>2 DEF Verified, AttemptType
  <2>3. is_terminal(s) /\ ~at.resume_pending /\ ~at.withheld /\ at.receipt # "Covered"
    BY <1>2 DEF AttemptOK, Whole
  <2>4. Reclaimed(s, bt) = ct
    BY <1>2, <2>2, <2>3 DEF Reclaimed
  <2>5. /\ ct.stage = at.stage /\ ct.a = at.a /\ ct.kind = at.kind
        /\ ct.slot = at.slot /\ ct.rx = at.rx /\ ct.reclaimed
        /\ ct.withheld = at.withheld /\ ct.checking = "No" /\ ~ct.cleared
        /\ ct.resume_pending = at.resume_pending
    BY <1>1, <1>2 DEF AttemptType, Bare, Verified
  <2> HIDE DEF ct, bt
  <2>6. AttemptOK(R, s, a, ct)
    BY <2>1, <2>3, <2>5 DEF AttemptOK, Whole
  <2>7. Stays(latch, s, at, ct)
    BY <2>3, <2>5 DEF Stays
  <2> QED BY <2>4, <2>5, <2>6, <2>7 DEF Fits, bt
<1>3. CASE ~(at.checking = "Verify" /\ at.stage = "Fenced")
  <2>1. Verified(at) = at
    BY <1>1, <1>3 DEF Verified, AttemptType
  <2> QED BY <2>1, ReclaimFits
<1> QED BY <1>2, <1>3

LEMMA TickVerifiedKeeps ==
  ASSUME NEW R, NEW id, NEW m, Good(R, id, m)
  PROVE  Good(R, id, tick_verified(m)) /\ Quiet(m, tick_verified(m))
<1> DEFINE p == [e \in DOMAIN m.attempts |-> Verified(m.attempts[e])]
           o == Remap(m, p)
           f == [e \in DOMAIN m.attempts |-> Reclaimed(m.state, Verified(m.attempts[e]))]
<1>1. m \in MsgType
  BY DEF Good, Sound
<1>2. tick_verified(m) \in {m, reclaim(o)}
  BY DEF tick_verified, MapAttempts, Verified, Remap
<1>3. o.state = m.state /\ o.attempts = p
  BY <1>1 DEF MsgType, Remap
<1>4. reclaim(o) = Remap(m, f)
  <2>1. reclaim(o) = Remap(o, [e \in DOMAIN o.attempts |-> Reclaimed(o.state, o.attempts[e])])
    BY ReclaimIs
  <2>2. [e \in DOMAIN o.attempts |-> Reclaimed(o.state, o.attempts[e])] = f
    BY <1>3
  <2>3. Remap(o, f) = Remap(m, f)
    BY <1>1 DEF Remap, MsgType
  <2> HIDE DEF o, f
  <2> QED BY <2>1, <2>2, <2>3
<1>5. /\ f = [e \in DOMAIN m.attempts |-> f[e]]
      /\ \A e \in DOMAIN m.attempts : f[e] = Reclaimed(m.state, Verified(m.attempts[e]))
  OBVIOUS
<1> HIDE DEF f, o, p
<1>6. Good(R, id, Remap(m, f)) /\ Quiet(m, Remap(m, f))
  BY <1>5, SlotsAsTheyAre, EachFits, VerifiedFits
<1>7. Quiet(m, m)
  BY SlotsAsTheyAre, Undisturbed
<1> QED BY <1>2, <1>4, <1>6, <1>7

LEMMA TickTurnKeeps ==
  ASSUME NEW id, NEW m, Good(rxs, id, m)
  PROVE  Good(rxs, id, TickTurn(id, m)) /\ Quiet(m, TickTurn(id, m))
BY SlotsAsTheyAre, Undisturbed, FinalizeQuiet DEF TickTurn

\* A clearance is of a check that was under way, and ends it.
ClearedBy(at, absent) ==
  [at EXCEPT !.cleared = @ \/ (at.checking = "Lapse" /\ absent), !.checking = "No", !.found = FALSE]

LEMMA ClearedFits ==
  ASSUME NEW R, NEW s, NEW a, NEW latch, NEW at, AttemptOK(R, s, a, at), NEW absent
  PROVE  LET ct == ClearedBy(at, absent)
         IN Fits(R, s, a, latch, at, ct) /\ ct.stage = at.stage
<1> DEFINE ct == ClearedBy(at, absent)
<1>1. at \in AttemptType
  BY DEF AttemptOK
<1>2. ct \in AttemptType
  BY <1>1 DEF AttemptType, ClearedBy
<1>3. /\ ct.a = at.a /\ ct.rx = at.rx /\ ct.slot = at.slot /\ ct.stage = at.stage
      /\ ct.kind = at.kind /\ ct.checking = "No" /\ ~ct.found
      /\ ct.cleared => at.cleared \/ at.checking = "Lapse"
      /\ ct.receipt = at.receipt /\ ct.verifier = at.verifier
      /\ ct.resume_pending = at.resume_pending /\ ct.reclaimed = at.reclaimed
      /\ ct.withheld = at.withheld
  BY <1>1 DEF AttemptType, ClearedBy
<1> HIDE DEF ct
<1>4. AttemptOK(R, s, a, ct)
  BY <1>2, <1>3 DEF AttemptOK, Whole
<1>5. Stays(latch, s, at, ct)
  BY <1>3 DEF Stays
<1> QED BY <1>3, <1>4, <1>5 DEF Fits, ct

LEMMA TickClearedKeeps ==
  ASSUME NEW id, NEW m, Good(rxs, id, m)
  PROVE  Good(rxs, id, TickCleared(id, m)) /\ Quiet(m, TickCleared(id, m))
<1> DEFINE absent(e) == LET at == m.attempts[e]
                        IN at.a = m.a /\ needs_clearance(at) /\ ~possessed(rxs, busy, id, e, at)
           f == [e \in DOMAIN m.attempts |-> ClearedBy(m.attempts[e], absent(e))]
<1>1. TickCleared(id, m) = Remap(m, f)
  BY DEF TickCleared, MapAttempts, ClearedBy, Remap
<1> HIDE DEF absent
<1>2. /\ f = [e \in DOMAIN m.attempts |-> f[e]]
      /\ \A e \in DOMAIN m.attempts : f[e] = ClearedBy(m.attempts[e], absent(e))
  OBVIOUS
<1> HIDE DEF f
<1> QED BY <1>1, <1>2, SlotsAsTheyAre, EachFits, ClearedFits

LEMMA TickReceivers ==
  ASSUME rxs \in Seq(RxType), NEW late
  PROVE  LET R == TickRxs(late)
         IN /\ R \in Seq(RxType) /\ SameSlots(rxs, R)
            /\ \A r \in DOMAIN rxs : rxs[r].state = "Live" /\ R[r].state = "Gone" => rxs[r].slot = "Hook"
<1> DEFINE R == TickRxs(late)
<1>1. ASSUME NEW r \in DOMAIN rxs
      PROVE  /\ R[r] \in RxType /\ R[r].slot = rxs[r].slot
             /\ rxs[r].state = "Live" /\ R[r].state = "Gone" => rxs[r].slot = "Hook"
  <2>1. rxs[r] \in RxType
    OBVIOUS
  <2>2. /\ Gone(rxs[r]) \in RxType /\ Gone(rxs[r]).slot = rxs[r].slot
        /\ Retired(rxs[r]) \in RxType /\ Retired(rxs[r]).slot = rxs[r].slot
        /\ Retired(rxs[r]).state = "Retired"
    BY <2>1 DEF RxType, Gone, Retired
  <2> QED BY <2>1, <2>2 DEF TickRxs
<1>2. R = [r \in DOMAIN rxs |-> R[r]]
  BY DEF TickRxs
<1> HIDE DEF R
<1>3. R \in [DOMAIN rxs -> RxType]
  BY <1>1, <1>2
<1>4. R \in Seq(RxType) /\ SameSlots(rxs, R)
  BY <1>1, <1>3, ManyReceivers
<1> QED BY <1>1, <1>4 DEF R

\* Only a hook's hold expires.
LEMMA TickExpiredKeeps ==
  ASSUME NEW R, SameSlots(rxs, R), NEW id, NEW m, Good(rxs, id, m),
         \A r \in DOMAIN rxs : rxs[r].state = "Live" /\ R[r].state = "Gone" => rxs[r].slot = "Hook"
  PROVE  Good(R, id, TickExpired(R, id, m)) /\ Quiet(m, TickExpired(R, id, m))
<1> DEFINE expired(at) == rxs[at.rx].state = "Live" /\ R[at.rx].state = "Gone"
           F(at) == IF expired(at) THEN ShotClosed(at) ELSE at
           f == [e \in DOMAIN m.attempts |-> F(m.attempts[e])]
<1>1. TickExpired(R, id, m) \in {m, finalize(R, busy, id, Remap(m, f))}
  BY DEF TickExpired, MapAttempts, Remap
<1>2. /\ f = [e \in DOMAIN m.attempts |-> f[e]]
      /\ \A e \in DOMAIN m.attempts : f[e] = F(m.attempts[e])
  OBVIOUS
<1> HIDE DEF f
<1>3. ASSUME NEW e \in DOMAIN m.attempts, AttemptOK(rxs, m.state, m.a, m.attempts[e]),
             AttemptOK(R, m.state, m.a, m.attempts[e])
      PROVE  /\ Fits(R, m.state, m.a, m.latch, m.attempts[e], f[e])
             /\ f[e].stage = "Committed" => m.attempts[e].stage = "Committed"
  <2> DEFINE at == m.attempts[e]
  <2>1. f[e] = F(at)
    BY <1>2
  <2> HIDE DEF at
  <2>2. CASE expired(at)
    <3>1. one_shot(at.slot)
      BY <1>3, <2>2 DEF AttemptOK, one_shot, at
    <3>2. Fits(R, m.state, m.a, m.latch, at, ShotClosed(at))
          /\ (ShotClosed(at).stage = "Committed" => at.stage = "Committed")
      BY <1>3, <3>1, ShotClosedFits DEF at
    <3> QED BY <2>1, <2>2, <3>2 DEF at
  <2>3. CASE ~expired(at)
    BY <1>3, <2>1, <2>3, LeftAlone DEF at
  <2> QED BY <2>2, <2>3
<1>4. /\ Good(R, id, finalize(R, busy, id, Remap(m, f)))
      /\ Quiet(m, finalize(R, busy, id, Remap(m, f)))
  BY <1>2, <1>3, EachFits
<1>5. Good(R, id, m) /\ Quiet(m, m)
  BY Undisturbed
<1> QED BY <1>1, <1>4, <1>5

\* Whom an attempt was handed back to says nothing else of it.
LEMMA ReplayedFits ==
  ASSUME NEW R, NEW s, NEW a, NEW latch, NEW at, AttemptOK(R, s, a, at), NEW rx \in Nat,
         NEW ct, ct = [at EXCEPT !.correcting = rx]
  PROVE  Fits(R, s, a, latch, at, ct) /\ ct.stage = at.stage
BY DEF Fits, AttemptOK, AttemptType, Whole, Stays

LEMMA TickRetiredKeeps ==
  ASSUME NEW R, NEW id, NEW m, Good(R, id, m), NEW late
  PROVE  Good(R, id, TickRetired(late, m)) /\ Quiet(m, TickRetired(late, m))
<1> DEFINE rx(at) == IF at.correcting \in late THEN 0 ELSE at.correcting
           F(at) == IF at.rx \in late /\ ~is_final(at.stage) /\ ~at.resume_pending
                    THEN fence(at) ELSE [at EXCEPT !.correcting = rx(at)]
           f == [e \in DOMAIN m.attempts |-> F(m.attempts[e])]
<1>1. TickRetired(late, m) = Remap(m, f)
  BY DEF TickRetired, MapAttempts, Remap
<1>2. /\ f = [e \in DOMAIN m.attempts |-> f[e]]
      /\ \A e \in DOMAIN m.attempts : f[e] = F(m.attempts[e])
  <2> HIDE DEF F
  <2> QED OBVIOUS
<1> HIDE DEF f
<1>3. ASSUME NEW e \in DOMAIN m.attempts, AttemptOK(R, m.state, m.a, m.attempts[e])
      PROVE  /\ Fits(R, m.state, m.a, m.latch, m.attempts[e], f[e])
             /\ f[e].stage = "Committed" => m.attempts[e].stage = "Committed"
  <2> DEFINE at == m.attempts[e]
             ct == [at EXCEPT !.correcting = rx(at)]
  <2>1. f[e] = F(at)
    BY <1>2
  <2> HIDE DEF at
  <2>2. AttemptOK(R, m.state, m.a, at)
    BY <1>3 DEF at
  <2>3. Fits(R, m.state, m.a, m.latch, at, ct) /\ ct.stage = at.stage
    <3>1. rx(at) \in Nat
      BY <2>2 DEF AttemptOK, AttemptType
    <3> HIDE DEF rx
    <3>2. ct = [at EXCEPT !.correcting = rx(at)]
      OBVIOUS
    <3> HIDE DEF ct
    <3> QED BY <2>2, <3>1, <3>2, ReplayedFits
  <2>4. F(at) = ct \/ (F(at) = fence(at) /\ ~is_final(at.stage) /\ ~at.resume_pending)
    OBVIOUS
  <2> HIDE DEF F, ct
  <2>5. F(at) = fence(at) /\ ~is_final(at.stage) /\ ~at.resume_pending
          => Fits(R, m.state, m.a, m.latch, at, F(at)) /\ F(at).stage = "Fenced"
    BY <2>2, FenceFits
  <2> QED BY <2>1, <2>3, <2>4, <2>5 DEF at
<1> QED BY <1>1, <1>2, <1>3, SlotsAsTheyAre, EachFits

LEMMA TickStagingKeeps ==
  ASSUME NEW R, NEW id, NEW m, Good(R, id, m), NEW e
  PROVE  Good(R, id, TickStaging(R, id, m, e)) /\ Quiet(m, TickStaging(R, id, m, e))
<1>1. CASE TickStaging(R, id, m, e) = m
  BY <1>1, SlotsAsTheyAre, Undisturbed
<1>2. CASE e \in DOMAIN m.attempts /\ m.attempts[e].withheld
  <2> DEFINE bt == DeckWitness(Released(m.attempts[e]))
             f == [d \in DOMAIN m.attempts |-> IF d = e THEN bt ELSE m.attempts[d]]
  <2>1. m \in MsgType
    BY DEF Good, Sound
  <2>2. m.attempts \in Seq(AttemptType)
    BY <2>1 DEF MsgType
  <2>3. [m EXCEPT !.attempts[e] = DeckWitness(Released(@))] = Remap(m, f)
    <3>1. [m.attempts EXCEPT ![e] = bt] = f
      BY <2>2
    <3>2. [m EXCEPT !.attempts[e] = DeckWitness(Released(@))]
            = Remap(m, [m.attempts EXCEPT ![e] = bt])
      BY <2>1, <1>2 DEF Remap, MsgType
    <3> QED BY <3>1, <3>2
  <2>4. /\ f = [d \in DOMAIN m.attempts |-> f[d]]
        /\ \A d \in DOMAIN m.attempts : f[d] = IF d = e THEN bt ELSE m.attempts[d]
    OBVIOUS
  <2>5. /\ Fits(R, m.state, m.a, m.latch, m.attempts[e], bt) /\ bt.stage = "NotHanded"
    BY <1>2, WitnessFits DEF Good, Sound
  <2> HIDE DEF f, bt
  <2>6. /\ Good(R, id, finalize(R, busy, id, Remap(m, f)))
        /\ Quiet(m, finalize(R, busy, id, Remap(m, f)))
    BY <2>4, <2>5, SlotsAsTheyAre, EachFits, LeftAlone
  <2>7. TickStaging(R, id, m, e) \in {m, finalize(R, busy, id, Remap(m, f))}
    BY <2>3 DEF TickStaging
  <2> QED BY <1>1, <2>6, <2>7
<1> QED BY <1>1, <1>2 DEF TickStaging

LEMMA SilentFits ==
  ASSUME NEW R, NEW s, NEW a, NEW latch, NEW at, AttemptOK(R, s, a, at), at.resume_pending
  PROVE  LET ct == fence([at EXCEPT !.resume_pending = FALSE])
         IN Fits(R, s, a, latch, at, ct) /\ ct.stage = "Fenced"
<1> DEFINE bt == [at EXCEPT !.resume_pending = FALSE]
<1>1. Fits(R, s, a, latch, at, bt) /\ bt.stage = at.stage /\ ~bt.resume_pending
  BY BackFits
<1>2. ~is_final(at.stage)
  BY DEF AttemptOK, Whole
<1> HIDE DEF bt
<1>3. Fits(R, s, a, latch, bt, fence(bt)) /\ fence(bt).stage = "Fenced"
  BY <1>1, <1>2, FenceFits DEF Fits
<1>4. Fits(R, s, a, latch, at, fence(bt))
  BY <1>1, <1>3, FitsTrans
<1> QED BY <1>3, <1>4 DEF bt

LEMMA TickSilentKeeps ==
  ASSUME NEW R, NEW id, NEW m, Good(R, id, m), NEW silent
  PROVE  Good(R, id, TickSilent(silent, id, m)) /\ Quiet(m, TickSilent(silent, id, m))
<1> DEFINE F(e, at) == IF <<id, e>> \in silent /\ at.resume_pending
                       THEN fence([at EXCEPT !.resume_pending = FALSE]) ELSE at
           f == [e \in DOMAIN m.attempts |-> F(e, m.attempts[e])]
<1>1. TickSilent(silent, id, m) = Remap(m, f)
  BY DEF TickSilent, MapAttempts, Remap
<1>2. /\ f = [e \in DOMAIN m.attempts |-> f[e]]
      /\ \A e \in DOMAIN m.attempts : f[e] = F(e, m.attempts[e])
  <2> HIDE DEF F
  <2> QED OBVIOUS
<1> HIDE DEF f
<1>3. ASSUME NEW e \in DOMAIN m.attempts, AttemptOK(R, m.state, m.a, m.attempts[e])
      PROVE  /\ Fits(R, m.state, m.a, m.latch, m.attempts[e], f[e])
             /\ f[e].stage = "Committed" => m.attempts[e].stage = "Committed"
  <2> DEFINE at == m.attempts[e]
  <2>1. f[e] = F(e, at) /\ AttemptOK(R, m.state, m.a, at)
    BY <1>2, <1>3
  <2> HIDE DEF at
  <2>2. CASE <<id, e>> \in silent /\ at.resume_pending
    <3>1. f[e] = fence([at EXCEPT !.resume_pending = FALSE])
      BY <2>1, <2>2
    <3> HIDE DEF F
    <3> QED BY <2>1, <2>2, <3>1, SilentFits DEF at
  <2>3. CASE ~(<<id, e>> \in silent /\ at.resume_pending)
    BY <2>1, <2>3, LeftAlone DEF at
  <2> QED BY <2>2, <2>3
<1> QED BY <1>1, <1>2, <1>3, SlotsAsTheyAre, EachFits

\* One more quiet part.
LEMMA Onward ==
  ASSUME NEW R, NEW Q, NEW id, NEW m \in MsgType, NEW n, Good(R, id, n), Moves(m, n),
         NEW o, Good(Q, id, o), Quiet(n, o)
  PROVE  Moves(m, o)
BY MovesTrans DEF Good, Sound

LEMMA TickStep ==
  ASSUME Running, Tick
  PROVE  Ordinary /\ rxs' \in Seq(RxType)
<1>1. rxs \in Seq(RxType) /\ DOMAIN msgs = Ids
  BY DEF Running, IInv, Shapes
<1>2. PICK late, staged, silent : tick(late, staged, silent)
  BY DEF Tick
<1> DEFINE R == TickRxs(late)
           m1(id) == TickCommitted(id, msgs[id])
           m2(id) == tick_verified(m1(id))
           m3(id) == TickTurn(id, m2(id))
           m4(id) == TickCleared(id, m3(id))
           m5(id) == TickExpired(R, id, m4(id))
           m6(id) == TickRetired(late, m5(id))
           m7(id) == TickStaging(R, id, m6(id), staged[id])
           m8(id) == TickSilent(silent, id, m7(id))
           m9(id) == finalize(R, busy, id, m8(id))
<1>3. /\ rxs' = R /\ UNCHANGED <<forgotten, exited, used>>
      /\ \A id \in Known : msgs'[id] = m9(id)
      /\ \A id \in Ids \ Known : msgs'[id] = msgs[id]
  BY <1>2 DEF tick, Known
<1>4. /\ R \in Seq(RxType) /\ SameSlots(rxs, R)
      /\ \A r \in DOMAIN rxs : rxs[r].state = "Live" /\ R[r].state = "Gone" => rxs[r].slot = "Hook"
  BY <1>1, TickReceivers
<1> HIDE DEF R
<1>5. ASSUME NEW id \in Known
      PROVE  Good(R, id, m9(id)) /\ Moves(msgs[id], m9(id))
  <2>0. Good(rxs, id, msgs[id]) /\ msgs[id] \in MsgType
    BY RunningGood DEF Good, Sound
  <2>1. Good(rxs, id, m1(id)) /\ Moves(msgs[id], m1(id))
    BY <2>0, TickCommittedMoves
  <2> HIDE DEF m1
  <2>2. Good(rxs, id, m2(id)) /\ Quiet(m1(id), m2(id))
    BY <2>1, TickVerifiedKeeps
  <2> HIDE DEF m2
  <2>3. Good(rxs, id, m3(id)) /\ Quiet(m2(id), m3(id))
    BY <2>2, TickTurnKeeps
  <2> HIDE DEF m3
  <2>4. Good(rxs, id, m4(id)) /\ Quiet(m3(id), m4(id))
    BY <2>3, TickClearedKeeps
  <2> HIDE DEF m4
  <2>5. Good(R, id, m5(id)) /\ Quiet(m4(id), m5(id))
    BY <1>4, <2>4, TickExpiredKeeps
  <2> HIDE DEF m5
  <2>6. Good(R, id, m6(id)) /\ Quiet(m5(id), m6(id))
    BY <2>5, TickRetiredKeeps
  <2> HIDE DEF m6
  <2>7. Good(R, id, m7(id)) /\ Quiet(m6(id), m7(id))
    BY <2>6, TickStagingKeeps
  <2> HIDE DEF m7
  <2>8. Good(R, id, m8(id)) /\ Quiet(m7(id), m8(id))
    BY <2>7, TickSilentKeeps
  <2> HIDE DEF m8
  <2>9. Good(R, id, m9(id)) /\ Quiet(m8(id), m9(id))
    BY <2>8, FinalizeQuiet
  <2> HIDE DEF m9
  <2>12. Moves(msgs[id], m2(id))
    BY <2>0, <2>1, <2>2, Onward
  <2>13. Moves(msgs[id], m3(id))
    BY <2>0, <2>2, <2>3, <2>12, Onward
  <2>14. Moves(msgs[id], m4(id))
    BY <2>0, <2>3, <2>4, <2>13, Onward
  <2>15. Moves(msgs[id], m5(id))
    BY <2>0, <2>4, <2>5, <2>14, Onward
  <2>16. Moves(msgs[id], m6(id))
    BY <2>0, <2>5, <2>6, <2>15, Onward
  <2>17. Moves(msgs[id], m7(id))
    BY <2>0, <2>6, <2>7, <2>16, Onward
  <2>18. Moves(msgs[id], m8(id))
    BY <2>0, <2>7, <2>8, <2>17, Onward
  <2>19. Moves(msgs[id], m9(id))
    BY <2>0, <2>8, <2>9, <2>18, Onward
  <2> QED BY <2>9, <2>19
<1> HIDE DEF m9
<1>6. \A id \in Ids \ Known : msgs'[id] = NoMsg
  BY <1>3 DEF Known
<1>7. ~exited
  BY DEF Running
<1>8. Known \subseteq Ids
  BY DEF Known
<1>9. Ordinary
  BY <1>3, <1>5, <1>6, <1>7, <1>8 DEF Ordinary
<1> QED BY <1>3, <1>4, <1>9

-----------------------------------------------------------------------------
(* Hand-outs.                                                               *)

LEMMA AutosOf ==
  ASSUME NEW s \in Seq(AttemptType)
  PROVE  IsFiniteSet(Autos(s)) /\ Autos(s) \subseteq 1..Len(s)
<1>1. Autos(s) \subseteq 1..Len(s)
  BY DEF Autos
<1>2. IsFiniteSet(1..Len(s))
  BY FS_Interval
<1> QED BY <1>1, <1>2, FS_Subset

LEMMA AutosOfMore ==
  ASSUME NEW s \in Seq(AttemptType), NEW q \in AttemptType
  PROVE  Cardinality(Autos(Append(s, q)))
           = IF IsAuto(q) THEN Cardinality(Autos(s)) + 1 ELSE Cardinality(Autos(s))
<1>1. /\ DOMAIN Append(s, q) = DOMAIN s \cup {Len(s) + 1}
      /\ \A e \in DOMAIN s : Append(s, q)[e] = s[e]
      /\ Append(s, q)[Len(s) + 1] = q
  OBVIOUS
<1>2. IsFiniteSet(Autos(s)) /\ Len(s) + 1 \notin Autos(s)
  BY AutosOf
<1>3. CASE IsAuto(q)
  <2>1. Autos(Append(s, q)) = Autos(s) \cup {Len(s) + 1}
    BY <1>1, <1>3 DEF Autos
  <2> QED BY <1>2, <1>3, <2>1, FS_AddElement
<1>4. CASE ~IsAuto(q)
  <2>1. Autos(Append(s, q)) = Autos(s)
    BY <1>1, <1>4 DEF Autos
  <2> QED BY <1>4, <2>1
<1> QED BY <1>3, <1>4

\* A record that was just made.
LEMMA NewDeliveryGood ==
  ASSUME NEW R, NEW id \in Ids, forgotten \in Nat
  PROVE  Good(R, id, NewDelivery(id))
<1> DEFINE m == NewDelivery(id)
<1>1. m \in MsgType
  BY DEF NewDelivery, MsgType, NoToken, TokenType, States
<1>2. /\ m.offer = (id \in Offers) /\ m.state = "Queued" /\ m.attempts = <<>> /\ ~m.latch
      /\ m.auto_repeats = 0 /\ m.requeues = 0 /\ m.token.kind = "None" /\ m.waiting = "No"
  BY DEF NewDelivery, NoToken
<1> HIDE DEF m
<1>3. Current(m) = {} /\ Autos(m.attempts) = {} /\ DOMAIN m.attempts = {} /\ Len(m.attempts) = 0
  BY <1>2 DEF Current, Autos
<1>4. Counted(m)
  <2>1. MaxAutoRepeats \in Nat /\ MaxDeliver \in Nat \ {0} /\ MaxAttempts \in Nat
    BY AttemptConstants
  <2>2. Cardinality({}) = 0
    BY FS_EmptySet
  <2>3. m.auto_repeats <= MaxAutoRepeats /\ m.requeues < MaxDeliver /\ m.requeues <= MaxDeliver
    BY <1>2, <2>1
  <2>4. m.token.kind # "Auto" /\ Len(m.attempts) <= MaxAttempts
    BY <1>2, <1>3, <2>1
  <2>5. Cardinality(Autos(m.attempts)) = m.auto_repeats
    BY <1>2, <1>3, <2>2
  <2> QED BY <2>3, <2>4, <2>5 DEF Counted
<1>5. Scheduled(m)
  BY <1>2 DEF Scheduled
<1>6. Sound(R, id, m)
  BY <1>1, <1>2, <1>3, <1>4, <1>5 DEF Sound
<1>7. Decided(m) /\ Latched(m)
  BY <1>2, <1>3 DEF Decided, HasCommit, Latched
<1> QED BY <1>6, <1>7 DEF Good, m

OneMore(p, q) ==
  [p EXCEPT !.attempts = Append(@, q), !.auto_repeats = IF IsAuto(q) THEN @ + 1 ELSE @,
            !.token = NoToken]

\* One attempt more, of the current assignment: it takes the scheduled repeat.
LEMMA OneMoreAttempt ==
  ASSUME NEW R, NEW id, NEW p, Good(R, id, p), ~is_terminal(p.state),
         NEW q, AttemptOK(R, p.state, p.a, q), q.a = p.a, q.stage = "Issued",
         IsAuto(q) <=> p.token.kind = "Auto", Len(p.attempts) < MaxAttempts
  PROVE  LET n == OneMore(p, q)
         IN /\ Sound(R, id, n) /\ n.attempts = Append(p.attempts, q)
            /\ n.a = p.a /\ n.state = p.state /\ n.latch = p.latch /\ n.corrected = p.corrected
            /\ ~HasCommit(n)
            /\ Len(p.attempts) + 1 \in Current(n) /\ n.attempts[Len(p.attempts) + 1] = q
<1> DEFINE n == OneMore(p, q)
<1>1. p \in MsgType /\ p.attempts \in Seq(AttemptType) /\ q \in AttemptType
      /\ Len(p.attempts) \in Nat
  BY DEF Good, Sound, MsgType, AttemptOK
<1>2. n \in MsgType
  <2> DEFINE s == Append(p.attempts, q)
             k == IF IsAuto(q) THEN p.auto_repeats + 1 ELSE p.auto_repeats
  <2>1. s \in Seq(AttemptType)
    BY <1>1
  <2>2. k \in Nat
    BY <1>1 DEF MsgType
  <2>3. NoToken \in TokenType
    BY DEF NoToken, TokenType
  <2>4. n = [p EXCEPT !.attempts = s, !.auto_repeats = k, !.token = NoToken]
    BY DEF OneMore
  <2> HIDE DEF s, k
  <2> QED BY <1>1, <2>1, <2>2, <2>3, <2>4 DEF MsgType
<1>3. /\ n.attempts = Append(p.attempts, q) /\ n.offer = p.offer
      /\ n.a = p.a /\ n.state = p.state /\ n.latch = p.latch /\ n.corrected = p.corrected
      /\ n.requeues = p.requeues /\ n.waiting = p.waiting /\ n.token.kind = "None"
      /\ n.auto_repeats = IF IsAuto(q) THEN p.auto_repeats + 1 ELSE p.auto_repeats
  BY <1>1 DEF MsgType, NoToken, OneMore
<1> HIDE DEF n
<1> DEFINE L == Len(p.attempts) + 1
<1>4. /\ DOMAIN n.attempts = DOMAIN p.attempts \cup {L}
      /\ \A e \in DOMAIN p.attempts : n.attempts[e] = p.attempts[e]
      /\ n.attempts[L] = q /\ Len(n.attempts) = L
  BY <1>1, <1>3
<1>5. \A e \in DOMAIN n.attempts : AttemptOK(R, n.state, n.a, n.attempts[e])
  BY <1>3, <1>4 DEF Good, Sound
<1>6. Counted(n)
  <2>1. Cardinality(Autos(n.attempts))
          = IF IsAuto(q) THEN Cardinality(Autos(p.attempts)) + 1 ELSE Cardinality(Autos(p.attempts))
    BY <1>1, <1>3, AutosOfMore
  <2>2. Counted(p) /\ p.auto_repeats \in Nat
    BY <1>1 DEF Good, Sound, MsgType
  <2>3. MaxAutoRepeats \in Nat /\ MaxAttempts \in Nat
    BY AttemptConstants
  <2> QED BY <2>1, <2>2, <2>3, <1>1, <1>3, <1>4 DEF Counted
<1>7. Scheduled(n)
  BY <1>3 DEF Scheduled, Good, Sound
<1>8. Sound(R, id, n)
  BY <1>2, <1>3, <1>5, <1>6, <1>7 DEF Good, Sound
<1>9. Current(n) = Current(p) \cup {L}
  BY <1>3, <1>4 DEF Current
<1>10. ~HasCommit(n)
  <2>1. ~HasCommit(p)
    BY OpenUncommitted
  <2>2. \A e \in Current(p) : e \in DOMAIN p.attempts
    BY DEF Current
  <2> QED BY <2>1, <2>2, <1>4, <1>9 DEF HasCommit
<1> QED BY <1>3, <1>4, <1>8, <1>9, <1>10 DEF n

\* An attempt nobody has seen yet may be withheld, when no repeat is scheduled.
LEMMA SpendKeeps ==
  ASSUME NEW R, NEW id, NEW m, Good(R, id, m), NEW L, L = Len(m.attempts), L \in DOMAIN m.attempts,
         NEW slot, m.attempts[L].slot = slot, m.attempts[L].stage = "Issued",
         m.attempts[L].receipt = "None", ~m.attempts[L].found, m.attempts[L].checking = "No",
         ~m.attempts[L].reclaimed, slot = "OnceWaiter" => m.token.kind # "Auto"
  PROVE  LET n == Spend(m, slot)
         IN /\ Good(R, id, n) /\ DOMAIN n.attempts = DOMAIN m.attempts
            /\ \A e \in DOMAIN m.attempts : e # L => n.attempts[e] = m.attempts[e]
            /\ n.attempts[L].a = m.attempts[L].a /\ n.attempts[L].kind = m.attempts[L].kind
            /\ n.state = m.state /\ n.a = m.a /\ n.latch = m.latch /\ n.corrected = m.corrected
<1> DEFINE at == m.attempts[L]
           bt == [at EXCEPT !.withheld = slot = "OnceWaiter"]
           f == [e \in DOMAIN m.attempts |-> IF e = L THEN bt ELSE m.attempts[e]]
           n == Remap(m, f)
<1>1. m \in MsgType /\ m.attempts \in Seq(AttemptType) /\ AttemptOK(R, m.state, m.a, at)
  BY DEF Good, Sound, MsgType
<1>2. Spend(m, slot) = n
  <2>1. [m.attempts EXCEPT ![L].withheld = slot = "OnceWaiter"] = f
    BY <1>1
  <2> QED BY <2>1, <1>1 DEF Spend, Remap, MsgType
<1>3. at \in AttemptType
  BY <1>1 DEF AttemptOK
<1>4. bt \in AttemptType
  BY <1>3 DEF AttemptType
<1>5. /\ bt.a = at.a /\ bt.rx = at.rx /\ bt.slot = at.slot /\ bt.stage = at.stage
      /\ bt.kind = at.kind /\ bt.cleared = at.cleared /\ bt.checking = at.checking
      /\ bt.found = at.found /\ bt.receipt = at.receipt /\ bt.verifier = at.verifier
      /\ bt.resume_pending = at.resume_pending /\ bt.reclaimed = at.reclaimed
      /\ bt.withheld = (slot = "OnceWaiter")
  BY <1>3 DEF AttemptType
<1>6. /\ DOMAIN f = DOMAIN m.attempts /\ f[L] = bt
      /\ \A e \in DOMAIN m.attempts : e # L => f[e] = m.attempts[e]
  OBVIOUS
<1>7. f \in [DOMAIN m.attempts -> AttemptType]
  BY <1>1, <1>4
<1> HIDE DEF f, bt
<1>8. /\ n \in MsgType /\ n.attempts = f /\ Len(f) = Len(m.attempts)
      /\ n.offer = m.offer /\ n.a = m.a /\ n.state = m.state /\ n.latch = m.latch
      /\ n.auto_repeats = m.auto_repeats /\ n.requeues = m.requeues
      /\ n.token = m.token /\ n.waiting = m.waiting /\ n.corrected = m.corrected
  BY <1>1, <1>7, RemapFields
<1> HIDE DEF n
<1>9. AttemptOK(R, m.state, m.a, bt)
  BY <1>1, <1>4, <1>5 DEF AttemptOK, Whole
<1>10. \A e \in DOMAIN f : AttemptOK(R, n.state, n.a, f[e])
  BY <1>6, <1>8, <1>9 DEF Good, Sound
<1>11. \A e \in DOMAIN m.attempts : /\ f[e].a = m.attempts[e].a /\ f[e].kind = m.attempts[e].kind
                                    /\ f[e].stage = m.attempts[e].stage
                                    /\ f[e].withheld => m.attempts[e].withheld \/ slot = "OnceWaiter"
  BY <1>5, <1>6
<1>12. Current(n) = Current(m) /\ Autos(n.attempts) = Autos(m.attempts)
  BY <1>6, <1>8, <1>11 DEF Current, Autos, IsAuto
<1>13. Counted(n)
  BY <1>8, <1>12 DEF Good, Sound, Counted
<1>14. \A e \in Current(m) : e \in DOMAIN m.attempts
  BY DEF Current
<1>15. Scheduled(n)
  BY <1>8, <1>11, <1>12, <1>14 DEF Good, Sound, Scheduled
<1>16. Sound(R, id, n)
  BY <1>6, <1>8, <1>10, <1>13, <1>15 DEF Good, Sound
<1>17. Decided(n) /\ Latched(n)
  BY <1>8, <1>11, <1>12, <1>14 DEF Good, Decided, HasCommit, Latched
<1> QED BY <1>2, <1>5, <1>6, <1>8, <1>16, <1>17 DEF Good

LEMMA StaysTrans ==
  ASSUME NEW latch, NEW s, NEW t, NEW at, NEW bt, NEW ct, t = "Settled" => s = "Settled",
         Stays(latch, t, at, bt), Stays(latch, s, bt, ct)
  PROVE  Stays(latch, s, at, ct)
BY DEF Stays

\* What a hand-out of m makes of it: every attempt of m stays, one is new.
Delivered(R, id, m, n) ==
  LET L == Len(m.attempts) + 1
  IN /\ Good(R, id, n) /\ n.a >= m.a /\ DOMAIN n.attempts = DOMAIN m.attempts \cup {L}
     /\ \A e \in DOMAIN m.attempts : Stays(m.latch, n.state, m.attempts[e], n.attempts[e])
     /\ n.attempts[L].a = m.a /\ (IsAuto(n.attempts[L]) <=> m.token.kind = "Auto")
     /\ n.state \in {"Attempting", "Lapsed", "OutOfAttempts"} /\ n.corrected = m.corrected

LEMMA HandOutDelivers ==
  ASSUME rxs \in Seq(RxType), NEW id, NEW m, Good(rxs, id, m),
         m.state \in {"Queued", "Attempting"}, ~m.latch, Len(m.attempts) < MaxAttempts,
         NEW rx \in DOMAIN rxs, HandOut(id, m, rx)
  PROVE  \E n : Delivered(rxs, id, m, n) /\ msgs' = [msgs EXCEPT ![id] = n]
<1> DEFINE slot == rxs[rx].slot
           again(at) == IF at.a = m.a THEN recheck(at) ELSE at
           f == [e \in DOMAIN m.attempts |-> again(m.attempts[e])]
           p == Remap(m, f)
           q == NewAttempt(m.a, rx, slot, IssueKind(m))
           o == OneMore(p, q)
           r == finalize(rxs, busy, id, o)
           n == Spend(r, slot)
           L == Len(m.attempts) + 1
<1>1. m \in MsgType /\ m.attempts \in Seq(AttemptType) /\ m.a \in Nat \ {0} /\ Len(m.attempts) \in Nat
  BY DEF Good, Sound, MsgType
<1>2. msgs' = [msgs EXCEPT ![id] = n]
  <2>1. IsAuto(q) <=> IssueKind(m) = "AutoRepeat"
    BY DEF IsAuto, NewAttempt
  <2>2. Repeats(m, IssueKind(m)) = IF IsAuto(q) THEN p.auto_repeats + 1 ELSE p.auto_repeats
    BY <2>1, <1>1 DEF Repeats, Remap, MsgType
  <2>3. o = [p EXCEPT !.attempts = Append(@, q), !.auto_repeats = Repeats(m, IssueKind(m)),
                      !.token = NoToken]
    BY <2>2 DEF OneMore
  <2>4. MapAttempts(m, LAMBDA e, at : IF at.a = m.a THEN recheck(at) ELSE at) = p
    BY DEF MapAttempts, Remap
  <2> HIDE DEF o, p, q
  <2> QED BY <2>3, <2>4 DEF HandOut, q
<1>3. /\ f = [e \in DOMAIN m.attempts |-> f[e]]
      /\ \A e \in DOMAIN m.attempts : f[e] = again(m.attempts[e])
  OBVIOUS
<1>4. Good(rxs, id, p) /\ Quiet(m, p)
  <2> HIDE DEF f
  <2>1. ASSUME NEW e \in DOMAIN m.attempts, AttemptOK(rxs, m.state, m.a, m.attempts[e])
        PROVE  /\ Fits(rxs, m.state, m.a, m.latch, m.attempts[e], f[e])
               /\ f[e].stage = m.attempts[e].stage
    <3> DEFINE at == m.attempts[e]
    <3>1. AttemptOK(rxs, m.state, m.a, at) /\ f[e] \in {at, recheck(at)}
      BY <1>3, <2>1
    <3> HIDE DEF at
    <3> QED BY <3>1, RecheckFits, LeftAlone DEF at
  <2> QED BY <1>3, <2>1, SlotsAsTheyAre, EachFits
<1>5. /\ p.attempts = f /\ p.a = m.a /\ p.state = m.state /\ p.latch = m.latch
      /\ p.token = m.token /\ p.corrected = m.corrected /\ DOMAIN f = DOMAIN m.attempts
      /\ Len(f) = Len(m.attempts)
  BY <1>1 DEF Remap, MsgType
<1>6. AttemptOK(rxs, p.state, p.a, q) /\ q.a = p.a /\ q.stage = "Issued"
  <2>1. rxs[rx] \in RxType /\ rx \in Nat \ {0}
    OBVIOUS
  <2>2. slot \in Slots
    BY <2>1 DEF RxType
  <2>3. IssueKind(m) \in {"First", "Requeue", "AutoRepeat", "ManualRetry"}
    BY DEF IssueKind
  <2> HIDE DEF slot
  <2>4. q \in AttemptType
    BY <1>1, <2>1, <2>2, <2>3 DEF NewAttempt, AttemptType, Stages
  <2>5. /\ q.a = m.a /\ q.rx = rx /\ q.slot = slot /\ q.stage = "Issued" /\ ~q.cleared
        /\ q.checking = "No" /\ ~q.resume_pending /\ ~q.withheld
    BY DEF NewAttempt
  <2> HIDE DEF q
  <2> QED BY <1>1, <1>5, <2>4, <2>5 DEF AttemptOK, Whole, slot
<1>7. IsAuto(q) <=> p.token.kind = "Auto"
  BY <1>5 DEF IsAuto, NewAttempt, IssueKind
<1>8. /\ q.slot = slot /\ q.kind = IssueKind(m) /\ q.receipt = "None" /\ ~q.found /\ q.checking = "No"
      /\ ~q.reclaimed /\ ~q.withheld /\ ~q.resume_pending /\ (slot = "OnceWaiter" => q.grace)
      /\ ~q.verifier
  BY DEF NewAttempt
<1> HIDE DEF f, p, q, slot
<1>9. /\ Sound(rxs, id, o) /\ o.attempts = Append(p.attempts, q)
      /\ o.a = p.a /\ o.state = p.state /\ o.latch = p.latch /\ o.corrected = p.corrected
      /\ ~HasCommit(o) /\ L \in Current(o) /\ o.attempts[L] = q
  <2>1. Len(p.attempts) < MaxAttempts /\ ~is_terminal(p.state) /\ L = Len(p.attempts) + 1
    BY <1>5
  <2> HIDE DEF L
  <2> QED BY <1>4, <1>6, <1>7, <2>1, OneMoreAttempt
<1>10. /\ DOMAIN o.attempts = DOMAIN m.attempts \cup {L} /\ Len(o.attempts) = L
       /\ \A e \in DOMAIN m.attempts : o.attempts[e] = f[e]
  <2>1. p.attempts \in Seq(AttemptType) /\ q \in AttemptType
    BY <1>4, <1>6 DEF Good, Sound, MsgType, AttemptOK
  <2> QED BY <2>1, <1>5, <1>9
<1>11. slot = "OnceWaiter" => possessed(rxs, busy, id, L, q)
  BY <1>6, <1>8 DEF possessed, once_held
<1> HIDE DEF o, L
<1>12. /\ Good(rxs, id, r) /\ Leg(o, r)
       /\ r.state \in {"Attempting", "Lapsed", "OutOfAttempts"} /\ r.corrected = o.corrected
       /\ slot = "OnceWaiter" => r.token.kind # "Auto"
       /\ r.attempts = [e \in DOMAIN o.attempts |-> Reclaimed(r.state, o.attempts[e])]
  <2>1. ~is_terminal(o.state) /\ ~o.latch /\ o.attempts[L].stage = "Issued"
    BY <1>5, <1>6, <1>9
  <2>2. \E e \in Current(o) : o.attempts[e].stage = "Issued"
    BY <1>9, <2>1
  <2>3. slot = "OnceWaiter" => \E e \in Current(o) : possessed(rxs, busy, id, e, o.attempts[e])
    BY <1>9, <1>11
  <2>4. /\ Good(rxs, id, r) /\ Leg(o, r)
        /\ r.attempts = [e \in DOMAIN o.attempts |-> Reclaimed(r.state, o.attempts[e])]
    BY <1>9, FinalizeDecides
  <2>5. /\ ~HasCommit(o) /\ ~is_terminal(o.state) /\ ~o.latch
        /\ \E e \in Current(o) : o.attempts[e].stage = "Issued"
        => Outstanding(rxs, busy, id, o, r)
    BY <1>9, FinalizeDecides
  <2> HIDE DEF r
  <2> QED BY <1>9, <2>1, <2>2, <2>3, <2>4, <2>5 DEF Outstanding
<1> HIDE DEF r
<1>13. /\ DOMAIN r.attempts = DOMAIN o.attempts /\ Len(r.attempts) = L
       /\ r.attempts[L] = [q EXCEPT !.verifier = q.verifier /\ r.state # "Settled"]
  <2>1. DOMAIN r.attempts = DOMAIN o.attempts /\ r.attempts[L] = Reclaimed(r.state, q)
    BY <1>9, <1>10, <1>12
  <2>2. r.attempts \in Seq(AttemptType) /\ o.attempts \in Seq(AttemptType)
    BY <1>9, <1>12 DEF Good, Sound, MsgType
  <2>3. Len(r.attempts) = Len(o.attempts)
    BY <2>1, <2>2
  <2> QED BY <1>8, <1>10, <1>12, <2>1, <2>3 DEF Reclaimed
<1>14. /\ r.attempts[L].slot = slot /\ r.attempts[L].stage = "Issued"
       /\ r.attempts[L].receipt = "None" /\ ~r.attempts[L].found
       /\ r.attempts[L].checking = "No" /\ ~r.attempts[L].reclaimed
       /\ r.attempts[L].a = m.a /\ r.attempts[L].kind = q.kind
  <2>1. q \in AttemptType
    BY <1>6 DEF AttemptOK
  <2> QED BY <2>1, <1>5, <1>6, <1>8, <1>13 DEF AttemptType
<1>15. /\ Good(rxs, id, n) /\ DOMAIN n.attempts = DOMAIN r.attempts
       /\ \A e \in DOMAIN r.attempts : e # L => n.attempts[e] = r.attempts[e]
       /\ n.attempts[L].a = r.attempts[L].a /\ n.attempts[L].kind = r.attempts[L].kind
       /\ n.state = r.state /\ n.a = r.a /\ n.corrected = r.corrected
  <2>1. L = Len(r.attempts) /\ L \in DOMAIN r.attempts
    BY <1>10, <1>13
  <2>2. slot = "OnceWaiter" => r.token.kind # "Auto"
    BY <1>12
  <2>3. Good(rxs, id, r)
    BY <1>12
  <2>4. /\ r.attempts[L].slot = slot /\ r.attempts[L].stage = "Issued"
        /\ r.attempts[L].receipt = "None" /\ ~r.attempts[L].found
        /\ r.attempts[L].checking = "No" /\ ~r.attempts[L].reclaimed
    BY <1>14
  <2> QED BY <2>1, <2>2, <2>3, <2>4, SpendKeeps
<1> HIDE DEF n
<1>16. \A e \in DOMAIN m.attempts : Stays(m.latch, n.state, m.attempts[e], n.attempts[e])
  <2>1. SUFFICES ASSUME NEW e \in DOMAIN m.attempts
                 PROVE  Stays(m.latch, n.state, m.attempts[e], n.attempts[e])
    OBVIOUS
  <2>2. Stays(m.latch, p.state, m.attempts[e], f[e])
    BY <1>4, <1>5 DEF Quiet, Leg
  <2>3. Stays(m.latch, r.state, f[e], r.attempts[e])
    BY <1>5, <1>9, <1>10, <1>12 DEF Leg
  <2>4. n.attempts[e] = r.attempts[e]
    <3>1. e # L
      BY <1>1 DEF L
    <3> QED BY <3>1, <1>10, <1>13, <1>15
  <2> QED BY <2>2, <2>3, <2>4, <1>5, <1>15, StaysTrans
<1>17. n.a >= m.a
  BY <1>5, <1>9, <1>12, <1>15 DEF Leg
<1>18. IsAuto(n.attempts[L]) <=> m.token.kind = "Auto"
  BY <1>5, <1>7, <1>14, <1>15 DEF IsAuto
<1>19. Delivered(rxs, id, m, n)
  BY <1>5, <1>9, <1>10, <1>12, <1>13, <1>14, <1>15, <1>16, <1>17, <1>18 DEF Delivered, L
<1> QED BY <1>2, <1>19

\* The record a hand-out starts from.
Record(id) == IF id \in Known THEN msgs[id] ELSE NewDelivery(id)

\* A message is noted and there was no room to hand it out.
Noted(id) ==
  /\ id \notin Known /\ ~exited
  /\ msgs' = [msgs EXCEPT ![id] = NewDelivery(id)]
  /\ UNCHANGED <<rxs, forgotten, exited, used>>

HandedOut(id) ==
  LET m == Record(id)
  IN /\ SameSlots(rxs, rxs') /\ ~exited /\ UNCHANGED <<forgotten, exited>>
     /\ used' = used \cup {<<id, m.a, Len(m.attempts) + 1>>}
     /\ \E n : Delivered(rxs', id, m, n) /\ msgs' = [msgs EXCEPT ![id] = n]
     /\ m.state \in {"Queued", "Attempting"} /\ ~m.latch
     /\ m.token.kind = "Auto" => Revalidated(id, m)
     /\ EvidenceReserved + 1 <= EvidenceRoom

LEMMA RecordGood ==
  ASSUME Running, NEW id \in Ids
  PROVE  Good(rxs, id, Record(id))
<1>1. forgotten \in Nat
  BY AttemptConstants DEF Running, IInv, Shapes
<1> QED BY <1>1, RunningGood, NewDeliveryGood DEF Record

LEMMA IssueStep ==
  ASSUME Running, NEW id \in Ids, NEW rx \in DOMAIN rxs, issue(id, rx)
  PROVE  /\ rxs' \in Seq(RxType)
         /\ Ordinary \/ Noted(id) \/ HandedOut(id)
<1> DEFINE m == Record(id)
           scheduled == m.token.kind # "None"
<1>1. rxs \in Seq(RxType) /\ ~exited /\ DOMAIN msgs = Ids
  BY DEF Running, IInv, Shapes
<1>2. Good(rxs, id, m) /\ m \in MsgType
  BY RecordGood DEF Good, Sound
<1>3. /\ scheduled \/ m.state = "Queued"
      /\ ~m.latch /\ UNCHANGED <<forgotten, exited>>
  BY DEF issue, Record
<1>4. m.state \in {"Queued", "Attempting"}
  BY <1>2, <1>3 DEF Good, Sound, Scheduled
<1>5. id \notin Known => m = NewDelivery(id) /\ ~scheduled /\ Len(m.attempts) < MaxAttempts
  <2>1. MaxAttempts \in Nat \ {0}
    BY AttemptConstants
  <2> QED BY <2>1 DEF Record, NewDelivery, NoToken
<1>6. id \in Known => m = msgs[id]
  BY DEF Record
<1>7. CASE scheduled /\ ~Revalidated(id, m) /\ UNCHANGED <<rxs, used>>
           /\ msgs' = [msgs EXCEPT ![id] = finalize(rxs, busy, id, [m EXCEPT !.token = NoToken])]
  <2> DEFINE n == [m EXCEPT !.token = NoToken]
             o == finalize(rxs, busy, id, n)
  <2>1. id \in Known
    BY <1>5, <1>7
  <2> HIDE DEF m
  <2>2. /\ n \in MsgType /\ n.attempts = m.attempts /\ n.offer = m.offer /\ n.a = m.a
        /\ n.latch = m.latch /\ n.auto_repeats = m.auto_repeats /\ n.requeues = m.requeues
        /\ n.corrected = m.corrected /\ n.waiting = m.waiting /\ n.state = m.state
        /\ n.token.kind = "None"
    BY <1>2 DEF MsgType, NoToken, TokenType
  <2> HIDE DEF n
  <2>3. Good(rxs, id, o) /\ Quiet(m, o)
    BY <1>2, <1>4, <2>2, Reworded
  <2>4. msgs' = [msgs EXCEPT ![id] = o]
    BY <1>7 DEF n
  <2> HIDE DEF o
  <2> QED BY <1>1, <1>3, <1>6, <1>7, <2>1, <2>3, <2>4, OneMoves DEF Quiet, Moves
<1>8. CASE Len(m.attempts) >= MaxAttempts /\ UNCHANGED <<rxs, used>>
           /\ msgs' = [msgs EXCEPT ![id] = finalize(rxs, busy, id, m)]
  <2>1. id \in Known
    <3>1. MaxAttempts \in Nat /\ Len(m.attempts) \in Nat
      BY <1>2, AttemptConstants DEF MsgType
    <3> HIDE DEF m
    <3> QED BY <1>5, <1>8, <3>1
  <2> DEFINE o == finalize(rxs, busy, id, m)
  <2> HIDE DEF m
  <2>2. Good(rxs, id, o) /\ Quiet(m, o)
    BY <1>2, FinalizeQuiet
  <2> HIDE DEF o
  <2> QED BY <1>1, <1>3, <1>6, <1>8, <2>1, <2>2, OneMoves DEF Quiet, Moves, o
<1>9. CASE msgs' = [msgs EXCEPT ![id] = m] /\ UNCHANGED <<rxs, used>>
  <2>1. CASE id \in Known
    <3>1. msgs' = [msgs EXCEPT ![id] = msgs[id]]
      BY <1>6, <1>9, <2>1
    <3>2. Quiet(msgs[id], msgs[id])
      BY <1>2, <1>6, <2>1, SlotsAsTheyAre, Undisturbed
    <3> QED BY <1>1, <1>2, <1>3, <1>6, <1>9, <2>1, <3>1, <3>2, OneMoves DEF Quiet, Moves
  <2>2. CASE id \notin Known
    BY <1>1, <1>3, <1>5, <1>9, <2>2 DEF Noted
  <2> QED BY <2>1, <2>2, <1>1, <1>9
<1>10. CASE /\ scheduled => Revalidated(id, m)
            /\ Len(m.attempts) < MaxAttempts
            /\ EvidenceReserved + 1 <= EvidenceRoom
            /\ HandOut(id, m, rx)
  <2> HIDE DEF m
  <2>1. PICK n : Delivered(rxs, id, m, n) /\ msgs' = [msgs EXCEPT ![id] = n]
    BY <1>1, <1>2, <1>3, <1>4, <1>10, HandOutDelivers
  <2> DEFINE r == [rxs[rx] EXCEPT !.spent = @ \/ rxs[rx].slot = "OnceWaiter"]
  <2>2. r \in RxType /\ r.slot = rxs[rx].slot
    <3>1. rxs[rx] \in RxType
      BY <1>1
    <3> QED BY <3>1 DEF RxType
  <2>3. rxs' = [rxs EXCEPT ![rx] = r] /\ used' = used \cup {<<id, m.a, Len(m.attempts) + 1>>}
    BY <1>10 DEF HandOut
  <2> HIDE DEF r
  <2>4. rxs' \in Seq(RxType) /\ SameSlots(rxs, rxs')
    BY <1>1, <2>2, <2>3, OneReceiver
  <2>5. Delivered(rxs', id, m, n)
    BY <2>1, <2>4, Undisturbed DEF Delivered
  <2>6. m.token.kind = "Auto" => Revalidated(id, m)
    BY <1>10
  <2> QED BY <1>1, <1>3, <1>4, <1>10, <2>1, <2>3, <2>4, <2>5, <2>6 DEF HandedOut, m
<1> QED BY <1>1, <1>7, <1>8, <1>9, <1>10 DEF issue, Record

-----------------------------------------------------------------------------
(* Every step is of one of five kinds.                                      *)

LEMMA NothingAfterExit ==
  ASSUME exited
  PROVE  ~Next
<1>1. ASSUME NEW id \in Ids, NEW rx \in DOMAIN rxs, issue(id, rx) PROVE FALSE
  BY <1>1 DEF issue
<1>2. ASSUME NEW id \in Known, Records(id) PROVE FALSE
  BY <1>2 DEF Records, commit, stage, release, expire_staging, deck_not_handed, publish, resume_answer
<1>3. ASSUME NEW id \in Known,
             \/ retry(id) \/ cancel(id) \/ forget(id)
             \/ Expires(id, "grace") \/ Expires(id, "in_use") \/ Waited(id)
      PROVE FALSE
  BY <1>3 DEF retry, cancel, forget, Expires, Waited
<1>4. ASSUME Receivers PROVE FALSE
  BY <1>4 DEF Receivers, register, Snapshot, snapshot, stream_closed, connection_closed, ReceiverTime
<1>5. ASSUME turn \/ LapseChecks \/ Tick \/ exit PROVE FALSE
  BY <1>5 DEF turn, LapseChecks, lapse_checks, Tick, tick, exit
<1> QED BY <1>1, <1>2, <1>3, <1>4, <1>5 DEF Next

\* What the shape of each action gives.
Framed ==
  /\ DOMAIN msgs' = Ids /\ phase' \in {"Idle", "Read"} /\ busy' \in BOOLEAN
  /\ exited' \in BOOLEAN

LEMMA RecordsFrame ==
  ASSUME Shapes, NEW id \in Known, Records(id)
  PROVE  Framed /\ rxs' = rxs
<1>1. /\ \E n : msgs' = [msgs EXCEPT ![id] = n]
      /\ UNCHANGED <<rxs, busy, phase, exited>>
  <2>1. ASSUME NEW e, commit(id, e)
        PROVE  (\E n : msgs' = [msgs EXCEPT ![id] = n]) /\ UNCHANGED <<rxs, busy, phase, exited>>
    BY <2>1 DEF commit
  <2>2. ASSUME NEW e, NEW bt, OneAttempt(id, e, bt)
        PROVE  (\E n : msgs' = [msgs EXCEPT ![id] = n]) /\ UNCHANGED <<rxs, busy, phase, exited>>
    BY <2>2 DEF OneAttempt
  <2>3. ASSUME NEW e, publish(id, e)
        PROVE  (\E n : msgs' = [msgs EXCEPT ![id] = n]) /\ UNCHANGED <<rxs, busy, phase, exited>>
    BY <2>3 DEF publish
  <2>4. ASSUME NEW e, NEW reported, stage(id, e, reported) PROVE \E bt : OneAttempt(id, e, bt)
    BY <2>4 DEF stage
  <2>5. ASSUME NEW e, NEW written, release(id, e, written) PROVE \E bt : OneAttempt(id, e, bt)
    BY <2>5 DEF release
  <2>6. ASSUME NEW e, expire_staging(id, e) \/ deck_not_handed(id, e)
        PROVE  \E bt : OneAttempt(id, e, bt)
    BY <2>6 DEF expire_staging, deck_not_handed
  <2>7. ASSUME NEW e, NEW rx, NEW answer, resume_answer(rx, id, e, answer)
        PROVE  \E bt : OneAttempt(id, e, bt)
    BY <2>7 DEF resume_answer
  <2> QED BY <2>1, <2>2, <2>3, <2>4, <2>5, <2>6, <2>7 DEF Records
<1> QED BY <1>1 DEF Shapes, Framed

LEMMA NextFrame ==
  ASSUME Shapes, Next
  PROVE  Framed
<1>1. ASSUME NEW id \in Ids, NEW rx \in DOMAIN rxs, issue(id, rx) PROVE Framed
  BY <1>1 DEF issue, HandOut, Shapes, Framed
<1>2. ASSUME NEW id \in Known, Records(id) PROVE Framed
  BY <1>2, RecordsFrame
<1>3. ASSUME NEW id \in Known, retry(id) \/ cancel(id) \/ forget(id) PROVE Framed
  BY <1>3 DEF retry, cancel, forget, Shapes, Framed
<1>4. ASSUME NEW id \in Known, Expires(id, "grace") \/ Expires(id, "in_use") \/ Waited(id)
      PROVE Framed
  BY <1>4 DEF Expires, Waited, Shapes, Framed
<1>5. ASSUME NEW slot \in Slots, register(slot) PROVE Framed
  BY <1>5 DEF register, Finalized, Shapes, Framed
<1>6. ASSUME NEW rx \in DOMAIN rxs, Snapshot(rx) PROVE Framed
  BY <1>6 DEF Snapshot, snapshot, Finalized, Shapes, Framed
<1>7. ASSUME NEW rx \in DOMAIN rxs, stream_closed(rx) \/ connection_closed(rx) \/ ReceiverTime(rx)
      PROVE  Framed
  BY <1>7 DEF stream_closed, connection_closed, ReceiverTime, Finalized, Shapes, Framed
<1>8. ASSUME turn PROVE Framed
  BY <1>8 DEF turn, Finalized, Shapes, Framed
<1>9. ASSUME LapseChecks PROVE Framed
  BY <1>9 DEF LapseChecks, lapse_checks, OnAttempts, Shapes, Framed
<1>10. ASSUME Tick PROVE Framed
  BY <1>10 DEF Tick, tick, Shapes, Framed
<1>11. ASSUME exit PROVE Framed
  BY <1>11 DEF exit, Shapes, Framed
<1> QED BY <1>1, <1>2, <1>3, <1>4, <1>5, <1>6, <1>7, <1>8, <1>9, <1>10, <1>11 DEF Next, Receivers

Kinds ==
  \/ Ordinary
  \/ \E id \in Ids : Noted(id) \/ HandedOut(id)
  \/ \E id \in Known : forget(id)
  \/ exit

LEMMA EveryStep ==
  ASSUME Running, Next
  PROVE  Kinds /\ rxs' \in Seq(RxType)
<1>1. rxs \in Seq(RxType) /\ Shapes
  BY DEF Running, IInv, Shapes
<1>2. ASSUME NEW id \in Ids, NEW rx \in DOMAIN rxs, issue(id, rx)
      PROVE  Kinds /\ rxs' \in Seq(RxType)
  BY <1>2, IssueStep DEF Kinds
<1>3. ASSUME NEW id \in Known, Records(id)
      PROVE  Ordinary /\ rxs' \in Seq(RxType)
  <2>1. rxs' = rxs
    BY <1>1, <1>3, RecordsFrame
  <2>2. Ordinary
    BY <1>3, CommitStep, StageStep, ReleaseStep, ExpireStagingStep, DeckNotHandedStep,
       PublishStep, ResumeAnswerStep DEF Records
  <2> QED BY <1>1, <2>1, <2>2
<1>4. ASSUME NEW id \in Known, retry(id) \/ cancel(id)
      PROVE  Ordinary /\ rxs' \in Seq(RxType)
  <2>1. Ordinary
    BY <1>4, RetryStep, CancelStep
  <2> QED BY <1>1, <1>4, <2>1 DEF retry, cancel
<1>5. ASSUME NEW id \in Known, Expires(id, "grace") \/ Expires(id, "in_use") \/ Waited(id)
      PROVE  Ordinary /\ rxs' \in Seq(RxType)
  <2>1. Ordinary
    BY <1>5, ExpiresStep, WaitedStep
  <2> QED BY <1>1, <1>5, <2>1 DEF Expires, Waited
<1>6. ASSUME Receivers PROVE Ordinary /\ rxs' \in Seq(RxType)
  BY <1>6, RegisterStep, SnapshotsStep, StreamClosedStep, ConnectionClosedStep, ReceiverTimeStep
     DEF Receivers
<1>7. ASSUME turn PROVE Ordinary /\ rxs' \in Seq(RxType)
  BY <1>1, <1>7, TurnStep DEF turn
<1>8. ASSUME LapseChecks PROVE Ordinary /\ rxs' \in Seq(RxType)
  BY <1>1, <1>8, LapseChecksStep DEF LapseChecks, lapse_checks
<1>9. ASSUME Tick PROVE Ordinary /\ rxs' \in Seq(RxType)
  BY <1>9, TickStep
<1>10. ASSUME NEW id \in Known, forget(id) PROVE Kinds /\ rxs' \in Seq(RxType)
  BY <1>1, <1>10 DEF forget, Kinds
<1>11. ASSUME exit PROVE Kinds /\ rxs' \in Seq(RxType)
  <2>1. rxs' = <<>>
    BY <1>11 DEF exit
  <2>2. <<>> \in Seq(RxType)
    OBVIOUS
  <2>3. Kinds
    BY <1>11 DEF Kinds
  <2> QED BY <2>1, <2>2, <2>3
<1>12. Ordinary => Kinds
  BY DEF Kinds
<1> HIDE DEF Kinds
<1> QED BY <1>2, <1>3, <1>4, <1>5, <1>6, <1>7, <1>8, <1>9, <1>10, <1>11, <1>12 DEF Next

-----------------------------------------------------------------------------
(* The invariant is inductive.                                              *)

LEMMA IsRecord ==
  ASSUME NEW m \in MsgType
  PROVE  /\ m # NoMsg /\ m.attempts \in Seq(AttemptType)
         /\ DOMAIN m.attempts = 1..Len(m.attempts) /\ Len(m.attempts) \in Nat /\ m.a \in Nat
<1>1. m.state \in States /\ NoMsg.state = "None" /\ m.attempts \in Seq(AttemptType) /\ m.a \in Nat
  BY DEF MsgType, NoMsg
<1> QED BY <1>1 DEF States

LEMMA SameLength ==
  ASSUME NEW m \in MsgType, NEW n \in MsgType, DOMAIN n.attempts = DOMAIN m.attempts
  PROVE  Len(n.attempts) = Len(m.attempts)
<1>1. m.attempts \in Seq(AttemptType) /\ n.attempts \in Seq(AttemptType)
  BY IsRecord
<1> QED BY <1>1

LEMMA MaxOfTwo ==
  ASSUME NEW x \in Nat, NEW y \in Nat
  PROVE  LET z == Max({x, y}) IN z \in Nat /\ z >= x /\ z >= y
<1>1. \E z \in {x, y} : \A w \in {x, y} : z >= w
  OBVIOUS
<1> QED BY <1>1 DEF Max

\* The invariant, but for its shapes.
LEMMA OrdinaryKeeps ==
  ASSUME Running, Ordinary
  PROVE  /\ \A id \in Known' : Good(rxs', id, msgs'[id])
         /\ \A u \in used' : Behind(u)'
         /\ Reserving' \subseteq Reserving
<1>1. \A id \in Known : /\ Good(rxs, id, msgs[id]) /\ Good(rxs', id, msgs'[id])
                        /\ Moves(msgs[id], msgs'[id])
                        /\ msgs[id] \in MsgType /\ msgs'[id] \in MsgType
  BY RunningGood DEF Ordinary, Known, Good, Sound
<1>2. \A id \in Ids : id \notin Known => msgs'[id] = NoMsg
  BY DEF Ordinary
<1>3. Known' = Known
  BY <1>1, <1>2, IsRecord DEF Known
<1>4. ASSUME NEW u \in used'
      PROVE  Behind(u)'
  <2>1. u \in used /\ Behind(u) /\ u[1] \in Ids /\ u[2] \in Nat /\ u[3] \in Nat
        /\ forgotten' = forgotten
    BY DEF Ordinary, Running, IInv, Shapes
  <2>2. CASE u[1] \notin Known
    <3>1. msgs'[u[1]] = NoMsg /\ msgs[u[1]] = NoMsg
      BY <1>2, <2>1, <2>2 DEF Known
    <3> QED BY <2>1, <3>1 DEF Behind
  <2>3. CASE u[1] \in Known
    <3> DEFINE m == msgs[u[1]]
               n == msgs'[u[1]]
    <3>1. /\ m \in MsgType /\ n \in MsgType /\ n.a >= m.a
          /\ DOMAIN n.attempts = DOMAIN m.attempts
      BY <1>1, <2>3 DEF Moves, Leg
    <3>2. /\ m # NoMsg /\ n # NoMsg /\ m.a \in Nat /\ n.a \in Nat
          /\ Len(m.attempts) = Len(n.attempts) /\ Len(m.attempts) \in Nat
      BY <3>1, IsRecord, SameLength
    <3>3. u[2] < m.a \/ (u[2] = m.a /\ u[3] <= Len(m.attempts))
      BY <2>1, <3>2 DEF Behind
    <3>4. u[2] < n.a \/ (u[2] = n.a /\ u[3] <= Len(n.attempts))
      <4> HIDE DEF m, n
      <4> QED BY <2>1, <3>1, <3>2, <3>3
    <3> QED BY <3>2, <3>4 DEF Behind
  <2> QED BY <2>2, <2>3
<1>5. Reserving' \subseteq Reserving
  <2>1. \A id \in Known : /\ DOMAIN msgs'[id].attempts = DOMAIN msgs[id].attempts
                          /\ \A e \in DOMAIN msgs[id].attempts :
                               msgs[id].attempts[e].reclaimed => msgs'[id].attempts[e].reclaimed
    BY <1>1 DEF Moves, Leg, Stays
  <2> QED BY <1>3, <2>1 DEF Reserving
<1> QED BY <1>1, <1>3, <1>4, <1>5

LEMMA NotedKeeps ==
  ASSUME Running, NEW id \in Ids, Noted(id)
  PROVE  /\ \A d \in Known' : Good(rxs', d, msgs'[d])
         /\ \A u \in used' : Behind(u)'
         /\ Reserving' \subseteq Reserving
<1> DEFINE n == NewDelivery(id)
<1>1. forgotten \in Nat /\ DOMAIN msgs = Ids
  BY AttemptConstants DEF Running, IInv, Shapes
<1>2. Good(rxs, id, n) /\ n \in MsgType /\ n.a = forgotten + 1 /\ DOMAIN n.attempts = {}
  BY <1>1, NewDeliveryGood DEF Good, Sound, NewDelivery
<1>3. /\ rxs' = rxs /\ forgotten' = forgotten /\ used' = used /\ msgs[id] = NoMsg
      /\ msgs'[id] = n /\ \A d \in Ids : d # id => msgs'[d] = msgs[d]
  BY <1>1 DEF Noted, Known
<1> HIDE DEF n
<1>4. Known' = Known \cup {id}
  BY <1>2, <1>3, IsRecord DEF Known
<1>5. \A d \in Known' : Good(rxs', d, msgs'[d])
  BY <1>2, <1>3, <1>4, RunningGood DEF Known
<1>6. ASSUME NEW u \in used'
      PROVE  Behind(u)'
  <2>1. u \in used /\ Behind(u) /\ u[1] \in Ids /\ u[2] \in Nat
    BY <1>3 DEF Running, IInv, Shapes
  <2>2. CASE u[1] # id
    BY <1>3, <2>1, <2>2 DEF Behind
  <2>3. CASE u[1] = id
    <3>1. u[2] <= forgotten
      BY <1>3, <2>1, <2>3 DEF Behind
    <3>2. u[2] < n.a /\ n # NoMsg
      BY <1>1, <1>2, <2>1, <3>1, IsRecord
    <3> QED BY <1>3, <2>3, <3>2 DEF Behind
  <2> QED BY <2>2, <2>3
<1>7. Reserving' \subseteq Reserving
  BY <1>2, <1>3, <1>4 DEF Reserving, Known
<1> QED BY <1>5, <1>6, <1>7

\* What a hand-out leaves: one record more or another one in its place.
LEMMA HandedOutIs ==
  ASSUME Running, NEW id \in Ids, HandedOut(id)
  PROVE  LET m == Record(id)
             n == msgs'[id]
             L == Len(m.attempts) + 1
         IN /\ m \in MsgType /\ Good(rxs, id, m) /\ Delivered(rxs', id, m, n)
            /\ n \in MsgType /\ Len(n.attempts) = L
            /\ Known' = Known \cup {id}
            /\ \A d \in Ids : d # id => msgs'[d] = msgs[d]
            /\ id \notin Known => msgs[id] = NoMsg /\ m.a = forgotten + 1 /\ DOMAIN m.attempts = {}
            /\ id \in Known => m = msgs[id]
<1> DEFINE m == Record(id)
           n == msgs'[id]
           L == Len(m.attempts) + 1
<1>1. DOMAIN msgs = Ids
  BY DEF Running, IInv, Shapes
<1>2. Good(rxs, id, m) /\ m \in MsgType
  BY RecordGood DEF Good, Sound
<1>3. Delivered(rxs', id, m, n) /\ \A d \in Ids : d # id => msgs'[d] = msgs[d]
  BY <1>1 DEF HandedOut
<1>4. n \in MsgType /\ DOMAIN n.attempts = DOMAIN m.attempts \cup {L}
  BY <1>3 DEF Delivered, Good, Sound
<1>5. /\ id \notin Known => msgs[id] = NoMsg /\ m.a = forgotten + 1 /\ DOMAIN m.attempts = {}
      /\ id \in Known => m = msgs[id]
  BY DEF Known, Record, NewDelivery
<1> HIDE DEF m, n
<1>6. Len(n.attempts) = L
  <2>1. /\ n.attempts \in Seq(AttemptType) /\ m.attempts \in Seq(AttemptType)
    BY <1>2, <1>4, IsRecord
  <2>2. DOMAIN n.attempts = 1..L
    BY <1>4, <2>1
  <2> QED BY <2>1, <2>2
<1>7. Known' = Known \cup {id}
  BY <1>3, <1>4, IsRecord DEF Known, n
<1> QED BY <1>2, <1>3, <1>4, <1>5, <1>6, <1>7 DEF m, n

LEMMA HandedOutKeeps ==
  ASSUME Running, NEW id \in Ids, HandedOut(id)
  PROVE  /\ \A d \in Known' : Good(rxs', d, msgs'[d])
         /\ \A u \in used' : Behind(u)'
         /\ Reserving' \subseteq Reserving \cup {<<id, Len(Record(id).attempts) + 1>>}
         /\ used' \subseteq Ids \X Nat \X Nat
<1> DEFINE m == Record(id)
           n == msgs'[id]
           L == Len(m.attempts) + 1
<1>1. /\ m \in MsgType /\ Good(rxs, id, m) /\ Delivered(rxs', id, m, n)
      /\ n \in MsgType /\ Len(n.attempts) = L
      /\ Known' = Known \cup {id}
      /\ \A d \in Ids : d # id => msgs'[d] = msgs[d]
      /\ id \notin Known => msgs[id] = NoMsg /\ m.a = forgotten + 1 /\ DOMAIN m.attempts = {}
      /\ id \in Known => m = msgs[id]
  BY HandedOutIs
<1>2. /\ m.attempts \in Seq(AttemptType) /\ Len(m.attempts) \in Nat /\ m.a \in Nat
      /\ m # NoMsg /\ n # NoMsg /\ n.a \in Nat /\ n.a >= m.a
  BY <1>1, IsRecord DEF Delivered
<1>3. /\ SameSlots(rxs, rxs') /\ forgotten' = forgotten
      /\ used' = used \cup {<<id, m.a, L>>}
  BY DEF HandedOut
<1> HIDE DEF m, n
<1>4. \A d \in Known' : Good(rxs', d, msgs'[d])
  <2>1. \A d \in Known : d \in Ids /\ Good(rxs', d, msgs[d])
    BY <1>3, RunningGood, Undisturbed
  <2>2. Good(rxs', id, n)
    BY <1>1 DEF Delivered
  <2> QED BY <2>1, <2>2, <1>1 DEF n
<1>5. ASSUME NEW u \in used'
      PROVE  Behind(u)'
  <2>1. CASE u = <<id, m.a, L>>
    BY <1>1, <1>2, <2>1 DEF Behind, n
  <2>2. CASE u \in used /\ u[1] # id
    <3>1. Behind(u) /\ u[1] \in Ids
      BY <2>2 DEF Running, IInv, Shapes
    <3> QED BY <1>1, <1>3, <2>2, <3>1 DEF Behind
  <2>3. CASE u \in used /\ u[1] = id
    <3>1. Behind(u) /\ u[2] \in Nat /\ u[3] \in Nat /\ forgotten \in Nat
      BY <2>3, AttemptConstants DEF Running, IInv, Shapes
    <3>2. u[2] < m.a \/ (u[2] = m.a /\ u[3] <= Len(m.attempts))
      BY <1>1, <1>2, <2>3, <3>1 DEF Behind
    <3>3. u[2] < n.a \/ (u[2] = n.a /\ u[3] <= Len(n.attempts))
      BY <1>1, <1>2, <3>1, <3>2
    <3> QED BY <1>2, <2>3, <3>3 DEF Behind, n
  <2> QED BY <1>3, <2>1, <2>2, <2>3
<1>6. Reserving' \subseteq Reserving \cup {<<id, L>>}
  <2>1. SUFFICES ASSUME NEW d \in Known', NEW e \in DOMAIN msgs'[d].attempts,
                        ~msgs'[d].attempts[e].reclaimed
                 PROVE  <<d, e>> \in Reserving \cup {<<id, L>>}
    BY DEF Reserving
  <2>2. CASE d # id
    <3>1. d \in Known /\ msgs'[d] = msgs[d]
      BY <1>1, <2>2 DEF Known
    <3> QED BY <2>1, <3>1 DEF Reserving
  <2>3. CASE d = id
    <3>1. /\ DOMAIN n.attempts = DOMAIN m.attempts \cup {L}
          /\ \A f \in DOMAIN m.attempts : m.attempts[f].reclaimed => n.attempts[f].reclaimed
      BY <1>1 DEF Delivered, Stays
    <3>2. CASE e = L
      BY <2>3, <3>2
    <3>3. CASE e # L
      <4>1. e \in DOMAIN m.attempts /\ ~m.attempts[e].reclaimed
        BY <2>1, <2>3, <3>1, <3>3 DEF n
      <4>2. id \in Known /\ m = msgs[id]
        BY <1>1, <4>1
      <4> QED BY <2>3, <4>1, <4>2 DEF Reserving
    <3> QED BY <3>2, <3>3
  <2> QED BY <2>2, <2>3
<1>7. used' \subseteq Ids \X Nat \X Nat
  BY <1>2, <1>3 DEF Running, IInv, Shapes
<1> QED BY <1>4, <1>5, <1>6, <1>7 DEF m

LEMMA ForgetKeeps ==
  ASSUME Running, NEW id \in Known, forget(id)
  PROVE  /\ \A d \in Known' : Good(rxs', d, msgs'[d])
         /\ \A u \in used' : Behind(u)'
         /\ Reserving' \subseteq Reserving
         /\ forgotten' \in 0..MaxForgotten
<1>1. DOMAIN msgs = Ids /\ forgotten \in Nat /\ id \in Ids
  BY AttemptConstants DEF Running, IInv, Shapes, Known
<1>2. /\ rxs' = rxs /\ used' = used /\ forgotten' = Max({forgotten, msgs[id].a})
      /\ msgs'[id] = NoMsg /\ \A d \in Ids : d # id => msgs'[d] = msgs[d]
      /\ forgotten' <= MaxForgotten
  BY <1>1 DEF forget
<1>3. msgs[id] \in MsgType
  BY RunningGood DEF Good, Sound
<1>4. forgotten' \in Nat /\ forgotten' >= forgotten /\ forgotten' >= msgs[id].a
      /\ msgs[id].a \in Nat
  BY <1>1, <1>2, <1>3, MaxOfTwo, IsRecord
<1>5. \A d \in Known' : d \in Known /\ d # id /\ msgs'[d] = msgs[d]
  BY <1>2 DEF Known
<1>6. \A d \in Known' : Good(rxs', d, msgs'[d])
  BY <1>2, <1>5, RunningGood
<1>7. ASSUME NEW u \in used'
      PROVE  Behind(u)'
  <2>1. u \in used /\ Behind(u) /\ u[1] \in Ids /\ u[2] \in Nat
    BY <1>2 DEF Running, IInv, Shapes
  <2>2. CASE u[1] # id
    <3>1. msgs[u[1]] = NoMsg => u[2] <= forgotten'
      BY <1>1, <1>4, <2>1 DEF Behind
    <3> QED BY <1>2, <2>1, <2>2, <3>1 DEF Behind
  <2>3. CASE u[1] = id
    <3>1. u[2] <= msgs[id].a
      BY <1>3, <1>4, <2>1, <2>3, IsRecord DEF Behind
    <3> QED BY <1>2, <1>4, <2>1, <2>3, <3>1 DEF Behind
  <2> QED BY <2>2, <2>3
<1>8. Reserving' \subseteq Reserving
  BY <1>5 DEF Reserving
<1> QED BY <1>2, <1>4, <1>6, <1>7, <1>8, AttemptConstants

LEMMA ExitEnds ==
  ASSUME Running, exit
  PROVE  /\ exited' /\ \A id \in Known' : id \in Known /\ Over(id, msgs'[id])
         /\ Reserving' = {} /\ forgotten' = forgotten /\ used' = used
<1> DEFINE ended(m) == [m EXCEPT !.attempts = <<>>, !.token = NoToken, !.waiting = "No",
                                 !.state = IF is_terminal(@) THEN @ ELSE "Exited"]
<1>1. /\ exited' /\ forgotten' = forgotten /\ used' = used
      /\ \A id \in Known : id \in Ids /\ msgs'[id] = ended(msgs[id])
      /\ \A id \in Ids \ Known : msgs'[id] = NoMsg
  BY DEF exit, Known
<1>2. ASSUME NEW id \in Known
      PROVE  Over(id, ended(msgs[id]))
  <2> DEFINE m == msgs[id]
             s == IF is_terminal(m.state) THEN m.state ELSE "Exited"
  <2>1. Good(rxs, id, m) /\ m \in MsgType
    BY RunningGood DEF Good, Sound
  <2>2. NoToken \in TokenType /\ <<>> \in Seq(AttemptType)
    BY DEF NoToken, TokenType
  <2>3. s \in States /\ is_terminal(s)
    BY DEF States
  <2> DEFINE n == [m EXCEPT !.attempts = <<>>, !.token = NoToken, !.waiting = "No", !.state = s]
  <2>4. ended(m) = n
    OBVIOUS
  <2> HIDE DEF s, m
  <2>5. n \in MsgType
    BY <2>1, <2>2, <2>3 DEF MsgType
  <2>6. /\ n.attempts = <<>> /\ n.waiting = "No" /\ n.state = s /\ n.offer = m.offer
        /\ n.auto_repeats = m.auto_repeats /\ n.requeues = m.requeues
    BY <2>1 DEF MsgType
  <2> HIDE DEF n
  <2>7. Over(id, n)
    BY <2>1, <2>3, <2>5, <2>6 DEF Over, Good, Sound, Counted
  <2> QED BY <2>4, <2>7 DEF m
<1> HIDE DEF ended
<1>3. \A id \in Known' : id \in Known /\ Over(id, msgs'[id])
  BY <1>1, <1>2 DEF Known
<1>4. Reserving' = {}
  <2>1. \A id \in Known' : DOMAIN msgs'[id].attempts = {}
    BY <1>3 DEF Over
  <2> QED BY <2>1 DEF Reserving
<1> QED BY <1>1, <1>3, <1>4

\* Evidence: a step that reserves nothing new, or one that checked for room.
LEMMA EvidenceFits ==
  ASSUME IsFiniteSet(Reserving), Cardinality(Reserving) <= EvidenceRoom, NEW S, NEW x,
         \/ S \subseteq Reserving
         \/ S \subseteq Reserving \cup {x} /\ Cardinality(Reserving) + 1 <= EvidenceRoom
  PROVE  IsFiniteSet(S) /\ Cardinality(S) <= EvidenceRoom
<1>1. EvidenceRoom \in Nat
  BY AttemptConstants
<1>2. CASE S \subseteq Reserving
  <2>1. IsFiniteSet(S) /\ Cardinality(S) <= Cardinality(Reserving)
        /\ Cardinality(S) \in Nat /\ Cardinality(Reserving) \in Nat
    BY <1>2, CountPart
  <2> QED BY <1>1, <2>1
<1>3. CASE S \subseteq Reserving \cup {x} /\ Cardinality(Reserving) + 1 <= EvidenceRoom
  <2> DEFINE T == Reserving \cup {x}
  <2>1. /\ IsFiniteSet(T) /\ Cardinality(Reserving) \in Nat
        /\ Cardinality(T) \in {Cardinality(Reserving), Cardinality(Reserving) + 1}
    BY FS_AddElement, FS_CardinalityType
  <2>2. S \subseteq T
    BY <1>3
  <2> HIDE DEF T
  <2>3. IsFiniteSet(S) /\ Cardinality(S) <= Cardinality(T)
        /\ Cardinality(S) \in Nat /\ Cardinality(T) \in Nat
    BY <2>1, <2>2, CountPart
  <2> QED BY <1>1, <1>3, <2>1, <2>3
<1> QED BY <1>2, <1>3

LEMMA EvidenceIs == EvidenceReserved = Cardinality(Reserving)
BY DEF EvidenceReserved, Reserving

LEMMA NextKeeps ==
  ASSUME Running, Next
  PROVE  IInv'
<1>1. /\ Kinds /\ rxs' \in Seq(RxType) /\ Framed
      /\ IsFiniteSet(Reserving) /\ Cardinality(Reserving) <= EvidenceRoom
      /\ forgotten \in 0..MaxForgotten /\ used \subseteq Ids \X Nat \X Nat
  BY EveryStep, NextFrame DEF Running, IInv, Shapes
<1>2. ASSUME exited' = FALSE, forgotten' \in 0..MaxForgotten, used' \subseteq Ids \X Nat \X Nat,
             \A id \in Known' : Good(rxs', id, msgs'[id]),
             \A u \in used' : Behind(u)',
             IsFiniteSet(Reserving'), Cardinality(Reserving') <= EvidenceRoom
      PROVE  IInv'
  <2>1. Shapes'
    BY <1>1, <1>2 DEF Shapes, Framed
  <2> QED BY <2>1, <1>2 DEF IInv
<1>3. CASE Ordinary
  <2>1. /\ \A id \in Known' : Good(rxs', id, msgs'[id])
        /\ \A u \in used' : Behind(u)'
        /\ Reserving' \subseteq Reserving
    BY <1>3, OrdinaryKeeps
  <2>2. IsFiniteSet(Reserving') /\ Cardinality(Reserving') <= EvidenceRoom
    BY <1>1, <2>1, EvidenceFits
  <2>3. exited' = FALSE /\ forgotten' = forgotten /\ used' = used
    BY <1>1, <1>3 DEF Ordinary, Framed
  <2> QED BY <1>1, <1>2, <2>1, <2>2, <2>3
<1>4. ASSUME NEW id \in Ids, Noted(id) PROVE IInv'
  <2>1. /\ \A d \in Known' : Good(rxs', d, msgs'[d])
        /\ \A u \in used' : Behind(u)'
        /\ Reserving' \subseteq Reserving
    BY <1>4, NotedKeeps
  <2>2. IsFiniteSet(Reserving') /\ Cardinality(Reserving') <= EvidenceRoom
    BY <1>1, <2>1, EvidenceFits
  <2>3. exited' = FALSE /\ forgotten' = forgotten /\ used' = used
    BY <1>4 DEF Noted, Running, IInv, Shapes
  <2> QED BY <1>1, <1>2, <2>1, <2>2, <2>3
<1>5. ASSUME NEW id \in Ids, HandedOut(id) PROVE IInv'
  <2>1. /\ \A d \in Known' : Good(rxs', d, msgs'[d])
        /\ \A u \in used' : Behind(u)'
        /\ Reserving' \subseteq Reserving \cup {<<id, Len(Record(id).attempts) + 1>>}
        /\ used' \subseteq Ids \X Nat \X Nat
    BY <1>5, HandedOutKeeps
  <2>2. Cardinality(Reserving) + 1 <= EvidenceRoom
    BY <1>5, EvidenceIs DEF HandedOut
  <2>3. IsFiniteSet(Reserving') /\ Cardinality(Reserving') <= EvidenceRoom
    BY <1>1, <2>1, <2>2, EvidenceFits
  <2>4. exited' = FALSE /\ forgotten' = forgotten
    BY <1>5 DEF HandedOut, Running, IInv, Shapes
  <2> QED BY <1>1, <1>2, <2>1, <2>3, <2>4
<1>6. ASSUME NEW id \in Known, forget(id) PROVE IInv'
  <2>1. /\ \A d \in Known' : Good(rxs', d, msgs'[d])
        /\ \A u \in used' : Behind(u)'
        /\ Reserving' \subseteq Reserving
        /\ forgotten' \in 0..MaxForgotten
    BY <1>6, ForgetKeeps
  <2>2. IsFiniteSet(Reserving') /\ Cardinality(Reserving') <= EvidenceRoom
    BY <1>1, <2>1, EvidenceFits
  <2>3. exited' = FALSE /\ used' = used
    BY <1>6 DEF forget, Running, IInv, Shapes
  <2> QED BY <1>1, <1>2, <2>1, <2>2, <2>3
<1>7. CASE exit
  <2>1. /\ exited' /\ \A id \in Known' : Over(id, msgs'[id])
        /\ Reserving' = {} /\ forgotten' = forgotten /\ used' = used
    BY <1>7, ExitEnds
  <2>2. exited' \in BOOLEAN
    BY <1>7 DEF exit
  <2>3. Shapes'
    BY <1>1, <2>1, <2>2 DEF Shapes, Framed
  <2>4. IsFiniteSet(Reserving') /\ Cardinality(Reserving') <= EvidenceRoom
    BY <2>1, FS_EmptySet, AttemptConstants
  <2> QED BY <2>1, <2>3, <2>4 DEF IInv
<1> QED BY <1>1, <1>3, <1>4, <1>5, <1>6, <1>7 DEF Kinds

LEMMA InitKeeps == Init => IInv
<1> SUFFICES ASSUME Init PROVE IInv
  OBVIOUS
<1>1. Known = {}
  BY DEF Init, Known
<1>2. Reserving = {}
  BY <1>1 DEF Reserving
<1>3. IsFiniteSet(Reserving) /\ Cardinality(Reserving) <= EvidenceRoom
  BY <1>2, FS_EmptySet, AttemptConstants
<1>4. Shapes
  <2>1. rxs \in Seq(RxType)
    BY DEF Init
  <2>2. forgotten \in 0..MaxForgotten
    BY AttemptConstants DEF Init
  <2>3. DOMAIN msgs = Ids /\ used = {} /\ busy = FALSE /\ exited = FALSE /\ phase = "Idle"
    BY DEF Init
  <2> QED BY <2>1, <2>2, <2>3 DEF Shapes
<1> QED BY <1>1, <1>3, <1>4 DEF IInv, Init

LEMMA StepKeeps ==
  ASSUME IInv, [Next]_vars
  PROVE  IInv'
<1>1. CASE UNCHANGED vars
  BY <1>1 DEF vars, IInv, Shapes, Known, Behind, Reserving
<1>2. CASE Next
  BY <1>2, NextKeeps, NothingAfterExit DEF Running
<1> QED BY <1>1, <1>2

\* The inductive invariant holds in every run of the model: every record is good,
\* every name handed out is behind its message, and the evidence fits.
THEOREM AttemptsInv == Spec => []IInv
BY InitKeeps, StepKeeps, PTL DEF Spec

-----------------------------------------------------------------------------
(* What the runs check, for every value of the constants.                   *)

\* Of a message in any reachable state, exited or not.
LEMMA RecordIs ==
  ASSUME IInv, NEW id \in Known
  PROVE  \/ ~exited /\ Good(rxs, id, msgs[id])
         \/ exited /\ Over(id, msgs[id])
BY DEF IInv

LEMMA InvType == IInv => TypeOK
<1> SUFFICES ASSUME IInv PROVE TypeOK
  OBVIOUS
<1>1. ASSUME NEW id \in Known
      PROVE  /\ msgs[id].state \in States
             /\ is_terminal(msgs[id].state) => msgs[id].waiting = "No"
             /\ \A e \in AttemptsOf(id) :
                  /\ msgs[id].attempts[e] \in AttemptType
                  /\ rxs[msgs[id].attempts[e].rx].slot = msgs[id].attempts[e].slot
  <2>1. CASE Good(rxs, id, msgs[id])
    BY <2>1 DEF Good, Sound, MsgType, Scheduled, AttemptOK, AttemptsOf
  <2>2. CASE Over(id, msgs[id])
    BY <2>2 DEF Over, MsgType, AttemptsOf
  <2> QED BY <2>1, <2>2, RecordIs
<1>2. \A r \in DOMAIN rxs : rxs[r].state \in {"Live", "Retired", "Gone"}
  <2>1. \A r \in DOMAIN rxs : rxs[r] \in RxType
    BY DEF IInv, Shapes
  <2> QED BY <2>1 DEF RxType
<1> QED BY <1>1, <1>2 DEF TypeOK, IInv, Shapes

\* The records, the attempts and the receivers of the engine (AttemptModel) keep
\* their types, an attempt names a receiver of its slot, and an ended message
\* waits for nothing.
THEOREM AttemptsType == Spec => []TypeOK
BY AttemptsInv, InvType, PTL

LEMMA InvCommit == IInv => CommitDecides
<1> SUFFICES ASSUME IInv, NEW id \in Known,
                    NEW e \in Current(msgs[id]), msgs[id].attempts[e].stage = "Committed"
             PROVE  \/ msgs[id].state = "Settled"
                    \/ msgs[id].state \in {"Cancelled", "MaxDeliver"} /\ msgs[id].corrected
  BY DEF CommitDecides
<1>1. CASE Good(rxs, id, msgs[id])
  BY <1>1 DEF Good, Decided, HasCommit
<1>2. CASE Over(id, msgs[id])
  BY <1>2 DEF Over, Current
<1> QED BY <1>1, <1>2, RecordIs

\* A commit of the current assignment ends the message as settled or corrects the
\* other end its sender was told of, however the finalizer (finalize) learned it.
THEOREM CommitAlwaysDecides == Spec => []CommitDecides
BY AttemptsInv, InvCommit, PTL

LEMMA InvBudgets == IInv => BudgetsHold
<1> SUFFICES ASSUME IInv PROVE BudgetsHold
  OBVIOUS
<1>1. EvidenceReserved <= EvidenceRoom
  BY EvidenceIs DEF IInv
<1>2. ASSUME NEW id \in Known
      PROVE  LET m == msgs[id]
             IN /\ Len(m.attempts) <= MaxAttempts
                /\ m.auto_repeats <= MaxAutoRepeats
                /\ m.requeues <= MaxDeliver
                /\ ~exited => Cardinality({e \in AttemptsOf(id) : IsAuto(m.attempts[e])}) = m.auto_repeats
  <2>1. CASE ~exited /\ Good(rxs, id, msgs[id])
    <3>1. Autos(msgs[id].attempts) = {e \in AttemptsOf(id) : IsAuto(msgs[id].attempts[e])}
      BY DEF Autos, AttemptsOf
    <3> QED BY <2>1, <3>1 DEF Good, Sound, Counted
  <2>2. CASE exited /\ Over(id, msgs[id])
    <3>1. Len(msgs[id].attempts) = 0 /\ MaxAttempts \in Nat
      BY <2>2, AttemptConstants DEF Over
    <3>2. Len(msgs[id].attempts) <= MaxAttempts
      BY <3>1
    <3> QED BY <2>2, <3>2 DEF Over
  <2> QED BY <2>1, <2>2, RecordIs
<1> QED BY <1>1, <1>2 DEF BudgetsHold

\* No message costs more attempts, automatic repeats or requeues than its limits
\* (Limits), every automatic repeat is counted, and the attempts that are not
\* reclaimed fit the evidence they reserve (evidence_reserved).
THEOREM BudgetsAlwaysHold == Spec => []BudgetsHold
BY AttemptsInv, InvBudgets, PTL

LEMMA InvCleared == IInv => ClearedIsChecked
<1> SUFFICES ASSUME IInv, NEW id \in Known, NEW e \in AttemptsOf(id)
             PROVE  LET at == msgs[id].attempts[e]
                    IN at.cleared \/ at.checking # "No" => at.receipt # "Covered"
  BY DEF ClearedIsChecked
<1>1. CASE Good(rxs, id, msgs[id])
  BY <1>1 DEF Good, Sound, AttemptOK, Whole, AttemptsOf
<1>2. CASE Over(id, msgs[id])
  BY <1>2 DEF Over, AttemptsOf
<1> QED BY <1>1, <1>2, RecordIs

\* What the clock's spool check (lapse_checks, tick) cleared has no receipt that
\* was there when the attempt last had to be checked again.
THEOREM ClearedAlwaysChecked == Spec => []ClearedIsChecked
BY AttemptsInv, InvCleared, PTL

LEMMA KindOfStep ==
  ASSUME IInv, Next
  PROVE  Running /\ Kinds
<1>1. Running
  BY NothingAfterExit DEF Running
<1> QED BY <1>1, EveryStep

\* Of a message that a step leaves a record of: nothing is handed out, and every
\* attempt stays; or it is the one handed out, or the agent is gone.
Steady(id) ==
  /\ DOMAIN msgs'[id].attempts = DOMAIN msgs[id].attempts
  /\ Len(msgs'[id].attempts) = Len(msgs[id].attempts)
  /\ \A e \in AttemptsOf(id) :
       Stays(msgs[id].latch, msgs'[id].state, msgs[id].attempts[e], msgs'[id].attempts[e])

LEMMA WhatBecomes ==
  ASSUME IInv, Next, NEW id \in Known, msgs'[id] # NoMsg
  PROVE  \/ Steady(id)
         \/ HandedOut(id)
         \/ exited' /\ msgs'[id].attempts = <<>>
<1>1. Running /\ Kinds /\ id \in Ids
  BY KindOfStep DEF Known
<1>2. msgs[id] \in MsgType /\ Good(rxs, id, msgs[id])
  BY <1>1, RunningGood DEF Good, Sound
<1>3. ASSUME msgs'[id] = msgs[id] PROVE Steady(id)
  <2>1. Quiet(msgs[id], msgs[id])
    BY <1>2, SlotsAsTheyAre, Undisturbed
  <2> QED BY <1>3, <2>1 DEF Quiet, Leg, Steady, AttemptsOf
<1>4. DOMAIN msgs = Ids
  BY <1>1 DEF Running, IInv, Shapes
<1>5. CASE Ordinary
  <2>1. Moves(msgs[id], msgs'[id]) /\ msgs'[id] \in MsgType
    BY <1>1, <1>5 DEF Ordinary, Good, Sound
  <2>2. Len(msgs'[id].attempts) = Len(msgs[id].attempts)
    BY <1>2, <2>1, SameLength DEF Moves, Leg
  <2> QED BY <2>1, <2>2 DEF Moves, Leg, Steady, AttemptsOf
<1>6. ASSUME NEW d \in Ids, Noted(d) PROVE Steady(id)
  <2>1. d # id /\ msgs'[id] = msgs[id]
    BY <1>1, <1>4, <1>6 DEF Noted
  <2> QED BY <1>3, <2>1
<1>7. ASSUME NEW d \in Ids, HandedOut(d), d # id PROVE Steady(id)
  <2>1. msgs'[id] = msgs[id]
    BY <1>1, <1>4, <1>7 DEF HandedOut
  <2> QED BY <1>3, <2>1
<1>8. ASSUME NEW d \in Known, forget(d) PROVE Steady(id)
  <2>1. d # id
    BY <1>1, <1>4, <1>8 DEF forget
  <2>2. msgs'[id] = msgs[id]
    BY <1>1, <1>4, <1>8, <2>1 DEF forget
  <2> QED BY <1>3, <2>2
<1>9. CASE exit
  <2>1. id \in Known'
    BY <1>1 DEF Known
  <2> QED BY <1>1, <1>9, <2>1, ExitEnds DEF Over
<1> QED BY <1>1, <1>5, <1>6, <1>7, <1>8, <1>9 DEF Kinds

\* Nothing is new of a message that keeps its attempts.
LEMMA NoNewAttempts ==
  ASSUME IInv, NEW id \in Known, ~exited, Steady(id) \/ msgs'[id].attempts = <<>>
  PROVE  NewAttempts(id) = {}
<1>1. msgs[id] \in MsgType
  BY RecordIs DEF Good, Sound
<1>2. msgs[id] # NoMsg /\ DOMAIN msgs[id].attempts = 1..Len(msgs[id].attempts)
      /\ Len(msgs[id].attempts) \in Nat
  BY <1>1, IsRecord
<1>3. CASE Steady(id)
  BY <1>2, <1>3 DEF NewAttempts, Steady
<1>4. CASE msgs'[id].attempts = <<>>
  BY <1>4 DEF NewAttempts
<1> QED BY <1>3, <1>4

\* The one new attempt of a message that is handed out.
LEMMA TheNewAttempt ==
  ASSUME Running, NEW id \in Ids, HandedOut(id)
  PROVE  NewAttempts(id) = {Len(Record(id).attempts) + 1}
<1> DEFINE m == Record(id)
           n == msgs'[id]
           L == Len(m.attempts) + 1
<1>1. /\ m \in MsgType /\ Delivered(rxs', id, m, n)
      /\ id \notin Known => msgs[id] = NoMsg /\ DOMAIN m.attempts = {}
      /\ id \in Known => m = msgs[id]
  BY HandedOutIs
<1>2. /\ DOMAIN n.attempts = DOMAIN m.attempts \cup {L} /\ Len(m.attempts) \in Nat
      /\ DOMAIN m.attempts = 1..Len(m.attempts) /\ m # NoMsg
  BY <1>1, IsRecord DEF Delivered
<1>3. NewAttempts(id) = {e \in DOMAIN n.attempts : msgs[id] = NoMsg \/ e > Len(msgs[id].attempts)}
  BY DEF NewAttempts
<1> HIDE DEF m, n
<1>4. CASE id \in Known
  BY <1>1, <1>2, <1>3, <1>4 DEF m
<1>5. CASE id \notin Known
  BY <1>1, <1>2, <1>3, <1>5 DEF m
<1> QED BY <1>4, <1>5

\* What the deck repeats by itself: nobody possesses an earlier attempt of the
\* assignment, and the last check of it counts.
LEMMA RepeatIsSafe ==
  ASSUME Running, NEW id \in Known, HandedOut(id), msgs[id].token.kind = "Auto",
         NEW e \in Current(msgs[id])
  PROVE  LET at == msgs[id].attempts[e]
         IN /\ ~possessed(rxs, busy, id, e, at)
            /\ ~at.resume_pending /\ ~at.withheld
            /\ at.stage # "NotHanded" => at.receipt # "Covered"
<1> DEFINE m == msgs[id]
           at == m.attempts[e]
<1>1. Good(rxs, id, m) /\ e \in DOMAIN m.attempts
  BY RunningGood DEF Current
<1>2. /\ Revalidated(id, m) /\ m.state \in {"Queued", "Attempting"}
  BY DEF HandedOut, Record
<1>3. ~possessed(rxs, busy, id, e, at) /\ ~at.resume_pending /\ (needs_clearance(at) => at.cleared)
  BY <1>2 DEF Revalidated
<1>4. ~at.withheld
  BY <1>1 DEF Good, Sound, Scheduled
<1>5. at.stage # "Committed"
  BY <1>1, <1>2, OpenUncommitted DEF HasCommit
<1>6. AttemptOK(rxs, m.state, m.a, at)
  BY <1>1 DEF Good, Sound
<1> HIDE DEF m, at
<1>7. at.stage # "NotHanded" => at.receipt # "Covered"
  <2>1. at.stage \in Stages
    BY <1>6 DEF AttemptOK, AttemptType
  <2> QED BY <1>3, <1>4, <1>5, <1>6, <2>1 DEF AttemptOK, Whole, needs_clearance, Stages
<1> QED BY <1>3, <1>4, <1>7 DEF m, at

\* The deck repeats a message by itself (an AutoRepeat of issue) only when nobody
\* possesses or may still answer for an earlier attempt of the assignment and no
\* receipt of one was there to be found.
THEOREM AutoRepeatsAreSafe == Spec => AutoRepeatSafe
<1> DEFINE Safe == \A id \in Known : msgs'[id] # NoMsg =>
                     \A n \in NewAttempts(id) : IsAuto(msgs'[id].attempts[n]) =>
                       \A e \in Current(msgs[id]) :
                         LET at == msgs[id].attempts[e]
                         IN /\ ~possessed(rxs, busy, id, e, at)
                            /\ ~at.resume_pending /\ ~at.withheld
                            /\ at.stage # "NotHanded" => at.receipt # "Covered"
<1>1. ASSUME IInv, [Next]_vars
      PROVE  [Safe]_vars
  <2>1. CASE Next
    <3>1. SUFFICES ASSUME NEW id \in Known, msgs'[id] # NoMsg, NEW n \in NewAttempts(id),
                          IsAuto(msgs'[id].attempts[n]), NEW e \in Current(msgs[id])
                   PROVE  LET at == msgs[id].attempts[e]
                          IN /\ ~possessed(rxs, busy, id, e, at)
                             /\ ~at.resume_pending /\ ~at.withheld
                             /\ at.stage # "NotHanded" => at.receipt # "Covered"
      OBVIOUS
    <3>2. Running /\ ~exited /\ id \in Ids
      BY <1>1, <2>1, KindOfStep DEF Running, Known
    <3>3. HandedOut(id)
      BY <1>1, <2>1, <3>1, <3>2, WhatBecomes, NoNewAttempts
    <3>4. n = Len(Record(id).attempts) + 1 /\ Record(id) = msgs[id]
      BY <3>1, <3>2, <3>3, TheNewAttempt DEF Record
    <3>5. Delivered(rxs', id, Record(id), msgs'[id])
      BY <3>2, <3>3, HandedOutIs
    <3>6. msgs[id].token.kind = "Auto"
      BY <3>1, <3>4, <3>5 DEF Delivered
    <3> QED BY <3>1, <3>2, <3>3, <3>6, RepeatIsSafe
  <2>2. CASE UNCHANGED vars
    BY <2>2
  <2> QED BY <1>1, <2>1, <2>2
<1>2. IInv /\ [Next]_vars => [Safe]_vars
  BY <1>1
<1> QED BY <1>2, AttemptsInv, PTL DEF Spec, AutoRepeatSafe

\* After Cancel (the latch) nothing more of the message is handed out and nothing
\* withheld is released to its receiver.
THEOREM CancelAlwaysStops == Spec => CancelStops
<1> DEFINE Stops == \A id \in Known : msgs[id].latch /\ msgs'[id] # NoMsg =>
                      /\ Len(msgs'[id].attempts) <= Len(msgs[id].attempts)
                      /\ \A e \in DOMAIN msgs'[id].attempts :
                           msgs[id].attempts[e].withheld /\ ~msgs'[id].attempts[e].withheld =>
                             is_final(msgs'[id].attempts[e].stage)
<1>1. ASSUME IInv, [Next]_vars
      PROVE  [Stops]_vars
  <2>1. CASE Next
    <3>1. SUFFICES ASSUME NEW id \in Known, msgs[id].latch, msgs'[id] # NoMsg
                   PROVE  /\ Len(msgs'[id].attempts) <= Len(msgs[id].attempts)
                          /\ \A e \in DOMAIN msgs'[id].attempts :
                               msgs[id].attempts[e].withheld /\ ~msgs'[id].attempts[e].withheld =>
                                 is_final(msgs'[id].attempts[e].stage)
      OBVIOUS
    <3>2. Running /\ ~exited
      BY <1>1, <2>1, KindOfStep DEF Running
    <3>3. msgs[id] \in MsgType /\ Len(msgs[id].attempts) \in Nat
      BY <3>2, RunningGood, IsRecord DEF Good, Sound
    <3>4. CASE Steady(id)
      BY <3>1, <3>3, <3>4 DEF Steady, Stays, AttemptsOf
    <3>5. CASE HandedOut(id)
      BY <3>1, <3>5 DEF HandedOut, Record
    <3>6. CASE msgs'[id].attempts = <<>>
      BY <3>3, <3>6
    <3> QED BY <1>1, <2>1, <3>1, <3>4, <3>5, <3>6, WhatBecomes
  <2>2. CASE UNCHANGED vars
    BY <2>2
  <2> QED BY <1>1, <2>1, <2>2
<1>2. IInv /\ [Next]_vars => [Stops]_vars
  BY <1>1
<1> QED BY <1>2, AttemptsInv, PTL DEF Spec, CancelStops

\* A commit record that every check of a fenced attempt would find is not thrown
\* away with the attempt (reclaim), unless the message is settled.
THEOREM ReceiptsAreKept == Spec => ReceiptsKept
<1> DEFINE Kept == \A id \in Known : msgs'[id] # NoMsg /\ ~exited' =>
                     \A e \in AttemptsOf(id) :
                       LET at == msgs[id].attempts[e]
                       IN /\ at.stage = "Fenced" /\ ~at.reclaimed /\ at.receipt = "Covered"
                          /\ msgs'[id].attempts[e].reclaimed
                          => msgs'[id].state = "Settled" \/ msgs'[id].attempts[e].stage = "Committed"
<1>1. ASSUME IInv, [Next]_vars
      PROVE  [Kept]_vars
  <2>1. CASE Next
    <3>1. SUFFICES ASSUME NEW id \in Known, msgs'[id] # NoMsg, ~exited', NEW e \in AttemptsOf(id)
                   PROVE  LET at == msgs[id].attempts[e]
                          IN /\ at.stage = "Fenced" /\ ~at.reclaimed /\ at.receipt = "Covered"
                             /\ msgs'[id].attempts[e].reclaimed
                             => msgs'[id].state = "Settled" \/ msgs'[id].attempts[e].stage = "Committed"
      OBVIOUS
    <3>2. Running /\ id \in Ids
      BY <1>1, <2>1, KindOfStep DEF Known
    <3>3. Stays(msgs[id].latch, msgs'[id].state, msgs[id].attempts[e], msgs'[id].attempts[e])
      <4>1. CASE Steady(id)
        BY <4>1 DEF Steady
      <4>2. CASE HandedOut(id)
        BY <3>2, <4>2, HandedOutIs DEF Delivered, AttemptsOf
      <4> QED BY <1>1, <2>1, <3>1, <4>1, <4>2, WhatBecomes
    <3> QED BY <3>3 DEF Stays
  <2>2. CASE UNCHANGED vars
    BY <2>2
  <2> QED BY <1>1, <2>1, <2>2
<1>2. IInv /\ [Next]_vars => [Kept]_vars
  BY <1>1
<1> QED BY <1>2, AttemptsInv, PTL DEF Spec, ReceiptsKept

\* The name a hand-out gives.
LEMMA FreshName ==
  ASSUME Running, NEW id \in Ids, HandedOut(id)
  PROVE  <<id, Record(id).a, Len(Record(id).attempts) + 1>> \notin used
<1> DEFINE m == Record(id)
           L == Len(m.attempts) + 1
<1>1. /\ m \in MsgType
      /\ id \notin Known => msgs[id] = NoMsg /\ m.a = forgotten + 1
      /\ id \in Known => m = msgs[id]
  BY HandedOutIs
<1>2. m # NoMsg /\ m.a \in Nat /\ Len(m.attempts) \in Nat
  BY <1>1, IsRecord
<1> HIDE DEF m
<1>3. SUFFICES ASSUME <<id, m.a, L>> \in used PROVE FALSE
  BY DEF m
<1>4. Behind(<<id, m.a, L>>) /\ forgotten \in Nat
  BY <1>3, AttemptConstants DEF Running, IInv, Shapes
<1> QED BY <1>1, <1>2, <1>4 DEF Behind

\* No two hand-outs of a generation share a name <<id, a, e>>, across requeues to a
\* new assignment and records that were forgotten (forget).
THEOREM NamesAreNeverReused == Spec => NeverReused
<1> DEFINE Fresh == \A id \in Ids : msgs'[id] # NoMsg =>
                      \A n \in NewAttempts(id) : <<id, msgs'[id].attempts[n].a, n>> \notin used
<1>1. ASSUME IInv, [Next]_vars
      PROVE  [Fresh]_vars
  <2>1. CASE Next
    <3>1. SUFFICES ASSUME NEW id \in Ids, msgs'[id] # NoMsg, NEW n \in NewAttempts(id)
                   PROVE  <<id, msgs'[id].attempts[n].a, n>> \notin used
      OBVIOUS
    <3>2. Running /\ Kinds /\ ~exited /\ DOMAIN msgs = Ids
      BY <1>1, <2>1, KindOfStep DEF Running, IInv, Shapes
    <3>3. HandedOut(id)
      <4>1. CASE id \in Known
        BY <1>1, <2>1, <3>1, <3>2, <4>1, WhatBecomes, NoNewAttempts
      <4>2. CASE id \notin Known
        <5>1. msgs[id] = NoMsg
          BY <4>2 DEF Known
        <5>2. CASE Ordinary
          BY <3>1, <4>2, <5>2 DEF Ordinary
        <5>3. ASSUME NEW d \in Ids, Noted(d) PROVE FALSE
          <6>1. d = id
            BY <3>1, <3>2, <5>1, <5>3 DEF Noted
          <6>2. msgs'[id].attempts = <<>>
            BY <3>2, <5>3, <6>1 DEF Noted, NewDelivery
          <6> QED BY <3>1, <6>2 DEF NewAttempts
        <5>4. ASSUME NEW d \in Ids, HandedOut(d) PROVE d = id
          BY <3>1, <3>2, <5>1, <5>4 DEF HandedOut
        <5>5. ASSUME NEW d \in Known, forget(d) PROVE FALSE
          BY <3>1, <3>2, <4>2, <5>1, <5>5 DEF forget
        <5>6. CASE exit
          BY <3>1, <3>2, <4>2, <5>1, <5>6 DEF exit
        <5> QED BY <3>2, <5>2, <5>3, <5>4, <5>5, <5>6 DEF Kinds
      <4> QED BY <4>1, <4>2
    <3>4. n = Len(Record(id).attempts) + 1
      BY <3>1, <3>2, <3>3, TheNewAttempt
    <3>5. msgs'[id].attempts[n].a = Record(id).a
      BY <3>2, <3>3, <3>4, HandedOutIs DEF Delivered
    <3> QED BY <3>2, <3>3, <3>4, <3>5, FreshName
  <2>2. CASE UNCHANGED vars
    BY <2>2
  <2> QED BY <1>1, <2>1, <2>2
<1>2. IInv /\ [Next]_vars => [Fresh]_vars
  BY <1>1
<1> QED BY <1>2, AttemptsInv, PTL DEF Spec, NeverReused

-----------------------------------------------------------------------------
(* The engine keeps the promises of Delivery.                               *)

\* What Delivery sees of a message before and after a step.
LEMMA SeenAs ==
  ASSUME NEW id \in Ids
  PROVE  /\ Verdict[id] = VerdictOf(msgs[id]) /\ Verdict'[id] = VerdictOf(msgs'[id])
         /\ CorrectedMsgs[id] = (id \in Known /\ msgs[id].corrected)
         /\ CorrectedMsgs'[id] = (id \in Known' /\ msgs'[id].corrected)
         /\ NamesOf[id] = {n \in used : n[1] = id} /\ NamesOf'[id] = {n \in used' : n[1] = id}
BY DEF Verdict, CorrectedMsgs, NamesOf, VerdictOf

LEMMA NoVerdict == VerdictOf(NoMsg) = "None"
BY DEF VerdictOf, NoMsg

\* A record with a verdict and a correction, and another in its place.
LEMMA MovesImplements ==
  ASSUME NEW id \in Ids, id \in Known, id \in Known',
         msgs[id] \in MsgType, msgs'[id] \in MsgType, msgs[id].offer = (id \in Offers),
         Turn(msgs[id], msgs'[id]) \/ Learn(msgs[id], msgs'[id]), NamesOf'[id] = NamesOf[id]
  PROVE  D!Step(id)
<1> DEFINE m == msgs[id]
           n == msgs'[id]
<1>1. /\ Verdict[id] = VerdictOf(m) /\ Verdict'[id] = VerdictOf(n)
      /\ CorrectedMsgs[id] = (id \in Known /\ m.corrected)
      /\ CorrectedMsgs'[id] = (id \in Known' /\ n.corrected)
  BY SeenAs
<1>2. /\ m.state \in States /\ n.state \in States
      /\ m.corrected \in BOOLEAN /\ n.corrected \in BOOLEAN
  BY DEF MsgType
<1>3. CorrectedMsgs[id] = m.corrected /\ CorrectedMsgs'[id] = n.corrected
  BY <1>1, <1>2
<1>4. Turn(m, n) \/ Learn(m, n)
  OBVIOUS
<1>5. m.offer = (id \in Offers)
  OBVIOUS
<1> HIDE DEF m, n
<1>6. CASE Turn(m, n)
  <2>1. CASE is_terminal(m.state)
    <3>1. VerdictOf(n) = VerdictOf(m) /\ n.corrected = m.corrected
      BY <1>6, <2>1 DEF Turn, VerdictOf, is_terminal
    <3> QED BY <1>1, <1>3, <3>1 DEF D!Step, D!Same, D!Corrected, D!Named
  <2>2. CASE m.state = "CancelHeld"
    BY <1>1, <1>3, <1>6, <2>2 DEF Turn, VerdictOf, D!Step, D!Same, D!GiveUp, D!Live, D!Corrected, D!Named
  <2>3. CASE m.state \in OpenStates
    <3>1. VerdictOf(m) \in {"Open", "Uncertain"}
      BY <2>3 DEF VerdictOf, OpenStates
    <3>2. VerdictOf(n) \in {"Open", "Uncertain", "Cancelling", "Cancelled", "MaxDeliver"}
      BY <1>6, <2>3 DEF Turn, VerdictOf, OpenStates
    <3>3. n.corrected = m.corrected
      BY <1>6 DEF Turn
    <3> QED BY <1>1, <1>3, <3>1, <3>2, <3>3
            DEF D!Step, D!Doubt, D!Cancel, D!GiveUp, D!Live, D!Corrected, D!Named
  <2> QED BY <1>2, <2>1, <2>2, <2>3 DEF States, OpenStates
<1>7. CASE Learn(m, n)
  <2>1. CASE m.state \in {"Queued", "Attempting"} /\ n.state = "Settled" /\ n.corrected = m.corrected
    BY <1>1, <1>3, <2>1 DEF VerdictOf, D!Step, D!Settle, D!Corrected, D!Corrects, D!Named
  <2>2. CASE m.state \in UncertainStates \cup {"CancelHeld"} /\ n.state = "Settled" /\ n.corrected
    BY <1>1, <1>2, <1>3, <2>2 DEF VerdictOf, D!Step, D!Settle, D!Corrected, D!Corrects, D!Named
  <2>3. CASE m.state = "MaxDeliver" /\ ~m.offer /\ n.state = "Settled" /\ n.corrected
    BY <1>1, <1>2, <1>3, <1>5, <2>3 DEF VerdictOf, D!Step, D!Settle, D!Corrected, D!Corrects, D!Named
  <2>4. CASE m.state \in {"Cancelled", "MaxDeliver"} /\ n.state = m.state /\ n.corrected
    BY <1>1, <1>2, <1>3, <2>4 DEF VerdictOf, D!Step, D!AfterAll, D!Corrects, D!Named
  <2>5. CASE m.state = "Settled" /\ n.state = "Settled" /\ n.corrected = m.corrected
    BY <1>1, <1>3, <2>5 DEF VerdictOf, D!Step, D!Same, D!Corrected, D!Named
  <2> QED BY <1>7, <2>1, <2>2, <2>3, <2>4, <2>5 DEF Learn
<1> QED BY <1>4, <1>6, <1>7

LEMMA SameImplements ==
  ASSUME NEW id \in Ids, msgs'[id] = msgs[id], NamesOf'[id] = NamesOf[id]
  PROVE  D!Step(id)
<1>1. id \in Known' <=> id \in Known
  BY DEF Known
<1>2. Verdict'[id] = Verdict[id] /\ CorrectedMsgs'[id] = CorrectedMsgs[id]
  BY <1>1, SeenAs
<1> QED BY <1>2 DEF D!Step, D!Same, D!Corrected, D!Named

LEMMA OrdinaryImplements ==
  ASSUME Running, Ordinary, NEW id \in Ids
  PROVE  D!Step(id)
<1>1. NamesOf'[id] = NamesOf[id]
  BY SeenAs DEF Ordinary
<1>2. CASE id \in Known
  <2>1. /\ Good(rxs, id, msgs[id]) /\ Good(rxs', id, msgs'[id]) /\ Moves(msgs[id], msgs'[id])
    BY <1>2, RunningGood DEF Ordinary
  <2>2. msgs[id] \in MsgType /\ msgs'[id] \in MsgType /\ msgs[id].offer = (id \in Offers)
    BY <2>1 DEF Good, Sound
  <2>3. id \in Known'
    BY <2>2, IsRecord DEF Known
  <2> QED BY <1>1, <1>2, <2>1, <2>2, <2>3, MovesImplements DEF Moves
<1>3. CASE id \notin Known
  <2>1. msgs'[id] = msgs[id]
    BY <1>3 DEF Ordinary, Known
  <2> QED BY <1>1, <2>1, SameImplements
<1> QED BY <1>2, <1>3

LEMMA NotedImplements ==
  ASSUME Running, NEW d \in Ids, Noted(d), NEW id \in Ids
  PROVE  D!Step(id)
<1>1. NamesOf'[id] = NamesOf[id] /\ DOMAIN msgs = Ids
  <2>1. used' = used
    BY DEF Noted
  <2>2. DOMAIN msgs = Ids
    BY DEF Running, IInv, Shapes
  <2> QED BY <2>1, <2>2, SeenAs
<1>2. CASE id # d
  <2>1. msgs'[id] = msgs[id]
    BY <1>1, <1>2 DEF Noted
  <2> QED BY <1>1, <2>1, SameImplements
<1>3. CASE id = d
  <2>1. msgs[id] = NoMsg /\ msgs'[id] = NewDelivery(id) /\ id \notin Known
    BY <1>1, <1>3 DEF Noted, Known
  <2>2. Verdict[id] = "None" /\ Verdict'[id] = "Open"
    BY <2>1, SeenAs, NoVerdict DEF VerdictOf, NewDelivery
  <2>3. CorrectedMsgs'[id] = CorrectedMsgs[id]
    BY <2>1, SeenAs DEF NewDelivery
  <2> QED BY <1>1, <2>2, <2>3 DEF D!Step, D!Take, D!Corrected, D!Named
<1> QED BY <1>2, <1>3

LEMMA HandedOutImplements ==
  ASSUME Running, NEW d \in Ids, HandedOut(d), NEW id \in Ids
  PROVE  D!Step(id)
<1> DEFINE m == Record(d)
           u == <<d, m.a, Len(m.attempts) + 1>>
<1>1. used' = used \cup {u} /\ u \notin used /\ u[1] = d
  BY FreshName DEF HandedOut
<1> HIDE DEF u
<1>2. CASE id # d
  <2>1. msgs'[id] = msgs[id]
    BY <1>2, HandedOutIs
  <2>2. NamesOf'[id] = NamesOf[id]
    <3>1. NamesOf[id] = {n \in used : n[1] = id} /\ NamesOf'[id] = {n \in used' : n[1] = id}
      BY SeenAs
    <3>2. \A n \in used' : n[1] = id => n \in used
      BY <1>1, <1>2
    <3> QED BY <1>1, <3>1, <3>2
  <2> QED BY <2>1, <2>2, SameImplements
<1>3. CASE id = d
  <2>1. /\ Delivered(rxs', id, m, msgs'[id]) /\ id \in Known' /\ m \in MsgType
        /\ id \notin Known => msgs[id] = NoMsg
        /\ id \in Known => m = msgs[id]
    BY <1>3, HandedOutIs
  <2>2. m.state \in {"Queued", "Attempting"}
    BY DEF HandedOut
  <2>3. Verdict[id] \in {"None", "Open"}
    BY <2>1, <2>2, SeenAs, NoVerdict DEF VerdictOf
  <2>4. Verdict'[id] \in {"Open", "Uncertain"}
    BY <2>1, SeenAs DEF VerdictOf, Delivered
  <2>5. CorrectedMsgs'[id] = CorrectedMsgs[id]
    <3>1. msgs'[id].corrected = m.corrected /\ m.corrected \in BOOLEAN
      BY <2>1 DEF Delivered, MsgType
    <3>2. CASE id \in Known
      BY <2>1, <3>1, <3>2, SeenAs
    <3>3. CASE id \notin Known
      <4>1. m.corrected = FALSE
        BY <1>3, <3>3 DEF Record, NewDelivery
      <4> QED BY <2>1, <3>1, <3>3, <4>1, SeenAs
    <3> QED BY <3>2, <3>3
  <2>6. u \in NamesOf'[id] /\ u \notin NamesOf[id] /\ NamesOf'[id] = NamesOf[id] \cup {u}
    BY <1>1, <1>3, SeenAs
  <2> QED BY <2>3, <2>4, <2>5, <2>6 DEF D!Step, D!HandOut, D!Corrected
<1> QED BY <1>2, <1>3

LEMMA ForgetImplements ==
  ASSUME Running, NEW d \in Known, forget(d), NEW id \in Ids
  PROVE  D!Step(id)
<1>1. NamesOf'[id] = NamesOf[id] /\ DOMAIN msgs = Ids
  BY SeenAs DEF forget, Running, IInv, Shapes
<1>2. CASE id # d
  <2>1. msgs'[id] = msgs[id]
    BY <1>1, <1>2 DEF forget
  <2> QED BY <1>1, <2>1, SameImplements
<1>3. CASE id = d
  <2>1. msgs'[id] = NoMsg /\ is_terminal(msgs[id].state) /\ id \notin Known'
    BY <1>1, <1>3 DEF forget, spent, Known
  <2>2. Verdict[id] \in D!Verdicts \ (D!Live \cup {"None"}) /\ Verdict'[id] = "None"
    BY <2>1, SeenAs, NoVerdict DEF VerdictOf, D!Verdicts, D!Live
  <2>3. CorrectedMsgs'[id] = FALSE
    BY <2>1, SeenAs
  <2> QED BY <1>1, <2>2, <2>3 DEF D!Step, D!Forget, D!Named
<1> QED BY <1>2, <1>3

LEMMA ExitImplements ==
  ASSUME Running, exit, NEW id \in Ids
  PROVE  D!Step(id)
<1>1. NamesOf'[id] = NamesOf[id]
  BY SeenAs DEF exit
<1>2. CASE id \notin Known
  <2>1. msgs'[id] = msgs[id]
    BY <1>2 DEF exit
  <2> QED BY <1>1, <2>1, SameImplements
<1>3. CASE id \in Known
  <2> DEFINE m == msgs[id]
             n == msgs'[id]
  <2>1. m \in MsgType /\ m.state \in States
    BY <1>3, RunningGood DEF Good, Sound, MsgType
  <2>2. n.state = (IF is_terminal(m.state) THEN m.state ELSE "Exited") /\ n.corrected = m.corrected
    BY <1>3, <2>1 DEF exit, MsgType
  <2>3. id \in Known'
    <3>1. n.state # NoMsg.state
      BY <2>1, <2>2 DEF NoMsg
    <3> QED BY <3>1 DEF Known
  <2>4. CorrectedMsgs'[id] = CorrectedMsgs[id]
    BY <1>3, <2>2, <2>3, SeenAs
  <2>5. Verdict[id] = VerdictOf(m) /\ Verdict'[id] = VerdictOf(n)
    BY SeenAs
  <2> HIDE DEF m, n
  <2>6. CASE is_terminal(m.state)
    BY <1>1, <2>2, <2>4, <2>5, <2>6 DEF VerdictOf, D!Step, D!Same, D!Corrected, D!Named
  <2>7. CASE ~is_terminal(m.state)
    <3>1. VerdictOf(m) \in D!Live /\ VerdictOf(n) = "Exited"
      BY <2>1, <2>2, <2>7 DEF VerdictOf, D!Live, States
    <3> QED BY <1>1, <2>4, <2>5, <3>1 DEF D!Step, D!GiveUp, D!Corrected, D!Named
  <2> QED BY <2>6, <2>7
<1> QED BY <1>2, <1>3

\* The receipt engine implements Delivery: one verdict is given of a message and
\* only a late commit corrects it, once and only to who was told otherwise, and
\* each hand-out is of an open message under a name of its own.
THEOREM EngineDelivers == Spec => DeliverySpec
<1>1. Init => D!Init
  <2>1. SUFFICES ASSUME Init PROVE D!Init
    OBVIOUS
  <2>2. Known = {} /\ \A id \in Ids : msgs[id] = NoMsg
    BY <2>1 DEF Init, Known
  <2>3. Verdict = [id \in Ids |-> "None"]
    BY <2>2, NoVerdict DEF Verdict
  <2>4. CorrectedMsgs = [id \in Ids |-> FALSE]
    BY <2>2 DEF CorrectedMsgs
  <2>5. NamesOf = [id \in Ids |-> {}]
    BY <2>1 DEF Init, NamesOf
  <2> QED BY <2>3, <2>4, <2>5 DEF D!Init
<1>2. IInv /\ [Next]_vars => [D!Next]_(D!vars)
  <2>1. SUFFICES ASSUME IInv, [Next]_vars PROVE [D!Next]_(D!vars)
    OBVIOUS
  <2>2. CASE UNCHANGED vars
    BY <2>2 DEF vars, D!vars, Verdict, CorrectedMsgs, NamesOf, Known, VerdictOf
  <2>3. CASE Next
    <3>1. Running /\ Kinds
      BY <2>1, <2>3, KindOfStep
    <3>2. ASSUME NEW id \in Ids PROVE D!Step(id)
      BY <3>1, OrdinaryImplements, NotedImplements, HandedOutImplements, ForgetImplements,
         ExitImplements DEF Kinds
    <3>3. DOMAIN Verdict' = Ids /\ DOMAIN CorrectedMsgs' = Ids /\ DOMAIN NamesOf' = Ids
      BY DEF Verdict, CorrectedMsgs, NamesOf
    <3> QED BY <3>2, <3>3 DEF D!Next
  <2> QED BY <2>1, <2>2, <2>3
<1> QED BY <1>1, <1>2, AttemptsInv, PTL DEF Spec, DeliverySpec, D!Spec

=============================================================================
