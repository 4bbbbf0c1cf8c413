------------------------ MODULE HookEventOrderProofs ------------------------
(***************************************************************************)
(* Hook events of one session or pane are applied in order, and a sleeping *)
(* task is never forgotten, for any number of connections, any cap on them *)
(* and any events and announces.                                           *)
(***************************************************************************)
EXTENDS HookEventOrder, SetFacts, TLAPS

-----------------------------------------------------------------------------
(* The shape of a connection at each point of its task.                     *)

Pcs == {"New", "Reading", "Told", "Turn", "Released", "Free", "Ended"} \cup Waiting

Shapes ==
  /\ next \in 0..N
  /\ pc \in [Conns -> Pcs]
  /\ slot = [c \in Conns |-> slot[c]]
  /\ old \in [Conns -> BOOLEAN]
  /\ woken \in [Conns -> BOOLEAN]
  /\ until \in [Conns -> 0..N]
  /\ announced = [c \in Conns |-> announced[c]]
  /\ carried = [c \in Conns |-> carried[c]]
  /\ late \in [Conns -> BOOLEAN]
  /\ overtook \subseteq {cd \in Conns \X Conns : cd[1] < cd[2]}

Standings == {"Attested", "Unproven"}

\* The slot and the history of a connection, by where its task is.
Accepted == \A c \in Conns : pc[c] = "New" <=> c > next

StillReads(c) ==
  /\ carried[c] = Closed
  /\ \/ slot[c] = Silent /\ announced[c] = {}
     \/ /\ slot[c].kind = "Announced" /\ slot[c].standing \in Standings
        /\ \A v \in announced[c] : v.pane = slot[c].pane /\ v.standing = slot[c].standing
        /\ announced[c] # {}

SlotOK(c) ==
  /\ pc[c] \in {"Reading", "Told"} => StillReads(c)
  /\ pc[c] \in {"Turn"} \cup Waiting =>
       /\ slot[c] = carried[c]
       /\ slot[c].kind = "Event"
       /\ slot[c].standing \in Standings
  /\ pc[c] \in {"New", "Released", "Free", "Ended"} => slot[c] = Closed
  /\ pc[c] = "New" => carried[c] = Closed /\ announced[c] = {}
  /\ carried[c] # Closed => carried[c].kind = "Event" /\ carried[c].standing \in Standings
  /\ carried[c] # Closed => pc[c] \in {"Turn", "Released", "Free", "Ended"} \cup Waiting

Slots == \A c \in Conns : SlotOK(c)

\* What c has announced so far leaves open that its event comes before d's
MayYet(c, d) ==
  \A v \in announced[c] :
    IF v.standing = "Attested" THEN v.pane = carried[d].pane
    ELSE carried[d].standing = "Unproven"

\* Of a turn that came while c was open: c was waited for as long as it may
\* be, or turned out to matter to nobody
Overtaken ==
  \A cd \in overtook :
    LET c == cd[1]
        d == cd[2]
    IN /\ carried[d] # Closed
       /\ pc[d] \notin Waiting
       /\ carried[c] = Closed => pc[c] \in {"Reading", "Told"}
       /\ carried[c] = Closed /\ MayYet(c, d) => old[c]

\* Nobody is between a change of a slot and the wake-up that follows it.
Quiet == \A d \in Conns : pc[d] \notin {"Told", "Set", "Released"}

\* A task that goes to sleep, or is asleep, with no wake-up on its way, sleeps
\* for a reason: an event ahead of it, or a deadline that has not passed.
Reasons ==
  \A c \in Conns :
    pc[c] \in {"Looked", "Parked"} /\ ~woken[c] /\ Quiet =>
      IF until[c] = 0 THEN same_keys_ahead(c)
      ELSE old[until[c]] \/ until[c] \in silent_until(c)

IInv == Shapes /\ Accepted /\ Slots /\ Overtaken /\ InOrder

\* No wake-up is lost: a sleeping task whose turn has come has been woken, or
\* its deadline has passed, or a wake-up is about to be sent (turn_for_kind
\* enables the wake-up before it looks).
NoLostWakeup ==
  \A c \in Conns :
    pc[c] = "Parked" /\ ~same_keys_ahead(c) /\ silent_until(c) = {} =>
      woken[c] \/ (until[c] # 0 /\ old[until[c]]) \/ ~Quiet

LEMMA Kinds ==
  /\ Closed.kind = "Closed" /\ Silent.kind = "Silent"
  /\ Closed # Silent
  BY DEF Closed, Silent

LEMMA IInvInit == Init => IInv
  BY HookConstants DEF Init, IInv, Shapes, Accepted, Slots, SlotOK, Overtaken, InOrder,
     Conns, Pcs, Waiting

\* A connection that a step leaves as it is stays well-formed.
LEMMA SlotFrame ==
  ASSUME NEW c, SlotOK(c), pc'[c] = pc[c], slot'[c] = slot[c], carried'[c] = carried[c],
         announced'[c] = announced[c]
  PROVE  SlotOK(c)'
  BY DEF SlotOK, StillReads

\* A step that carries no event and overtakes nobody keeps the order: of whom
\* was overtaken, those still read from are, have announced what they had, and
\* are no younger.
LEMMA OrderFrame ==
  ASSUME Shapes, Overtaken, InOrder,
         overtook' \subseteq overtook, carried' = carried, late' = late,
         \A d \in Conns : carried[d] # Closed /\ pc[d] \notin Waiting => pc'[d] \notin Waiting,
         \A c \in Conns : carried[c] # Closed => announced'[c] = announced[c],
         \A cd \in overtook' :
           carried[cd[1]] = Closed /\ pc[cd[1]] \in {"Reading", "Told"} =>
             /\ pc'[cd[1]] \in {"Reading", "Told"}
             /\ announced[cd[1]] \subseteq announced'[cd[1]]
             /\ old[cd[1]] => old'[cd[1]]
  PROVE  Overtaken' /\ InOrder'
<1>1. ASSUME NEW cd \in overtook'
      PROVE  /\ cd \in overtook /\ cd[1] \in Conns /\ cd[2] \in Conns
             /\ (/\ carried[cd[1]] = Closed /\ MayYet(cd[1], cd[2])'
                 /\ announced[cd[1]] \subseteq announced'[cd[1]]) => MayYet(cd[1], cd[2])
             /\ carried[cd[1]] # Closed => (Foretold(cd[1], cd[2])' <=> Foretold(cd[1], cd[2]))
  <2>1. cd \in overtook /\ cd[1] \in Conns /\ cd[2] \in Conns
    BY DEF Shapes
  <2>2. MayYet(cd[1], cd[2])' /\ announced[cd[1]] \subseteq announced'[cd[1]] =>
          MayYet(cd[1], cd[2])
    BY DEF MayYet
  <2>3. carried[cd[1]] # Closed => (Foretold(cd[1], cd[2])' <=> Foretold(cd[1], cd[2]))
    BY <2>1 DEF Foretold
  <2>4. QED
    BY <2>1, <2>2, <2>3
<1>2. Overtaken'
  BY <1>1 DEF Overtaken
<1>3. InOrder'
  BY <1>1 DEF InOrder
<1>4. QED
  BY <1>2, <1>3

LEMMA AdmitStep ==
  ASSUME IInv, admit
  PROVE  IInv'
<1> USE HookConstants DEF IInv, Shapes, admit, Conns
<1>0. next + 1 \in Conns
  OBVIOUS
<1>1. Shapes'
  <2>1. next' \in 0..N /\ pc' \in [Conns -> Pcs]
    BY <1>0 DEF Pcs
  <2>2. slot' = [c \in Conns |-> slot'[c]]
    BY <1>0
  <2>3. QED
    BY <2>1, <2>2
<1>2. Accepted'
  BY DEF Accepted
<1>3. Slots'
  BY Kinds DEF Slots, SlotOK, StillReads, Waiting, Pcs, Accepted, Standings
<1>4. Overtaken' /\ InOrder'
  BY Kinds, OrderFrame DEF Slots, SlotOK, Waiting, Accepted, Pcs
<1>5. QED
  BY <1>1, <1>2, <1>3, <1>4 DEF IInv

LEMMA NotifyStep ==
  ASSUME IInv, NEW c \in Conns, notify(c)
  PROVE  IInv'
<1> USE HookConstants DEF IInv, Shapes, notify, Conns
<1>1. Shapes'
  BY DEF Pcs, Waiting
<1>2. Accepted'
  BY DEF Accepted
<1>3. Slots'
  BY Kinds DEF Slots, SlotOK, StillReads, Waiting, Pcs, Accepted, Standings
<1>4. Overtaken' /\ InOrder'
  BY Kinds, OrderFrame DEF Slots, SlotOK, Waiting, Accepted, Pcs
<1>5. QED
  BY <1>1, <1>2, <1>3, <1>4 DEF IInv

LEMMA ReleaseStep ==
  ASSUME IInv, NEW c \in Conns, release(c)
  PROVE  IInv'
<1> USE HookConstants DEF IInv, Shapes, release, Conns
<1>1. Shapes'
  BY DEF Pcs, Waiting
<1>2. Accepted'
  BY DEF Accepted
<1>3. Slots'
  <2>1. carried[c] = Closed
    BY DEF Slots, SlotOK, StillReads
  <2>2. SlotOK(c)'
    BY <2>1, Kinds DEF SlotOK, Waiting
  <2>3. \A d \in Conns \ {c} :
          /\ pc'[d] = pc[d] /\ slot'[d] = slot[d]
          /\ carried'[d] = carried[d] /\ announced'[d] = announced[d]
    OBVIOUS
  <2>4. \A d \in Conns \ {c} : SlotOK(d)'
    BY <2>3, SlotFrame DEF Slots
  <2>5. QED
    BY <2>2, <2>4 DEF Slots
<1>4. Overtaken' /\ InOrder'
  BY Kinds, OrderFrame DEF Slots, SlotOK, Waiting, Accepted, Pcs
<1>5. QED
  BY <1>1, <1>2, <1>3, <1>4 DEF IInv

LEMMA EndStep ==
  ASSUME IInv, NEW c \in Conns, end(c)
  PROVE  IInv'
<1> USE HookConstants DEF IInv, Shapes, end, Conns
<1>1. Shapes'
  BY DEF Pcs, Waiting
<1>2. Accepted'
  BY DEF Accepted
<1>3. Slots'
  BY Kinds DEF Slots, SlotOK, StillReads, Waiting, Pcs, Accepted, Standings
<1>4. Overtaken' /\ InOrder'
  BY Kinds, OrderFrame DEF Slots, SlotOK, Waiting, Accepted, Pcs
<1>5. QED
  BY <1>1, <1>2, <1>3, <1>4 DEF IInv

LEMMA AnnounceStep ==
  ASSUME IInv, NEW c \in Conns, NEW v \in Announces, announce(c, v)
  PROVE  IInv'
<1> USE HookConstants DEF IInv, Shapes, announce, Conns
<1>1. Shapes'
  BY DEF Pcs, Waiting
<1>2. Accepted'
  BY DEF Accepted
<1>3. Slots'
  <2>1. /\ slot'[c] = [kind |-> "Announced", pane |-> v.pane, standing |-> v.standing]
        /\ announced'[c] = {v} /\ carried'[c] = carried[c] /\ pc'[c] = "Told"
    OBVIOUS
  <2>2. SlotOK(c)'
    BY <2>1 DEF Slots, SlotOK, StillReads, Standings, Waiting
  <2>3. \A d \in Conns \ {c} :
          /\ pc'[d] = pc[d] /\ slot'[d] = slot[d]
          /\ carried'[d] = carried[d] /\ announced'[d] = announced[d]
    OBVIOUS
  <2>4. \A d \in Conns \ {c} : SlotOK(d)'
    BY <2>3, SlotFrame DEF Slots
  <2>5. QED
    BY <2>2, <2>4 DEF Slots
<1>4. Overtaken' /\ InOrder'
  BY Kinds, OrderFrame DEF Slots, SlotOK, Waiting, Accepted, Pcs
<1>5. QED
  BY <1>1, <1>2, <1>3, <1>4 DEF IInv

LEMMA EventStep ==
  ASSUME IInv, NEW c \in Conns, NEW v \in Events, event(c, v)
  PROVE  IInv'
<1> USE HookConstants DEF IInv, Shapes, event, Conns
<1>1. Shapes'
  BY DEF Pcs, Waiting
<1>2. Accepted'
  BY DEF Accepted
<1>3. Slots'
  <2>1. /\ slot'[c] = carried'[c] /\ slot'[c].kind = "Event" /\ slot'[c].standing = v.standing
        /\ pc'[c] = "Set"
    OBVIOUS
  <2>2. SlotOK(c)'
    BY <2>1 DEF SlotOK, Standings, Waiting
  <2>3. \A d \in Conns \ {c} :
          /\ pc'[d] = pc[d] /\ slot'[d] = slot[d]
          /\ carried'[d] = carried[d] /\ announced'[d] = announced[d]
    OBVIOUS
  <2>4. \A d \in Conns \ {c} : SlotOK(d)'
    BY <2>3, SlotFrame DEF Slots
  <2>5. QED
    BY <2>2, <2>4 DEF Slots
<1>4. Overtaken'
  <2> SUFFICES ASSUME NEW cd \in overtook
               PROVE  LET d == cd[1]
                          e == cd[2]
                      IN /\ carried'[e] # Closed
                         /\ pc'[e] \notin Waiting
                         /\ carried'[d] = Closed => pc'[d] \in {"Reading", "Told"}
                         /\ carried'[d] = Closed /\ MayYet(d, e)' => old'[d]
    BY DEF Overtaken
  <2>1. cd[1] \in Conns /\ cd[2] \in Conns /\ cd[2] # c
    BY DEF Overtaken, Slots, SlotOK, Waiting, StillReads
  <2>2. carried'[cd[2]] = carried[cd[2]] /\ pc'[cd[2]] = pc[cd[2]]
    BY <2>1
  <2>3. CASE cd[1] = c
    BY <2>1, <2>2, <2>3, Kinds DEF Overtaken
  <2>4. CASE cd[1] # c
    BY <2>1, <2>2, <2>4 DEF Overtaken, MayYet
  <2>5. QED
    BY <2>3, <2>4
<1>5. InOrder'
  <2> SUFFICES ASSUME NEW cd \in overtook,
                      carried'[cd[1]] # Closed,
                      holds_back(carried'[cd[1]].standing, carried'[cd[2]].standing),
                      overlaps(carried'[cd[1]], carried'[cd[2]]),
                      Foretold(cd[1], cd[2])'
               PROVE  late'[cd[1]]
    BY DEF InOrder
  <2>1. cd[1] \in Conns /\ cd[2] \in Conns /\ cd[2] # c
    BY DEF Overtaken, Slots, SlotOK, Waiting, StillReads
  <2>2. carried'[cd[2]] = carried[cd[2]]
    BY <2>1
  <2>3. CASE cd[1] = c
    <3>1. carried[c] = Closed /\ late'[c] = old[c] /\ carried'[c].standing = v.standing
      BY DEF Slots, SlotOK, StillReads
    <3>2. carried[cd[2]].standing \in Standings
      BY <2>1 DEF Slots, SlotOK, Overtaken
    <3>3. MayYet(c, cd[2])
      BY <2>2, <2>3, <3>1, <3>2 DEF MayYet, Foretold, holds_back, Standings
    <3>4. QED
      BY <2>3, <3>1, <3>3 DEF Overtaken
  <2>4. CASE cd[1] # c
    BY <2>1, <2>2, <2>4 DEF InOrder, Foretold
  <2>5. QED
    BY <2>3, <2>4
<1>6. QED
  BY <1>1, <1>2, <1>3, <1>4, <1>5 DEF IInv

LEMMA EnableStep ==
  ASSUME IInv, NEW c \in Conns, enable(c)
  PROVE  IInv'
<1> USE HookConstants DEF IInv, Shapes, enable, Conns
<1>1. Shapes'
  BY DEF Pcs, Waiting
<1>2. Accepted'
  BY DEF Accepted
<1>3. Slots'
  BY Kinds DEF Slots, SlotOK, StillReads, Waiting, Pcs, Accepted, Standings
<1>4. Overtaken' /\ InOrder'
  BY Kinds, OrderFrame DEF Slots, SlotOK, Waiting, Accepted, Pcs
<1>5. QED
  BY <1>1, <1>2, <1>3, <1>4 DEF IInv

\* Whoever is ahead when a turn comes is one the turn need not wait for.
LEMMA Overtakes ==
  ASSUME IInv, NEW c \in Conns, pc[c] = "Enabled", NEW d \in Ahead(c),
         ~same_keys_ahead(c), silent_until(c) = {}
  PROVE  /\ d \in Conns /\ d < c
         /\ carried[d] = Closed => pc[d] \in {"Reading", "Told"}
         /\ carried[d] = Closed /\ MayYet(d, c) => old[d]
         /\ carried[d] # Closed =>
              ~(overlaps(carried[d], carried[c])
                  /\ holds_back(carried[d].standing, carried[c].standing))
<1>1. d \in Conns /\ d < c /\ slot[d] # Closed /\ c \in Nat /\ d \in Nat
  BY HookConstants DEF Ahead, Conns
<1>2. /\ slot[c] = carried[c] /\ slot[c].standing \in Standings
      /\ ~same_keys(d, c) /\ (pending(d, c) => old[d])
  BY DEF IInv, Shapes, Slots, SlotOK, Waiting, same_keys_ahead, silent_until
<1>3. pc[d] \in {"Reading", "Told", "Turn"} \cup Waiting
  BY <1>1 DEF IInv, Shapes, Slots, SlotOK, Pcs
<1>4. CASE pc[d] \in {"Reading", "Told"}
  <2>1. StillReads(d)
    BY <1>1, <1>4 DEF IInv, Slots, SlotOK
  <2>2. MayYet(d, c) => pending(d, c)
    BY <1>2, <2>1 DEF StillReads, MayYet, pending, Standings, Silent
  <2>3. QED
    BY <1>1, <1>2, <1>4, <2>1, <2>2 DEF StillReads
<1>5. CASE pc[d] \in {"Turn"} \cup Waiting
  <2>1. slot[d] = carried[d] /\ slot[d].kind = "Event"
    BY <1>1, <1>5 DEF IInv, Slots, SlotOK
  <2>2. QED
    BY <1>1, <1>2, <2>1 DEF same_keys
<1>6. QED
  BY <1>3, <1>4, <1>5

LEMMA LookStep ==
  ASSUME IInv, NEW c \in Conns, look(c)
  PROVE  IInv'
<1> DEFINE turn == ~same_keys_ahead(c) /\ silent_until(c) = {}
<1>1. /\ pc[c] = "Enabled"
      /\ UNCHANGED <<next, slot, old, announced, carried, late>>
      /\ pc' = [pc EXCEPT ![c] = IF turn THEN "Turn" ELSE "Looked"]
      /\ overtook' = IF turn THEN overtook \cup {<<d, c>> : d \in Ahead(c)} ELSE overtook
  BY DEF look
<1>2. Shapes'
  <2>1. pc' \in [Conns -> Pcs]
    BY <1>1 DEF IInv, Shapes, Pcs, Waiting
  <2>2. woken' \in [Conns -> BOOLEAN]
    BY DEF IInv, Shapes, look
  <2>3. until' \in [Conns -> 0..N]
    <3>1. silent_until(c) \subseteq 1..N /\ 0 \in 0..N
      BY HookConstants DEF silent_until, Ahead, Conns
    <3>2. silent_until(c) # {} => Min(silent_until(c)) \in 1..N
      BY <3>1, HookConstants, MinExists
    <3>3. QED
      BY <3>1, <3>2 DEF IInv, Shapes, look
  <2>4. overtook' \subseteq {cd \in Conns \X Conns : cd[1] < cd[2]}
    <3>1. \A d \in Ahead(c) : d \in Conns /\ d < c
      BY HookConstants DEF Ahead, Conns
    <3>2. QED
      BY <1>1, <3>1 DEF IInv, Shapes
  <2>5. QED
    BY <1>1, <2>1, <2>2, <2>3, <2>4 DEF IInv, Shapes
<1>3. Accepted'
  BY <1>1 DEF IInv, Shapes, Accepted
<1>4. Slots'
  BY <1>1 DEF IInv, Shapes, Slots, SlotOK, StillReads, Waiting
<1>5. ASSUME NEW cd \in overtook'
      PROVE  \/ cd \in overtook
             \/ turn /\ cd[2] = c /\ cd[1] \in Ahead(c)
  BY <1>1, <1>5
<1>6. /\ carried[c] # Closed
      /\ \A d \in Conns : pc[d] \notin Waiting => pc'[d] \notin Waiting
      /\ \A d \in Conns : pc[d] \in {"Reading", "Told"} => pc'[d] = pc[d]
  BY <1>1, Kinds DEF IInv, Shapes, Slots, SlotOK, Waiting
<1>7. Overtaken'
  <2> SUFFICES ASSUME NEW cd \in overtook'
               PROVE  LET d == cd[1]
                          e == cd[2]
                      IN /\ carried[e] # Closed
                         /\ pc'[e] \notin Waiting
                         /\ carried[d] = Closed => pc'[d] \in {"Reading", "Told"}
                         /\ carried[d] = Closed /\ MayYet(d, e) => old[d]
    BY <1>1 DEF Overtaken, MayYet
  <2>1. CASE cd \in overtook
    BY <2>1, <1>6 DEF IInv, Overtaken, Shapes
  <2>2. CASE turn /\ cd[2] = c /\ cd[1] \in Ahead(c)
    <3>1. pc'[c] = "Turn"
      BY <1>1, <2>2 DEF IInv, Shapes
    <3>2. QED
      BY <1>1, <1>6, <2>2, <3>1, Overtakes DEF Waiting
  <2>3. QED
    BY <1>5, <2>1, <2>2
<1>8. InOrder'
  <2> SUFFICES ASSUME NEW cd \in overtook',
                      carried[cd[1]] # Closed,
                      overlaps(carried[cd[1]], carried[cd[2]]),
                      holds_back(carried[cd[1]].standing, carried[cd[2]].standing),
                      Foretold(cd[1], cd[2])
               PROVE  late[cd[1]]
    BY <1>1 DEF InOrder, Foretold
  <2>1. CASE cd \in overtook
    BY <2>1 DEF IInv, InOrder
  <2>2. CASE turn /\ cd[2] = c /\ cd[1] \in Ahead(c)
    BY <1>1, <2>2, Overtakes
  <2>3. QED
    BY <1>5, <2>1, <2>2
<1>9. QED
  BY <1>2, <1>3, <1>4, <1>7, <1>8 DEF IInv

LEMMA SleepStep ==
  ASSUME IInv, NEW c \in Conns, sleep(c)
  PROVE  IInv'
<1> USE HookConstants DEF IInv, Shapes, sleep, Conns
<1>1. Shapes'
  BY DEF Pcs, Waiting
<1>2. Accepted'
  BY DEF Accepted
<1>3. Slots'
  BY Kinds DEF Slots, SlotOK, StillReads, Waiting, Pcs, Accepted, Standings
<1>4. Overtaken' /\ InOrder'
  BY Kinds, OrderFrame DEF Slots, SlotOK, Waiting, Accepted, Pcs
<1>5. QED
  BY <1>1, <1>2, <1>3, <1>4 DEF IInv

LEMMA WakeStep ==
  ASSUME IInv, NEW c \in Conns, wake(c)
  PROVE  IInv'
<1> USE HookConstants DEF IInv, Shapes, wake, Conns
<1>1. Shapes'
  BY DEF Pcs, Waiting
<1>2. Accepted'
  BY DEF Accepted
<1>3. Slots'
  BY Kinds DEF Slots, SlotOK, StillReads, Waiting, Pcs, Accepted, Standings
<1>4. Overtaken' /\ InOrder'
  BY Kinds, OrderFrame DEF Slots, SlotOK, Waiting, Accepted, Pcs
<1>5. QED
  BY <1>1, <1>2, <1>3, <1>4 DEF IInv

LEMMA FinishStep ==
  ASSUME IInv, NEW c \in Conns, finish(c)
  PROVE  IInv'
<1> USE HookConstants DEF IInv, Shapes, finish, Conns
<1>1. Shapes'
  BY DEF Pcs, Waiting
<1>2. Accepted'
  BY DEF Accepted
<1>3. Slots'
  BY Kinds DEF Slots, SlotOK, StillReads, Waiting, Pcs, Accepted, Standings
<1>4. Overtaken' /\ InOrder'
  BY Kinds, OrderFrame DEF Slots, SlotOK, Waiting, Accepted, Pcs
<1>5. QED
  BY <1>1, <1>2, <1>3, <1>4 DEF IInv

LEMMA AgeStep ==
  ASSUME IInv, NEW c \in Conns, age(c)
  PROVE  IInv'
<1> USE HookConstants DEF IInv, Shapes, age, Conns
<1>1. Shapes'
  BY DEF Pcs, Waiting
<1>2. Accepted'
  BY DEF Accepted
<1>3. Slots'
  BY Kinds DEF Slots, SlotOK, StillReads, Waiting, Pcs, Accepted, Standings
<1>4. Overtaken' /\ InOrder'
  BY Kinds, OrderFrame DEF Slots, SlotOK, Waiting, Accepted, Pcs
<1>5. QED
  BY <1>1, <1>2, <1>3, <1>4 DEF IInv

LEMMA IInvNext == IInv /\ [Next]_vars => IInv'
<1> SUFFICES ASSUME IInv, [Next]_vars PROVE IInv'
  OBVIOUS
<1>1. CASE UNCHANGED vars
  <2>1. Shapes' /\ Accepted'
    BY <1>1 DEF vars, IInv, Shapes, Accepted
  <2>2. Slots'
    BY <1>1, SlotFrame DEF vars, IInv, Slots
  <2>3. Overtaken' /\ InOrder'
    BY <1>1 DEF vars, IInv, Overtaken, MayYet, InOrder, Foretold
  <2>4. QED
    BY <2>1, <2>2, <2>3 DEF IInv
<1>2. CASE admit
  BY <1>2, AdmitStep
<1>3. ASSUME NEW c \in Conns, Reads(c) PROVE IInv'
  BY <1>3, ReleaseStep, AnnounceStep, EventStep DEF Reads
<1>4. ASSUME NEW c \in Conns, Turns(c) PROVE IInv'
  BY <1>4, NotifyStep, EnableStep, LookStep, SleepStep, WakeStep DEF Turns
<1>5. ASSUME NEW c \in Conns, finish(c) \/ end(c) \/ age(c) PROVE IInv'
  BY <1>5, FinishStep, EndStep, AgeStep
<1>6. QED
  BY <1>1, <1>2, <1>3, <1>4, <1>5 DEF Next

-----------------------------------------------------------------------------
(* Wake-ups.                                                                *)

\* What a task waits for depends on the slots ahead of it and their ages alone.
LEMMA SameView ==
  ASSUME NEW c \in Conns,
         \A d \in 1..c - 1 : slot'[d] = slot[d] /\ old'[d] = old[d],
         slot'[c] = slot[c]
  PROVE  /\ same_keys_ahead(c)' = same_keys_ahead(c)
         /\ silent_until(c)' = silent_until(c)
<1>1. Ahead(c)' = Ahead(c) /\ Ahead(c) \subseteq 1..c - 1
  BY DEF Ahead
<1>2. \A d \in Ahead(c) :
        /\ same_keys(d, c)' <=> same_keys(d, c)
        /\ pending(d, c)' <=> pending(d, c)
        /\ old'[d] = old[d]
  BY <1>1 DEF same_keys, pending
<1>3. QED
  BY <1>1, <1>2 DEF same_keys_ahead, silent_until

\* A step after which somebody is about to send a wake-up leaves nothing to show.
LEMMA NotQuiet ==
  ASSUME NEW c \in Conns, pc'[c] \in {"Told", "Set", "Released"}
  PROVE  Reasons'
  BY DEF Reasons, Quiet

\* Neither does one that changes no slot, no age and no sleeper.
LEMMA SleepersStay ==
  ASSUME Reasons, UNCHANGED <<slot, old, until>>, Quiet' => Quiet,
         \A c \in Conns : pc'[c] \in {"Looked", "Parked"} /\ ~woken'[c] =>
                            pc[c] \in {"Looked", "Parked"} /\ ~woken[c]
  PROVE  Reasons'
<1> SUFFICES ASSUME NEW c \in Conns, pc'[c] \in {"Looked", "Parked"}, ~woken'[c], Quiet'
             PROVE  IF until[c] = 0 THEN same_keys_ahead(c)'
                    ELSE old[until[c]] \/ until[c] \in silent_until(c)'
  BY DEF Reasons
<1>1. same_keys_ahead(c)' = same_keys_ahead(c) /\ silent_until(c)' = silent_until(c)
  BY SameView
<1>2. QED
  BY <1>1 DEF Reasons

LEMMA ReasonsAdmit ==
  ASSUME IInv, Reasons, admit
  PROVE  Reasons'
<1> SUFFICES ASSUME NEW c \in Conns, pc'[c] \in {"Looked", "Parked"}, ~woken'[c], Quiet'
             PROVE  IF until'[c] = 0 THEN same_keys_ahead(c)'
                    ELSE old'[until'[c]] \/ until'[c] \in silent_until(c)'
  BY DEF Reasons
<1>1. next + 1 \in Conns /\ c # next + 1 /\ pc'[c] = pc[c]
  BY HookConstants DEF admit, IInv, Shapes, Conns
<1>2. c <= next /\ c \in Nat /\ next \in Nat
  BY <1>1, HookConstants DEF IInv, Shapes, Accepted, Conns
<1>3. Quiet
  BY <1>1, HookConstants DEF admit, Quiet, IInv, Shapes, Accepted, Conns
<1>4. \A d \in 1..c - 1 : slot'[d] = slot[d] /\ old'[d] = old[d]
  BY <1>2 DEF admit, IInv, Shapes
<1>5. slot'[c] = slot[c]
  BY <1>1 DEF admit, IInv, Shapes
<1>6. QED
  BY <1>1, <1>3, <1>4, <1>5, SameView DEF Reasons, admit

LEMMA ReasonsNotify ==
  ASSUME IInv, NEW c \in Conns, notify(c)
  PROVE  Reasons'
  BY DEF notify, Reasons, IInv, Shapes

LEMMA ReasonsLook ==
  ASSUME IInv, Reasons, NEW c \in Conns, look(c)
  PROVE  Reasons'
<1> SUFFICES ASSUME NEW d \in Conns, pc'[d] \in {"Looked", "Parked"}, ~woken'[d], Quiet'
             PROVE  IF until'[d] = 0 THEN same_keys_ahead(d)'
                    ELSE old'[until'[d]] \/ until'[d] \in silent_until(d)'
  BY DEF Reasons
<1>1. slot' = slot /\ old' = old
  BY DEF look
<1>2. same_keys_ahead(d)' = same_keys_ahead(d) /\ silent_until(d)' = silent_until(d)
  BY <1>1, SameView
<1>3. Quiet
  BY DEF look, Quiet, IInv, Shapes
<1>4. CASE d # c
  BY <1>1, <1>2, <1>3, <1>4 DEF Reasons, look, IInv, Shapes
<1>5. CASE d = c
  <2>1. ~(~same_keys_ahead(c) /\ silent_until(c) = {})
    BY <1>5 DEF look, IInv, Shapes
  <2>2. until'[c] = IF silent_until(c) = {} THEN 0 ELSE Min(silent_until(c))
    BY <2>1 DEF look, IInv, Shapes
  <2>3. silent_until(c) \subseteq Nat /\ 0 \notin silent_until(c)
    BY HookConstants DEF silent_until, Ahead, Conns
  <2>4. silent_until(c) # {} => Min(silent_until(c)) \in silent_until(c)
    BY <2>3, MinExists
  <2>5. QED
    BY <1>2, <1>5, <2>1, <2>2, <2>3, <2>4
<1>6. QED
  BY <1>4, <1>5

LEMMA ReasonsAge ==
  ASSUME IInv, Reasons, NEW a \in Conns, age(a)
  PROVE  Reasons'
<1> SUFFICES ASSUME NEW c \in Conns, pc'[c] \in {"Looked", "Parked"}, ~woken'[c], Quiet'
             PROVE  IF until[c] = 0 THEN same_keys_ahead(c)'
                    ELSE old'[until[c]] \/ until[c] \in silent_until(c)'
  BY DEF Reasons, age
<1>1. /\ UNCHANGED <<slot, pc, woken, until>>
      /\ old' = [old EXCEPT ![a] = TRUE]
  BY DEF age
<1>2. Quiet
  BY <1>1 DEF Quiet
<1>3. same_keys_ahead(c)' = same_keys_ahead(c)
  BY <1>1 DEF same_keys_ahead, Ahead, same_keys
<1>4. silent_until(c) \ {a} \subseteq silent_until(c)'
  BY <1>1 DEF silent_until, Ahead, pending
<1>5. \A d \in silent_until(c) : d \in Conns
  BY HookConstants DEF silent_until, Ahead, Conns
<1>6. CASE until[c] = 0
  BY <1>1, <1>2, <1>3, <1>6 DEF Reasons
<1>7. CASE until[c] # 0
  <2>1. old[until[c]] \/ until[c] \in silent_until(c)
    BY <1>1, <1>2, <1>7 DEF Reasons
  <2>2. old[until[c]] => old'[until[c]]
    BY <1>1 DEF IInv, Shapes
  <2>3. QED
    BY <1>1, <1>4, <1>5, <1>7, <2>1, <2>2 DEF IInv, Shapes
<1>8. QED
  BY <1>6, <1>7

LEMMA ReasonsNext == IInv /\ Reasons /\ [Next]_vars => Reasons'
<1> SUFFICES ASSUME IInv, Reasons, [Next]_vars PROVE Reasons'
  OBVIOUS
<1> USE DEF IInv, Shapes
<1>1. CASE UNCHANGED vars
  BY <1>1, SleepersStay DEF vars, Quiet
<1>2. CASE admit
  BY <1>2, ReasonsAdmit
<1>3. ASSUME NEW c \in Conns, Reads(c) PROVE Reasons'
  BY <1>3, NotQuiet DEF Reads, release, announce, event
<1>4. ASSUME NEW c \in Conns, Turns(c) PROVE Reasons'
  <2>1. CASE enable(c)
    BY <2>1, SleepersStay DEF enable, Quiet
  <2>2. CASE sleep(c)
    BY <2>2, SleepersStay DEF sleep, Quiet
  <2>3. CASE wake(c)
    <3>1. \A d \in Conns : pc'[d] \in {"Looked", "Parked"} => d # c
      BY <2>3 DEF wake
    <3>2. Quiet' => Quiet
      BY <2>3 DEF wake, Quiet
    <3>3. QED
      BY <2>3, <3>1, <3>2, SameView DEF wake, Reasons
  <2>4. QED
    BY <1>4, <2>1, <2>2, <2>3, ReasonsNotify, ReasonsLook DEF Turns
<1>5. ASSUME NEW c \in Conns, finish(c) \/ end(c) \/ age(c) PROVE Reasons'
  <2>1. CASE finish(c)
    BY <2>1, NotQuiet DEF finish
  <2>2. CASE end(c)
    BY <2>2, SleepersStay DEF end, Quiet
  <2>3. QED
    BY <1>5, <2>1, <2>2, ReasonsAge
<1>6. QED
  BY <1>1, <1>2, <1>3, <1>4, <1>5 DEF Next

-----------------------------------------------------------------------------
(* The cap on connections, and the deadlines of sleepers.                   *)

\* A sleeper's deadline is that of a connection ahead of it.
Sleeps ==
  \A c \in Conns :
    until[c] # 0 => until[c] < c /\ pc[c] \in {"Looked", "Parked"}

Capped == Cardinality(Served) <= MaxConnections

LEMMA ServedFinite == IsFiniteSet(Served)
<1>1. IsFiniteSet(Conns)
  BY HookConstants, FS_Interval DEF Conns
<1>2. QED
  BY <1>1, FS_Subset DEF Served

\* Only an accept adds a served connection.
LEMMA ServedShrinks ==
  ASSUME \A c \in Conns : pc[c] \in {"New", "Ended"} => pc'[c] \in {"New", "Ended"}, Capped
  PROVE  Capped'
<1>1. Served' \subseteq Served
  BY DEF Served
<1>2. IsFiniteSet(Served')
  BY <1>1, ServedFinite, FS_Subset
<1>3. Cardinality(Served') <= Cardinality(Served)
  BY <1>1, ServedFinite, FS_Subset
<1>4. QED
  BY <1>2, <1>3, ServedFinite, FS_CardinalityType, HookConstants DEF Capped

LEMMA CappedNext == IInv /\ Capped /\ [Next]_vars => Capped'
<1> SUFFICES ASSUME IInv, Capped, [Next]_vars PROVE Capped'
  OBVIOUS
<1>1. CASE admit
  <2>1. Served' \subseteq Served \cup {next + 1}
    BY <1>1 DEF admit, Served, IInv, Shapes
  <2>2. /\ IsFiniteSet(Served \cup {next + 1})
        /\ Cardinality(Served \cup {next + 1}) <= Cardinality(Served) + 1
    BY ServedFinite, FS_AddElement, FS_CardinalityType
  <2>3. IsFiniteSet(Served') /\ Cardinality(Served') <= Cardinality(Served \cup {next + 1})
    BY <2>1, <2>2, FS_Subset
  <2>4. Cardinality(Served) \in Nat /\ Cardinality(Served) < MaxConnections
    BY <1>1, ServedFinite, FS_CardinalityType DEF admit, FreePermit
  <2>5. Cardinality(Served') \in Nat /\ Cardinality(Served \cup {next + 1}) \in Nat
    BY <2>2, <2>3, FS_CardinalityType
  <2>6. QED
    BY <2>2, <2>3, <2>4, <2>5, HookConstants DEF Capped
<1>2. ASSUME NEW c \in Conns, Reads(c) PROVE Capped'
  BY <1>2, ServedShrinks DEF Reads, release, announce, event, IInv, Shapes
<1>3. ASSUME NEW c \in Conns, Turns(c) PROVE Capped'
  BY <1>3, ServedShrinks DEF Turns, notify, enable, look, sleep, wake, IInv, Shapes
<1>4. ASSUME NEW c \in Conns, finish(c) \/ end(c) \/ age(c) PROVE Capped'
  BY <1>4, ServedShrinks DEF finish, end, age, IInv, Shapes
<1>5. CASE UNCHANGED vars
  BY <1>5, ServedShrinks DEF vars
<1>6. QED
  BY <1>1, <1>2, <1>3, <1>4, <1>5 DEF Next

LEMMA SleepsNext == IInv /\ Sleeps /\ [Next]_vars => Sleeps'
<1> SUFFICES ASSUME IInv, Sleeps, [Next]_vars PROVE Sleeps'
  OBVIOUS
<1>1. CASE admit
  BY <1>1, HookConstants DEF admit, Sleeps, IInv, Shapes, Accepted, Conns
<1>2. ASSUME NEW c \in Conns, Reads(c) PROVE Sleeps'
  BY <1>2 DEF Reads, release, announce, event, Sleeps, IInv, Shapes
<1>3. ASSUME NEW c \in Conns, look(c) PROVE Sleeps'
  <2>1. silent_until(c) \subseteq Nat /\ \A d \in silent_until(c) : d < c
    BY HookConstants DEF silent_until, Ahead, Conns
  <2>2. silent_until(c) # {} => Min(silent_until(c)) < c
    BY <2>1, MinExists
  <2>3. QED
    BY <1>3, <2>2 DEF look, Sleeps, IInv, Shapes
<1>4. ASSUME NEW c \in Conns, Turns(c), ~look(c) PROVE Sleeps'
  BY <1>4 DEF Turns, notify, enable, sleep, wake, Sleeps, IInv, Shapes
<1>5. ASSUME NEW c \in Conns, finish(c) \/ end(c) \/ age(c) PROVE Sleeps'
  BY <1>5 DEF finish, end, age, Sleeps, IInv, Shapes
<1>6. CASE UNCHANGED vars
  BY <1>6 DEF vars, Sleeps
<1>7. QED
  BY <1>1, <1>2, <1>3, <1>4, <1>5, <1>6 DEF Next

-----------------------------------------------------------------------------
(* The theorems.                                                            *)

LEMMA HookInv == Spec => [](IInv /\ Reasons /\ Capped /\ Sleeps)
<1>1. Init => Reasons /\ Sleeps
  BY DEF Init, Reasons, Sleeps
<1>2. Init => Capped
  <2>1. Init => Served = {}
    BY DEF Init, Served
  <2>2. QED
    BY <2>1, FS_EmptySet, HookConstants DEF Capped
<1>3. QED
  BY <1>1, <1>2, IInvInit, IInvNext, ReasonsNext, CappedNext, SleepsNext, PTL DEF Spec

\* The model's state has its type: no more connections are served than there are
\* permits (accept_hook_connection), an open slot belongs to a task that reads,
\* waits or has its turn, and a sleeper's deadline to a connection ahead of it.
THEOREM TypeCorrect == Spec => []TypeOK
<1>1. IInv /\ Capped /\ Sleeps => TypeOK
  <2> SUFFICES ASSUME IInv, Capped, Sleeps PROVE TypeOK
    OBVIOUS
  <2>1. ASSUME NEW c \in Conns
        PROVE  /\ pc[c] \in Pcs
               /\ pc[c] = "New" <=> c > next
               /\ slot[c] # Closed <=> pc[c] \in {"Reading", "Told", "Turn"} \cup Waiting
               /\ pc[c] \in {"Turn"} \cup Waiting => slot[c].kind = "Event"
    BY Kinds DEF IInv, Shapes, Accepted, Slots, SlotOK, StillReads, Pcs, Waiting
  <2>2. ASSUME NEW c \in Conns
        PROVE  /\ until[c] \in 0..c - 1
               /\ until[c] # 0 => pc[c] \in {"Looked", "Parked"}
    BY HookConstants DEF IInv, Shapes, Sleeps, Conns
  <2>3. QED
    BY <2>1, <2>2 DEF IInv, Shapes, Capped, TypeOK, Pcs
<1>2. QED
  BY <1>1, HookInv, PTL

\* Two events of one session or pane are applied in accept order, whatever the
\* number of connections, unless the first came later than its bounded wait or
\* was announced for another pane or standing (turn_for_kind).
THEOREM EventsInOrder == Spec => []InOrder
<1>1. IInv => InOrder
  BY DEF IInv
<1>2. QED
  BY <1>1, HookInv, PTL

\* A sleeping task whose turn has come is never left without a wake-up: the
\* wake-up is enabled before the look (turn_for_kind), and every change of a slot
\* is followed by one (set_slot, the drop of a ticket).
THEOREM WakeupsArrive == Spec => []NoLostWakeup
<1>1. IInv /\ Reasons => NoLostWakeup
  BY DEF IInv, Shapes, Reasons, NoLostWakeup
<1>2. QED
  BY <1>1, HookInv, PTL
=============================================================================
