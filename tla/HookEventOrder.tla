--------------------------- MODULE HookEventOrder ---------------------------
(***************************************************************************)
(* The order one session's hook events are applied in                      *)
(* (src/hook_event_order.rs), as the hook loop of src/daemon.rs uses it.   *)
(*                                                                         *)
(* Every connection has a task of its own.  The loop takes a ticket for it *)
(* in accept order; a task that reads a raw event waits until no earlier   *)
(* open connection carries an event of the same session or pane, or may    *)
(* yet turn out to, the latter only for PREDECESSOR_WAIT after its accept. *)
(*                                                                         *)
(* A task sleeps on a Notify: it enables the wake-up, looks at the others  *)
(* under the lock and only then sleeps.  A change under the lock and the   *)
(* wake-up that follows it are two steps.                                  *)
(***************************************************************************)
EXTENDS Naturals, FiniteSets, FiniteSetsExt

CONSTANTS
  N,                \* bound: connections ever made
  MaxConnections,   \* HookLoopLimits::max_connections
  Events,           \* the raw events a connection may carry
  Announces,        \* the inbox announces that may come before them
  NoPane            \* an event that names no pane

ASSUME HookConstants ==
  /\ N \in Nat /\ MaxConnections \in Nat \ {0}
  /\ \A v \in Events : v.standing \in {"Attested", "Unproven"}
  /\ \A v \in Announces : v.standing \in {"Attested", "Unproven"}

VARIABLES
  next,       \* Open::next, the connections accepted so far
  slot,       \* Open::connections, Closed where there is none
  pc,         \* where the connection's task is
  old,        \* open, and PREDECESSOR_WAIT has passed since its accept
  woken,      \* the wake-up the task enabled has come
  until,      \* the connection whose deadline ends the sleep, 0 for none
  announced,  \* history: the announces ahead of its event
  carried,    \* history: the event the connection carried, or Closed
  late,       \* history: it was read after PREDECESSOR_WAIT
  overtook    \* history: <<c, d>> if d's turn came while c < d was open

vars == <<next, slot, pc, old, woken, until, announced, carried, late, overtook>>

Conns == 1..N

Closed == [kind |-> "Closed"]
Silent == [kind |-> "Silent"]

\* A task that waits for its turn
Waiting == {"Set", "Loop", "Enabled", "Looked", "Parked"}

holds_back(theirs, waiter) == theirs = "Attested" \/ waiter = "Unproven"

overlaps(u, v) == u.session = v.session \/ (u.pane # NoPane /\ u.pane = v.pane)

-----------------------------------------------------------------------------
(* Tickets.                                                                 *)

Served == {c \in Conns : pc[c] \notin {"New", "Ended"}}

\* accept_hook_connection takes a permit first
FreePermit == Cardinality(Served) < MaxConnections

admit ==
  LET c == next + 1
  IN /\ next < N
     /\ FreePermit
     /\ next' = c
     /\ slot' = [slot EXCEPT ![c] = Silent]
     /\ pc' = [pc EXCEPT ![c] = "Reading"]
     /\ UNCHANGED <<old, woken, until, announced, carried, late, overtook>>

\* Mutant: only tasks already asleep are woken.
notifyParked(c) ==
  /\ pc[c] \in {"Told", "Set", "Released"}
  /\ pc' = [pc EXCEPT ![c] = CASE @ = "Told" -> "Reading" [] @ = "Set" -> "Loop"
                               [] @ = "Released" -> "Free"]
  /\ woken' = [d \in Conns |-> woken[d] \/ pc[d] = "Parked"]
  /\ UNCHANGED <<next, slot, old, until, announced, carried, late, overtook>>

\* Every task whose wake-up is enabled gets it
notify(c) ==
  /\ pc[c] \in {"Told", "Set", "Released"}
  /\ pc' = [pc EXCEPT ![c] = CASE @ = "Told" -> "Reading" [] @ = "Set" -> "Loop"
                               [] @ = "Released" -> "Free"]
  /\ woken' = [d \in Conns |-> woken[d] \/ pc[d] \in {"Enabled", "Looked", "Parked"}]
  /\ UNCHANGED <<next, slot, old, until, announced, carried, late, overtook>>

\* The ticket goes: a line of another kind or one the gate refuses, a peer that
\* closed, or the idle timeout
release(c) ==
  /\ pc[c] = "Reading"
  /\ slot' = [slot EXCEPT ![c] = Closed]
  /\ pc' = [pc EXCEPT ![c] = "Released"]
  /\ announced' = [announced EXCEPT ![c] = {}]
  /\ overtook' = {cd \in overtook : cd[1] # c}
  /\ old' = [old EXCEPT ![c] = FALSE]
  /\ UNCHANGED <<next, woken, until, carried, late>>

\* With no ticket left, until the connection ends and its permit goes back
end(c) ==
  /\ pc[c] = "Free"
  /\ pc' = [pc EXCEPT ![c] = "Ended"]
  /\ UNCHANGED <<next, slot, old, woken, until, announced, carried, late, overtook>>

-----------------------------------------------------------------------------
(* turn_for_line.                                                           *)

\* A hook sends at most one, ahead of its event
announce(c, v) ==
  /\ pc[c] = "Reading" /\ announced[c] = {}
  /\ slot' = [slot EXCEPT ![c] = [kind |-> "Announced", pane |-> v.pane, standing |-> v.standing]]
  /\ pc' = [pc EXCEPT ![c] = "Told"]
  /\ announced' = [announced EXCEPT ![c] = @ \cup {v}]
  /\ UNCHANGED <<next, old, woken, until, carried, late, overtook>>

event(c, v) ==
  /\ pc[c] = "Reading"
  /\ slot' = [slot EXCEPT ![c] = [kind |-> "Event", session |-> v.session, pane |-> v.pane,
                                  standing |-> v.standing]]
  /\ pc' = [pc EXCEPT ![c] = "Set"]
  /\ carried' = [carried EXCEPT ![c] = slot'[c]]
  /\ late' = [late EXCEPT ![c] = old[c]]
  /\ UNCHANGED <<next, old, woken, until, announced, overtook>>

enable(c) ==
  /\ pc[c] = "Loop"
  /\ pc' = [pc EXCEPT ![c] = "Enabled"]
  /\ UNCHANGED <<next, slot, old, woken, until, announced, carried, late, overtook>>

Ahead(c) == {d \in 1..c - 1 : slot[d] # Closed}

\* An event d carries that c is ordered behind
same_keys(d, c) ==
  /\ slot[d].kind = "Event"
  /\ holds_back(slot[d].standing, slot[c].standing)
  /\ overlaps(slot[d], slot[c])

\* Mutant: an announced connection is waited for no more.
pendingSilent(d, c) == slot[d].kind = "Silent"

\* d may yet turn out to carry one
pending(d, c) ==
  \/ slot[d].kind = "Silent"
  \/ /\ slot[d].kind = "Announced"
     /\ IF slot[d].standing = "Attested" THEN slot[c].pane = slot[d].pane
        ELSE slot[c].standing = "Unproven"

\* Those it waits for, each with a deadline that has not passed
silent_until(c) == {d \in Ahead(c) : pending(d, c) /\ ~old[d]}

same_keys_ahead(c) == \E d \in Ahead(c) : same_keys(d, c)

\* The look at the others, under the lock: the turn, or a sleep and until when
look(c) ==
  /\ pc[c] = "Enabled"
  /\ IF ~same_keys_ahead(c) /\ silent_until(c) = {}
     THEN /\ pc' = [pc EXCEPT ![c] = "Turn"]
          /\ woken' = [woken EXCEPT ![c] = FALSE]
          /\ UNCHANGED until
          /\ overtook' = overtook \cup {<<d, c>> : d \in Ahead(c)}
     ELSE /\ pc' = [pc EXCEPT ![c] = "Looked"]
          /\ until' = [until EXCEPT ![c] = IF silent_until(c) = {} THEN 0 ELSE Min(silent_until(c))]
          /\ UNCHANGED <<woken, overtook>>
  /\ UNCHANGED <<next, slot, old, announced, carried, late>>

sleep(c) ==
  /\ pc[c] = "Looked"
  /\ pc' = [pc EXCEPT ![c] = "Parked"]
  /\ UNCHANGED <<next, slot, old, woken, until, announced, carried, late, overtook>>

wake(c) ==
  /\ pc[c] = "Parked"
  /\ woken[c] \/ (until[c] # 0 /\ old[until[c]])
  /\ pc' = [pc EXCEPT ![c] = "Loop"]
  /\ until' = [until EXCEPT ![c] = 0]
  /\ woken' = [woken EXCEPT ![c] = FALSE]
  /\ UNCHANGED <<next, slot, old, announced, carried, late, overtook>>

\* Mutant: nobody is told.
finishUntold(c) ==
  /\ pc[c] = "Turn"
  /\ slot' = [slot EXCEPT ![c] = Closed]
  /\ pc' = [pc EXCEPT ![c] = "Free"]
  /\ UNCHANGED <<next, old, woken, until, announced, carried, late, overtook>>

\* The event is applied and its turn dropped
finish(c) ==
  /\ pc[c] = "Turn"
  /\ slot' = [slot EXCEPT ![c] = Closed]
  /\ pc' = [pc EXCEPT ![c] = "Released"]
  /\ old' = [old EXCEPT ![c] = FALSE]
  /\ UNCHANGED <<next, woken, until, announced, carried, late, overtook>>

\* Connections grow old in the order they were accepted, and only an open one's
\* age is looked at
age(c) ==
  /\ slot[c] # Closed /\ ~old[c] /\ \A d \in Ahead(c) : old[d]
  /\ old' = [old EXCEPT ![c] = TRUE]
  /\ UNCHANGED <<next, slot, pc, woken, until, announced, carried, late, overtook>>

-----------------------------------------------------------------------------
Init ==
  /\ next = 0
  /\ slot = [c \in Conns |-> Closed]
  /\ pc = [c \in Conns |-> "New"]
  /\ old = [c \in Conns |-> FALSE]
  /\ woken = [c \in Conns |-> FALSE]
  /\ until = [c \in Conns |-> 0]
  /\ announced = [c \in Conns |-> {}]
  /\ carried = [c \in Conns |-> Closed]
  /\ late = [c \in Conns |-> FALSE]
  /\ overtook = {}

Reads(c) ==
  \/ release(c)
  \/ \E v \in Announces : announce(c, v)
  \/ \E v \in Events : event(c, v)

Turns(c) == notify(c) \/ enable(c) \/ look(c) \/ sleep(c) \/ wake(c)

Next ==
  \/ admit
  \/ \E c \in Conns : Reads(c) \/ Turns(c) \/ finish(c) \/ end(c) \/ age(c)

Spec == Init /\ [][Next]_vars

Attested(c) == carried[c] # Closed /\ carried[c].standing = "Attested"

\* Tasks are scheduled, time passes and attested events are applied; peers may
\* stay silent and the handling of any other event may never end
Fairness ==
  /\ WF_vars(admit)
  /\ \A c \in Conns : /\ WF_vars(Turns(c))
                      /\ WF_vars(age(c))
                      /\ WF_vars(Attested(c) /\ finish(c))

FairSpec == Spec /\ Fairness

-----------------------------------------------------------------------------
(* Properties.                                                              *)

\* The model's state has its type: the open connections are accepted ones, a
\* waiting task has its event in its slot and a sleeper's deadline is a
\* connection ahead of it.
TypeOK ==
  /\ next \in 0..N
  /\ \A c \in Conns :
       /\ pc[c] \in {"New", "Reading", "Told", "Turn", "Released", "Free", "Ended"} \cup Waiting
       /\ pc[c] = "New" <=> c > next
       /\ slot[c] # Closed <=> pc[c] \in {"Reading", "Told", "Turn"} \cup Waiting
       /\ pc[c] \in {"Turn"} \cup Waiting => slot[c].kind = "Event"
       /\ until[c] \in 0..c - 1
       /\ until[c] # 0 => pc[c] \in {"Looked", "Parked"}
  /\ Cardinality(Served) <= MaxConnections
  /\ overtook \subseteq {cd \in Conns \X Conns : cd[1] < cd[2]}

\* What c announced tells d that c's event would come before d's
Foretold(c, d) ==
  \A v \in announced[c] :
    /\ v.standing = carried[c].standing
    /\ v.standing = "Attested" => v.pane = carried[d].pane

\* Two events of one session or pane are applied in accept order, the first
\* handled to its end before the second begins, unless the first was sent later
\* than PREDECESSOR_WAIT after its connection was accepted, or announced for
\* another pane or standing than the second's.
InOrder ==
  \A cd \in overtook :
    LET c == cd[1]
        d == cd[2]
    IN /\ carried[c] # Closed
       /\ overlaps(carried[c], carried[d])
       /\ holds_back(carried[c].standing, carried[d].standing)
       /\ Foretold(c, d)
       => late[c]

\* An attested event gets its turn, whatever silent peers and unattested events
\* ahead of it do: no wake-up is lost and no wait is for ever.
AttestedProceeds ==
  \A c \in Conns : (pc[c] \in Waiting /\ Attested(c)) ~> pc[c] = "Turn"

\* While reads end, by a line or the idle timeout, and events are handled, every
\* connection is accepted and served to its end: a waiting task holds a permit,
\* and never waits for a connection that cannot be accepted without one, nor
\* for a wake-up that nobody sends.
BacklogDrains ==
  (\A c \in Conns : []<>(pc[c] \notin {"Reading", "Told", "Turn", "Free"}))
    => <>(\A c \in Conns : pc[c] = "Ended")
=============================================================================
