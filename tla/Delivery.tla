------------------------------ MODULE Delivery ------------------------------
(***************************************************************************)
(* What the receipt engine promises the hub of the messages it delivers to *)
(* one agent generation, whatever receivers, receipts and deadlines do.    *)
(*                                                                         *)
(* A message is open until one verdict is given of it, every hand-out of   *)
(* an open message has a name of its own, and whoever was told that the    *)
(* message is uncertain, cancelled or undeliverable is corrected when the  *)
(* agent turns out to have it: once, and nobody else is.                   *)
(***************************************************************************)
CONSTANTS
  Ids,      \* messages
  Offers    \* those that are offers

VARIABLES
  verdict,     \* what is said of each message
  corrected,   \* the messages said to have reached the agent after all
  names        \* of each message, the hand-outs made of it

vars == <<verdict, corrected, names>>

Verdicts == {"None", "Open", "Uncertain", "Cancelling",
             "Settled", "Cancelled", "MaxDeliver", "Exited"}

Live == {"Open", "Uncertain", "Cancelling"}

Init ==
  /\ verdict = [id \in Ids |-> "None"]
  /\ corrected = [id \in Ids |-> FALSE]
  /\ names = [id \in Ids |-> {}]

Corrects(id) == corrected'[id] = TRUE
Corrected(id) == corrected'[id] = corrected[id]

Named(id) == names'[id] = names[id]

Same(id) == verdict'[id] = verdict[id] /\ Corrected(id) /\ Named(id)

\* Noted, with no room to hand it out
Take(id) ==
  /\ verdict[id] = "None" /\ verdict'[id] = "Open"
  /\ Corrected(id) /\ Named(id)

HandOut(id) ==
  /\ verdict[id] \in {"None", "Open"} /\ verdict'[id] \in {"Open", "Uncertain"}
  /\ Corrected(id)
  /\ \E n \in names'[id] : n \notin names[id] /\ names'[id] = names[id] \cup {n}

\* Nobody can tell, or somebody can again
Doubt(id) ==
  /\ verdict[id] \in {"Open", "Uncertain"} /\ verdict'[id] \in {"Open", "Uncertain"}
  /\ Corrected(id) /\ Named(id)

Cancel(id) ==
  /\ verdict[id] \in {"Open", "Uncertain"} /\ verdict'[id] = "Cancelling"
  /\ Corrected(id) /\ Named(id)

GiveUp(id) ==
  /\ \/ verdict[id] \in Live /\ verdict'[id] = "Cancelled"
     \/ verdict[id] \in {"Open", "Uncertain"} /\ verdict'[id] = "MaxDeliver"
     \/ verdict[id] \in Live /\ verdict'[id] = "Exited"
  /\ Corrected(id) /\ Named(id)

\* The agent has it
Settle(id) ==
  /\ verdict'[id] = "Settled"
  /\ \/ verdict[id] = "Open" /\ Corrected(id)
     \/ verdict[id] \in {"Uncertain", "Cancelling"} /\ Corrects(id)
     \/ verdict[id] = "MaxDeliver" /\ id \notin Offers /\ Corrects(id)
  /\ Named(id)

\* The agent has what was given up: the verdict stays
AfterAll(id) ==
  /\ verdict[id] \in {"Cancelled", "MaxDeliver"} /\ verdict'[id] = verdict[id]
  /\ Corrects(id) /\ Named(id)

Forget(id) ==
  /\ verdict[id] \in Verdicts \ (Live \cup {"None"}) /\ verdict'[id] = "None"
  /\ corrected'[id] = FALSE /\ Named(id)

Step(id) ==
  \/ Same(id) \/ Take(id) \/ HandOut(id) \/ Doubt(id) \/ Cancel(id)
  \/ GiveUp(id) \/ Settle(id) \/ AfterAll(id) \/ Forget(id)

\* One step of the engine may move several messages
Next ==
  /\ \A id \in Ids : Step(id)
  /\ DOMAIN verdict' = Ids /\ DOMAIN corrected' = Ids /\ DOMAIN names' = Ids

Spec == Init /\ [][Next]_vars
=============================================================================
